--------------------------- MODULE WalletSession ---------------------------
(***************************************************************************)
(* The browser's half of a session: the wallet button                      *)
(* (web/components/layout/WalletButton.tsx), the stored token and useSiwe  *)
(* (web/lib/wallet/siwe.ts), the bearer of REST requests and what a 401    *)
(* does to it (web/lib/api/rest.ts), and the token of the WebSocket        *)
(* client.  The nonces and signatures of a sign-in are SignIn's.           *)
(*                                                                         *)
(* Tokens are numbered in the order they are issued.  The edge stops       *)
(* honouring a token when it expires or when its secret is changed.  The   *)
(* browser never notices by itself: readStoredJwt parses the stored expiry *)
(* as a date, but the edge sends nanoseconds, and NaN is never past.       *)
(***************************************************************************)
EXTENDS Integers, FiniteSets

CONSTANTS
    Accounts,           \* accounts of the wallet
    NoAccount,
    MaxTokens,          \* bound on tokens issued
    MaxMoves            \* bound on what the user does with the wallet

ASSUME SessionAssumption == NoAccount \notin Accounts /\ {MaxTokens, MaxMoves} \subseteq Nat

NoToken == 0
NoFlow == [at |-> "idle", address |-> NoAccount]

VARIABLES
    account,            \* the wallet's account when connected
    stored,             \* the token in local storage
    changed,            \* a storage event the hook has not handled
    seen,               \* the token and the account of the last render
    promptedFor,
    flow,               \* the signIn under way; isSigning when there is one
    live,               \* tokens the edge honours
    socketToken,        \* the WebSocket client's token
    bearers,            \* tokens of requests under way
    issued,
    moves

sessionVars == <<account, stored, changed, seen, promptedFor, flow, live, socketToken, bearers, issued, moves>>

-----------------------------------------------------------------------------
\* connect, with a connector of the menu, or another account chosen in the wallet.
WalletConnects(a) ==
    /\ moves < MaxMoves /\ a # account
    /\ moves' = moves + 1
    /\ account' = a
    /\ UNCHANGED <<stored, changed, seen, promptedFor, flow, live, socketToken, bearers, issued>>

\* writeJwt and clearJwt: storage, then the event.
Write(token) == stored' = token /\ changed' = TRUE

\* The menu's Disconnect: signOut, then disconnect.
Disconnect ==
    /\ moves < MaxMoves /\ account # NoAccount
    /\ moves' = moves + 1
    /\ account' = NoAccount
    /\ Write(NoToken)
    /\ UNCHANGED <<seen, promptedFor, flow, live, socketToken, bearers, issued>>

\* signIn begins: api.siweNonce for the address of the render it was made in.
Began(a) == [at |-> "signing", address |-> a]

\* The auto-prompt effect of a render that saw this account and token.
Prompts(a, token) == a # NoAccount /\ token = NoToken /\ flow = NoFlow /\ promptedFor # a

\* Mutant: the WebSocket client is told of new tokens only.
SocketSyncedIn(token) == IF token \notin {NoToken, seen.token} THEN token ELSE socketToken

\* The effect on stored?.jwt: syncWsToken.
SocketSynced(token) == IF token # seen.token THEN token ELSE socketToken

\* A render of the wallet button, after a change of what it subscribes to, and
\* the effects it runs.
Render ==
    /\ changed \/ account # seen.account \/ (flow = NoFlow /\ seen.signing)
    /\ changed' = FALSE
    /\ socketToken' = SocketSynced(stored)
    /\ IF Prompts(account, stored)
       THEN promptedFor' = account /\ flow' = Began(account)
       ELSE /\ promptedFor' = IF account = NoAccount THEN NoAccount ELSE promptedFor
            /\ flow' = flow
    /\ seen' = [account |-> account, token |-> stored, signing |-> flow' # NoFlow]
    /\ UNCHANGED <<account, stored, live, bearers, issued, moves>>

\* The menu's Sign in: offered without a token, disabled while signing.
SignInClicked ==
    /\ moves < MaxMoves
    /\ moves' = moves + 1
    /\ seen.account # NoAccount /\ seen.token = NoToken /\ ~seen.signing /\ flow = NoFlow
    /\ flow' = Began(seen.account)
    /\ seen' = [seen EXCEPT !.signing = TRUE]
    /\ UNCHANGED <<account, stored, changed, promptedFor, live, socketToken, bearers, issued>>

\* Mutant: the event is forgotten.
WipedSilently == stored' = NoToken /\ UNCHANGED changed

\* clearStoredJwtOn401: whatever is stored by now is removed.
Wiped == Write(NoToken)

\* The wallet declines, or a call fails: an answer of 401 wipes as any other.
SignInFails ==
    /\ flow # NoFlow
    /\ flow' = NoFlow
    /\ UNCHANGED <<stored, changed>> \/ Wiped
    /\ UNCHANGED <<account, seen, promptedFor, live, socketToken, bearers, issued, moves>>

\* The wallet signs and the edge answers siweVerify with a token.
SignedIn ==
    /\ flow # NoFlow /\ issued < MaxTokens
    /\ issued' = issued + 1
    /\ live' = live \cup {issued'}
    /\ Write(issued')
    /\ flow' = NoFlow
    /\ UNCHANGED <<account, seen, promptedFor, socketToken, bearers, moves>>

-----------------------------------------------------------------------------
\* The edge stops honouring a token.
Revoked(token) ==
    /\ token \in live
    /\ live' = live \ {token}
    /\ UNCHANGED <<account, stored, changed, seen, promptedFor, flow, socketToken, bearers, issued, moves>>

\* request sends whatever token is stored: the pages poll.
Request ==
    /\ stored # NoToken /\ stored \notin bearers
    /\ bearers' = bearers \cup {stored}
    /\ UNCHANGED <<account, stored, changed, seen, promptedFor, flow, live, socketToken, issued, moves>>

\* The answer to a request that carried this token.
RestAnswered(token) ==
    /\ token \in bearers
    /\ bearers' = bearers \ {token}
    /\ IF token \in live
       THEN UNCHANGED <<stored, changed>>
       ELSE Wiped
    /\ UNCHANGED <<account, seen, promptedFor, flow, live, socketToken, issued, moves>>

\* Another tab of the same origin writes or removes the token: a storage event.
OtherTab ==
    /\ moves < MaxMoves
    /\ moves' = moves + 1
    /\ \/ stored # NoToken /\ Write(NoToken) /\ UNCHANGED <<live, issued>>
       \/ /\ issued < MaxTokens
          /\ issued' = issued + 1
          /\ live' = live \cup {issued'}
          /\ Write(issued')
    /\ UNCHANGED <<account, seen, promptedFor, flow, socketToken, bearers>>

-----------------------------------------------------------------------------
\* A page is loaded with a token of an earlier visit or without one.  The
\* WebSocket client takes the stored token when it is made.
SessionInit ==
    /\ account = NoAccount
    /\ stored \in {NoToken, 1}
    /\ issued = stored
    /\ live \in SUBSET (IF stored = NoToken THEN {} ELSE {stored})
    /\ seen = [account |-> NoAccount, token |-> stored, signing |-> FALSE]
    /\ socketToken = stored
    /\ changed = FALSE
    /\ promptedFor = NoAccount /\ flow = NoFlow
    /\ bearers = {} /\ moves = 0

Answers == \E token \in 1 .. MaxTokens : RestAnswered(token)

SessionNext ==
    \/ \E a \in Accounts : WalletConnects(a)
    \/ Disconnect \/ Render \/ SignInClicked \/ SignedIn \/ SignInFails
    \/ \E token \in 1 .. MaxTokens : Revoked(token)
    \/ Request \/ Answers \/ OtherTab

\* React renders what changed; the pages keep polling with the stored token
\* and the edge answers.  Nobody has to sign.
SessionFairness == WF_sessionVars(Render) /\ WF_sessionVars(Request) /\ WF_sessionVars(Answers)

SessionSpec == SessionInit /\ [][SessionNext]_sessionVars /\ SessionFairness

-----------------------------------------------------------------------------
(***************************************************************************)
(* Properties.                                                             *)
(***************************************************************************)

\* The WebSocket client ends up with the token that is stored, and without one
\* when there is none: every writer of the storage, the 401 handler and other
\* tabs included, makes useSiwe look again.  And a token the edge no longer
\* honours does not stay in use: the 401 of one of the requests that carry it
\* removes it (request, useSiwe, setToken).
SessionFollows == []<>(socketToken = stored /\ (stored # NoToken => stored \in live))
=============================================================================
