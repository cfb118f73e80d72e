------------------------------- MODULE SignIn -------------------------------
(***************************************************************************)
(* Sign-in with a wallet: siwe_nonce and siwe_verify (handlers.rs,         *)
(* auth.rs, state.rs) and the browser tabs that use them                   *)
(* (web/lib/wallet/siwe.ts).                                               *)
(*                                                                         *)
(* An address is written in lower case or with its EIP-55 capitals, as the *)
(* browser's wallet library does.  A message is abstracted to the address  *)
(* it asserts, its nonce and the account that signed it.  A request may    *)
(* reach the server more than once.                                        *)
(*                                                                         *)
(* `latest` and `burnt` are not in the code: the last nonce an address was *)
(* given in lower case, and the last one there was when a message it       *)
(* signed was verified.  A message also carries how its nonce was asked    *)
(* for.                                                                    *)
(***************************************************************************)
EXTENDS Integers, Sequences, FiniteSets

CONSTANTS
    Tabs,
    Addresses,              \* what sign-in may be asked for
    Accounts,               \* what a wallet may sign with
    Spellings,              \* how clients write addresses
    MaxNonces               \* bound on nonces issued

ASSUME SignInAssumption ==
    Addresses \subseteq Accounts /\ Spellings \subseteq {"lower", "checksum"} /\ MaxNonces \in Nat

VARIABLES
    siwe_nonces,    \* <<address, spelling>> -> nonce, 0 if none
    nonces,         \* nonces issued so far
    tab,            \* tab -> where its signIn is
    wire,           \* messages sent for verification; they stay sendable
    jwts,           \* tokens issued: the message each answered, in order
    latest, burnt

signInVars == <<siwe_nonces, nonces, tab, wire, jwts, latest, burnt>>

NoTab == [at |-> "idle"]

\* Mutant: a nonce already filed is kept.
FiledOnce(a, spelling, n) ==
    [siwe_nonces EXCEPT ![<<a, spelling>>] = IF @ = 0 THEN n ELSE @]

\* issue_siwe_nonce: the nonce is filed under the address as it was written.
Filed(a, spelling, n) == [siwe_nonces EXCEPT ![<<a, spelling>>] = n]

\* signIn awaits api.siweNonce.
Ask(t, a, spelling) ==
    /\ tab[t].at \in {"idle", "failed"} /\ nonces < MaxNonces
    /\ nonces' = nonces + 1
    /\ siwe_nonces' = Filed(a, spelling, nonces')
    /\ tab' = [tab EXCEPT ![t] = [at |-> "asked", address |-> a, nonce |-> nonces', spelling |-> spelling]]
    /\ latest' = IF spelling = "lower" THEN [latest EXCEPT ![a] = nonces'] ELSE latest
    /\ UNCHANGED <<wire, jwts, burnt>>

\* signMessageAsync, with the account that is active in the wallet by then.
Sign(t, signer) ==
    /\ tab[t].at = "asked"
    /\ LET msg == [address |-> tab[t].address, nonce |-> tab[t].nonce, signer |-> signer,
                   asked |-> tab[t].spelling] IN
       /\ wire' = wire \cup {msg}
       /\ tab' = [tab EXCEPT ![t] = [at |-> "sent", msg |-> msg]]
    /\ UNCHANGED <<siwe_nonces, nonces, jwts, latest, burnt>>

\* The user declines, or the wallet fails.
Decline(t) ==
    /\ tab[t].at = "asked"
    /\ tab' = [tab EXCEPT ![t] = [at |-> "failed"]]
    /\ UNCHANGED <<siwe_nonces, nonces, wire, jwts, latest, burnt>>

\* Mutant: consume_siwe_nonce reads the nonce and leaves it there.
ConsumedKept(a) == siwe_nonces

\* consume_siwe_nonce of the lower-cased address.
Consumed(a) == [siwe_nonces EXCEPT ![<<a, "lower">>] = 0]

\* recover_personal_sign gives the address the message asserts.
Recovers(msg) == msg.signer = msg.address

\* The nonce filed for the lower-cased address is the message's.
Good(msg) == Recovers(msg) /\ siwe_nonces[<<msg.address, "lower">>] = msg.nonce

\* issue_jwt.
Issued(msg) == Append(jwts, msg)

\* siwe_verify: the nonce is taken out before it is compared, then a token
\* is issued to the address.
Verify(msg) ==
    /\ siwe_nonces' = IF Recovers(msg) THEN Consumed(msg.address) ELSE siwe_nonces
    /\ jwts' = IF Good(msg) THEN Issued(msg) ELSE jwts
    /\ burnt' = IF Recovers(msg) THEN [burnt EXCEPT ![msg.address] = nonces] ELSE burnt
    /\ UNCHANGED <<nonces, wire, latest>>

\* The answer reaches the tab: writeJwt, or the error shown.
Answered(t) ==
    /\ tab[t].at = "sent"
    /\ tab' = [tab EXCEPT ![t] = [at |-> IF Good(tab[t].msg) THEN "in" ELSE "failed"]]
    /\ Verify(tab[t].msg)

\* A copy of a request arrives, its answer lost.
Resent(msg) == Verify(msg) /\ UNCHANGED tab

\* clearJwt: the token is forgotten by the browser, not by the server.
SignOut(t) ==
    /\ tab[t].at = "in"
    /\ tab' = [tab EXCEPT ![t] = NoTab]
    /\ UNCHANGED <<siwe_nonces, nonces, wire, jwts, latest, burnt>>

SignInInit ==
    /\ siwe_nonces = [k \in Addresses \X {"lower", "checksum"} |-> 0]
    /\ nonces = 0
    /\ tab = [t \in Tabs |-> NoTab]
    /\ wire = {}
    /\ jwts = <<>>
    /\ latest = [a \in Addresses |-> 0] /\ burnt = [a \in Addresses |-> 0]

SignInNext ==
    \/ \E t \in Tabs, a \in Addresses, s \in Spellings : Ask(t, a, s)
    \/ \E t \in Tabs, signer \in Accounts : Sign(t, signer)
    \/ \E t \in Tabs : Decline(t) \/ Answered(t) \/ SignOut(t)
    \/ \E msg \in wire : Resent(msg)

SignInSpec == SignInInit /\ [][SignInNext]_signInVars

-----------------------------------------------------------------------------
(* Properties *)

\* No nonce is worth two tokens, and each token answers a message signed by
\* the address it is for, however often and in whatever order messages
\* arrive (verify_siwe: "consumed on use (replay protection)").
TokensEarned ==
    /\ \A i, j \in DOMAIN jwts : jwts[i].nonce = jwts[j].nonce => i = j
    /\ \A i \in DOMAIN jwts : jwts[i].signer = jwts[i].address

\* When a tab gets in: it signed with the account it asked for, its nonce is
\* the latest the address was given, and no message signed by the address
\* was verified since.  Another tab's stale message burns the nonce, and so
\* does a copy of its own whose answer was lost.  A tab that asked with
\* capitals, as the browser's does, never gets in.
SignsInExactly ==
    \A t \in Tabs : tab[t].at = "sent" =>
        LET msg == tab[t].msg IN
        Good(msg) <=>
            /\ msg.signer = msg.address
            /\ msg.asked = "lower"
            /\ msg.nonce = latest[msg.address] /\ burnt[msg.address] < msg.nonce

\* Both: who gets in, and that it takes a nonce of their own each time
\* (issue_siwe_nonce, consume_siwe_nonce, verify_siwe).
SignInExact == TokensEarned /\ SignsInExactly
=============================================================================
