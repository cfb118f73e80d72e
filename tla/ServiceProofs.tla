--------------------------- MODULE ServiceProofs ----------------------------
(***************************************************************************)
(* Signing in (SignIn) and the funding service (FundingKeeper), each for   *)
(* any number of clients and instances.                                    *)
(***************************************************************************)
EXTENDS SignIn, FundingKeeper, TLAPS

-----------------------------------------------------------------------------
(***************************************************************************)
(* For any tabs, addresses and wallets and any number of nonces: who gets  *)
(* in, and that no nonce is worth two tokens.                              *)
(*                                                                         *)
(* siwe_nonces alone does not tell what was issued and used up, so the     *)
(* invariant relates it to the history: what is filed for an address in    *)
(* lower case is its latest nonce, or nothing once a message of the        *)
(* address was verified after it (FiledIsLatest).  Nonces come from one    *)
(* counter: two addresses never share one, a nonce asked for with capitals *)
(* is nobody's latest, and one that is still filed has earned no token.    *)
(***************************************************************************)
Written == {"lower", "checksum"}
Message == [address : Addresses, nonce : Nat, signer : Accounts, asked : Written]

SignInTypeOK ==
    /\ siwe_nonces \in [Addresses \X Written -> Nat]
    /\ nonces \in Nat
    /\ DOMAIN tab = Tabs
    /\ wire \subseteq Message
    /\ jwts \in Seq(Message)
    /\ latest \in [Addresses -> Nat] /\ burnt \in [Addresses -> Nat]

\* A nonce that was issued, and to whom it was not.
Given(n, spelling) == n \in 1..nonces /\ (spelling # "lower" => \A a \in Addresses : latest[a] # n)

MessagesGiven == \A msg \in wire : Given(msg.nonce, msg.asked)

TabsGiven ==
    \A t \in Tabs :
        /\ tab[t].at = "asked" => /\ tab[t].address \in Addresses /\ tab[t].spelling \in Written
                                  /\ Given(tab[t].nonce, tab[t].spelling)
        /\ tab[t].at = "sent" => tab[t].msg \in wire

FiledIsLatest ==
    \A a \in Addresses :
        /\ latest[a] <= nonces /\ burnt[a] <= nonces
        /\ siwe_nonces[<<a, "lower">>] = IF burnt[a] < latest[a] THEN latest[a] ELSE 0

LatestDistinct == \A a, b \in Addresses : latest[a] = latest[b] /\ latest[a] # 0 => a = b

FiledUnspent ==
    \A i \in DOMAIN jwts :
        /\ jwts[i].nonce <= nonces
        /\ \A a \in Addresses : burnt[a] < latest[a] => jwts[i].nonce # latest[a]

SignInInv ==
    /\ SignInTypeOK /\ MessagesGiven /\ TabsGiven
    /\ FiledIsLatest /\ LatestDistinct /\ FiledUnspent
    /\ TokensEarned

-----------------------------------------------------------------------------
\* The invariant tells who gets in.
LEMMA GoodExactly ==
    ASSUME SignInInv, NEW msg \in wire
    PROVE  Good(msg) <=>
            /\ msg.signer = msg.address
            /\ msg.asked = "lower"
            /\ msg.nonce = latest[msg.address] /\ burnt[msg.address] < msg.nonce
<1>1. msg \in Message /\ msg.nonce \in 1..nonces /\ nonces \in Nat
      /\ (msg.asked # "lower" => latest[msg.address] # msg.nonce)
  BY DEF SignInInv, SignInTypeOK, MessagesGiven, Given, Message
<1>2. msg.address \in Addresses /\ latest[msg.address] \in Nat /\ burnt[msg.address] \in Nat
  BY <1>1 DEF Message, SignInInv, SignInTypeOK
<1>3. siwe_nonces[<<msg.address, "lower">>]
        = IF burnt[msg.address] < latest[msg.address] THEN latest[msg.address] ELSE 0
  BY <1>2 DEF SignInInv, FiledIsLatest
<1>4. QED
  BY <1>1, <1>2, <1>3 DEF Good, Recovers

-----------------------------------------------------------------------------
\* A nonce: fresh from the counter, and filed as its address was written.
LEMMA AskStep ==
    ASSUME SignInInv, NEW t \in Tabs, NEW a \in Addresses, NEW s \in Spellings, Ask(t, a, s)
    PROVE  SignInInv'
<1> USE DEF SignInInv
<1>1. nonces \in Nat /\ nonces' = nonces + 1 /\ s \in Written /\ UNCHANGED <<wire, jwts, burnt>>
  BY SignInAssumption DEF Ask, SignInTypeOK, Written
<1>2. /\ siwe_nonces' \in [Addresses \X Written -> Nat]
      /\ siwe_nonces'[<<a, s>>] = nonces'
      /\ \A k \in Addresses \X Written : k # <<a, s>> => siwe_nonces'[k] = siwe_nonces[k]
  BY <1>1 DEF Ask, Filed, SignInTypeOK
<1>3. /\ latest' \in [Addresses -> Nat]
      /\ \A b \in Addresses : latest'[b] = IF b = a /\ s = "lower" THEN nonces' ELSE latest[b]
  BY <1>1 DEF Ask, SignInTypeOK
<1>4. SignInTypeOK'
  BY <1>1, <1>2, <1>3 DEF SignInTypeOK, Ask
<1>5. \A b \in Addresses : latest[b] \in Nat /\ latest[b] < nonces' /\ burnt[b] < nonces'
  <2>1. \A b \in Addresses : latest[b] <= nonces /\ burnt[b] <= nonces
    BY Zenon DEF FiledIsLatest
  <2>2. \A b \in Addresses : latest[b] \in Nat /\ burnt[b] \in Nat
    BY DEF SignInTypeOK
  <2>3. QED
    BY <1>1, <2>1, <2>2
<1>6. \A n, sp : Given(n, sp) => Given(n, sp)'
  BY <1>1, <1>3 DEF Given
<1>7. Given(nonces, s)'
  BY <1>1, <1>3, <1>5 DEF Given
<1>8. MessagesGiven'
  BY <1>1, <1>6 DEF MessagesGiven
<1>9. TabsGiven'
  <2> SUFFICES ASSUME NEW u \in Tabs
               PROVE  (/\ tab[u].at = "asked" => /\ tab[u].address \in Addresses /\ tab[u].spelling \in Written
                                                 /\ Given(tab[u].nonce, tab[u].spelling)
                       /\ tab[u].at = "sent" => tab[u].msg \in wire)'
    BY DEF TabsGiven
  <2>1. CASE u = t
    <3>1. tab'[u] = [at |-> "asked", address |-> a, nonce |-> nonces', spelling |-> s]
      BY <2>1 DEF Ask, SignInTypeOK
    <3>2. QED
      BY <1>1, <1>7, <3>1
  <2>2. CASE u # t
    BY <1>1, <1>6, <2>2 DEF Ask, TabsGiven
  <2>3. QED
    BY <2>1, <2>2
<1>10. FiledIsLatest'
  <2> SUFFICES ASSUME NEW b \in Addresses
               PROVE  /\ latest'[b] <= nonces' /\ burnt'[b] <= nonces'
                      /\ siwe_nonces'[<<b, "lower">>] = IF burnt'[b] < latest'[b] THEN latest'[b] ELSE 0
    BY Zenon DEF FiledIsLatest
  <2>1. <<b, "lower">> \in Addresses \X Written /\ (<<b, "lower">> = <<a, s>> <=> b = a /\ s = "lower")
    BY DEF Written
  <2>2. /\ latest[b] <= nonces /\ burnt[b] <= nonces /\ latest[b] \in Nat /\ burnt[b] \in Nat
        /\ siwe_nonces[<<b, "lower">>] = IF burnt[b] < latest[b] THEN latest[b] ELSE 0
    BY DEF FiledIsLatest, SignInTypeOK
  <2>3. QED
    BY <1>1, <1>2, <1>3, <2>1, <2>2
<1>11. LatestDistinct'
  BY <1>1, <1>3, <1>5 DEF LatestDistinct
<1>12. FiledUnspent'
  <2>1. \A i \in DOMAIN jwts : jwts[i].nonce \in Nat /\ jwts[i].nonce < nonces'
    <3>1. \A i \in DOMAIN jwts : jwts[i] \in Message /\ jwts[i].nonce <= nonces
      BY DEF FiledUnspent, SignInTypeOK
    <3>2. QED
      BY <1>1, <3>1 DEF Message
  <2>2. QED
    BY <1>1, <1>3, <1>5, <2>1 DEF FiledUnspent
<1>13. TokensEarned'
  BY <1>1 DEF TokensEarned
<1>14. QED
  BY <1>4, <1>8, <1>9, <1>10, <1>11, <1>12, <1>13

\* Only the tabs and what was sent change.
LEMMA TabStep ==
    ASSUME SignInInv, NEW t \in Tabs, UNCHANGED <<siwe_nonces, nonces, jwts, latest, burnt>>,
           wire \subseteq wire', wire' \subseteq Message, MessagesGiven',
           DOMAIN tab' = Tabs, \A u \in Tabs \ {t} : tab'[u] = tab[u],
           tab'[t].at # "asked", tab'[t].at = "sent" => tab'[t].msg \in wire'
    PROVE  SignInInv'
<1> USE DEF SignInInv
<1>1. SignInTypeOK'
  BY DEF SignInTypeOK
<1>2. TabsGiven'
  BY DEF TabsGiven, Given
<1>3. FiledIsLatest' /\ LatestDistinct' /\ FiledUnspent' /\ TokensEarned'
  BY DEF FiledIsLatest, LatestDistinct, FiledUnspent, TokensEarned
<1>4. QED
  BY <1>1, <1>2, <1>3

\* A signature puts on the wire the nonce the tab was given.
LEMMA SignStep ==
    ASSUME SignInInv, NEW t \in Tabs, NEW signer \in Accounts, Sign(t, signer)
    PROVE  SignInInv'
<1> DEFINE msg == [address |-> tab[t].address, nonce |-> tab[t].nonce, signer |-> signer,
                   asked |-> tab[t].spelling]
<1>1. tab[t].address \in Addresses /\ tab[t].spelling \in Written /\ Given(tab[t].nonce, tab[t].spelling)
  BY DEF Sign, SignInInv, TabsGiven
<1>2. msg \in Message /\ Given(msg.nonce, msg.asked)
  BY <1>1 DEF Message, Given, SignInInv, SignInTypeOK
<1>3. /\ wire' = wire \cup {msg} /\ tab' = [tab EXCEPT ![t] = [at |-> "sent", msg |-> msg]]
      /\ UNCHANGED <<siwe_nonces, nonces, jwts, latest, burnt>>
  BY DEF Sign
<1> HIDE DEF msg
<1>4. MessagesGiven' /\ wire' \subseteq Message
  BY <1>2, <1>3 DEF MessagesGiven, Given, SignInInv, SignInTypeOK
<1>5. /\ DOMAIN tab' = Tabs /\ \A u \in Tabs \ {t} : tab'[u] = tab[u]
      /\ tab'[t].at = "sent" /\ tab'[t].msg \in wire'
  BY <1>3 DEF SignInInv, SignInTypeOK
<1>6. QED
  BY <1>3, <1>4, <1>5, TabStep

\* A tab that declines or signs out changes nothing at the edge.
LEMMA LeaveStep ==
    ASSUME SignInInv, NEW t \in Tabs, Decline(t) \/ SignOut(t)
    PROVE  SignInInv'
<1>1. UNCHANGED <<siwe_nonces, nonces, wire, jwts, latest, burnt>>
  BY DEF Decline, SignOut
<1>2. /\ DOMAIN tab' = Tabs /\ \A u \in Tabs \ {t} : tab'[u] = tab[u]
      /\ tab'[t].at \in {"idle", "failed"}
  BY DEF Decline, SignOut, NoTab, SignInInv, SignInTypeOK
<1>3. MessagesGiven' /\ wire' \subseteq Message
  BY <1>1 DEF MessagesGiven, Given, SignInInv, SignInTypeOK
<1>4. QED
  BY <1>1, <1>2, <1>3, TabStep

-----------------------------------------------------------------------------
(***************************************************************************)
(* siwe_verify, of any message that was sent.                              *)
(***************************************************************************)
LEMMA VerifyStep ==
    ASSUME SignInInv, NEW msg \in wire, Verify(msg),
           DOMAIN tab' = Tabs,
           \A u \in Tabs : tab'[u] = tab[u] \/ tab'[u].at \in {"in", "failed"}
    PROVE  SignInInv'
<1> DEFINE a == msg.address
<1> USE DEF SignInInv
<1>1. msg \in Message /\ a \in Addresses /\ msg.nonce \in 1..nonces /\ nonces \in Nat
  BY DEF SignInTypeOK, MessagesGiven, Given, Message
<1>2. UNCHANGED <<nonces, wire, latest>>
  BY DEF Verify
<1>3. MessagesGiven' /\ TabsGiven' /\ LatestDistinct'
  BY <1>2 DEF MessagesGiven, TabsGiven, LatestDistinct, Given
<1>4. CASE ~Recovers(msg)
  <2>1. UNCHANGED <<siwe_nonces, jwts, burnt>>
    BY <1>4 DEF Verify, Good
  <2>2. QED
    BY <1>2, <1>3, <2>1 DEF SignInTypeOK, FiledIsLatest, FiledUnspent, TokensEarned
<1>5. CASE Recovers(msg)
  <2>1. /\ siwe_nonces' \in [Addresses \X Written -> Nat]
        /\ siwe_nonces'[<<a, "lower">>] = 0
        /\ \A b \in Addresses \ {a} : siwe_nonces'[<<b, "lower">>] = siwe_nonces[<<b, "lower">>]
    BY <1>1, <1>5 DEF Verify, Consumed, SignInTypeOK, Written
  <2>2. /\ burnt' \in [Addresses -> Nat] /\ burnt'[a] = nonces
        /\ \A b \in Addresses \ {a} : burnt'[b] = burnt[b]
    BY <1>1, <1>5 DEF Verify, SignInTypeOK
  <2>3. latest[a] <= nonces /\ latest[a] \in Nat
    BY <1>1, Zenon DEF FiledIsLatest, SignInTypeOK
  <2>4. FiledIsLatest'
    <3> SUFFICES ASSUME NEW b \in Addresses
                 PROVE  /\ latest'[b] <= nonces' /\ burnt'[b] <= nonces'
                        /\ siwe_nonces'[<<b, "lower">>] = IF burnt'[b] < latest'[b] THEN latest'[b] ELSE 0
      BY Zenon DEF FiledIsLatest
    <3>1. CASE b = a
      BY <1>1, <1>2, <2>1, <2>2, <2>3, <3>1
    <3>2. CASE b # a
      BY <1>2, <2>1, <2>2, <3>2 DEF FiledIsLatest
    <3>3. QED
      BY <3>1, <3>2
  <2>5. CASE ~Good(msg)
    <3>1. jwts' = jwts
      BY <2>5 DEF Verify
    <3>2. FiledUnspent'
      BY <1>1, <1>2, <2>2, <2>3, <3>1 DEF FiledUnspent
    <3>3. QED
      BY <1>2, <1>3, <2>1, <2>2, <2>4, <3>1, <3>2 DEF SignInTypeOK, TokensEarned
  <2>6. CASE Good(msg)
    <3>1. jwts \in Seq(Message) /\ jwts' = Append(jwts, msg)
      BY <2>6 DEF Verify, Issued, SignInTypeOK
    <3>2. /\ jwts' \in Seq(Message)
          /\ DOMAIN jwts' = DOMAIN jwts \cup {Len(jwts) + 1}
          /\ jwts'[Len(jwts) + 1] = msg
          /\ \A i \in DOMAIN jwts : jwts'[i] = jwts[i]
      BY <1>1, <3>1
    <3>3. msg.nonce = latest[a] /\ burnt[a] < latest[a] /\ msg.signer = a
      BY <2>6, GoodExactly
    <3>4. \A i \in DOMAIN jwts : jwts[i].nonce # msg.nonce
      BY <1>1, <3>3 DEF FiledUnspent
    <3>5. TokensEarned'
      BY <3>2, <3>3, <3>4 DEF TokensEarned
    <3>6. \A b \in Addresses : burnt'[b] < latest[b] => b # a /\ burnt[b] < latest[b] /\ latest[b] # msg.nonce
      BY <1>1, <2>2, <3>3 DEF FiledIsLatest, LatestDistinct, SignInTypeOK
    <3>7. FiledUnspent'
      BY <1>1, <1>2, <3>2, <3>6 DEF FiledUnspent
    <3>8. QED
      BY <1>2, <1>3, <2>1, <2>2, <2>4, <3>2, <3>5, <3>7, Zenon DEF SignInTypeOK
  <2>7. QED
    BY <2>5, <2>6
<1>6. QED
  BY <1>4, <1>5

\* The answer to a tab is the verification of its message.
LEMMA AnsweredStep ==
    ASSUME SignInInv, NEW t \in Tabs, Answered(t)
    PROVE  SignInInv'
<1>1. tab[t].msg \in wire /\ Verify(tab[t].msg)
  BY DEF Answered, SignInInv, TabsGiven
<1>2. /\ DOMAIN tab' = Tabs
      /\ \A u \in Tabs : tab'[u] = tab[u] \/ tab'[u].at \in {"in", "failed"}
  BY DEF Answered, SignInInv, SignInTypeOK
<1>3. QED
  BY <1>1, <1>2, VerifyStep

-----------------------------------------------------------------------------
(***************************************************************************)
(* However many tabs ask, sign, decline and resend, with whatever accounts *)
(* and in whatever order: a message gets a token exactly when its own      *)
(* address signed it, asked for its nonce in lower case, and neither asked *)
(* again nor had a message verified since; and no nonce gets two tokens    *)
(* (siwe_nonce, siwe_verify, consume_siwe_nonce).                          *)
(***************************************************************************)
THEOREM SignInIsExact == SignInSpec => []SignInExact
<1>1. SignInInit => SignInInv
  <2> SUFFICES ASSUME SignInInit
               PROVE  SignInInv
    OBVIOUS
  <2>1. SignInTypeOK
    BY DEF SignInInit, SignInTypeOK, Written
  <2>2. MessagesGiven /\ TabsGiven
    BY DEF SignInInit, MessagesGiven, TabsGiven, NoTab
  <2>3. FiledIsLatest /\ LatestDistinct /\ FiledUnspent /\ TokensEarned
    BY DEF SignInInit, FiledIsLatest, LatestDistinct, FiledUnspent, TokensEarned
  <2>4. QED
    BY <2>1, <2>2, <2>3 DEF SignInInv
<1>2. SignInInv /\ [SignInNext]_signInVars => SignInInv'
  <2> SUFFICES ASSUME SignInInv, [SignInNext]_signInVars
               PROVE  SignInInv'
    OBVIOUS
  <2>1. CASE \E t \in Tabs, a \in Addresses, s \in Spellings : Ask(t, a, s)
    BY <2>1, AskStep
  <2>2. CASE \E t \in Tabs, signer \in Accounts : Sign(t, signer)
    BY <2>2, SignStep
  <2>3. CASE \E t \in Tabs : Decline(t) \/ Answered(t) \/ SignOut(t)
    BY <2>3, LeaveStep, AnsweredStep
  <2>4. ASSUME NEW msg \in wire, Resent(msg)
        PROVE  SignInInv'
    <3>1. Verify(msg) /\ tab' = tab /\ DOMAIN tab = Tabs
      BY <2>4 DEF Resent, SignInInv, SignInTypeOK
    <3>2. QED
      BY <3>1, VerifyStep
  <2>5. CASE UNCHANGED signInVars
    BY <2>5 DEF signInVars, SignInInv, SignInTypeOK, MessagesGiven, TabsGiven, Given, FiledIsLatest,
                LatestDistinct, FiledUnspent, TokensEarned
  <2>6. QED
    BY <2>1, <2>2, <2>3, <2>4, <2>5 DEF SignInNext
<1>3. SignInInv => SignInExact
  <2> SUFFICES ASSUME SignInInv
               PROVE  SignInExact
    OBVIOUS
  <2>1. SignsInExactly
    BY GoodExactly, Zenon DEF SignsInExactly, SignInInv, TabsGiven
  <2>2. QED
    BY <2>1 DEF SignInExact, SignInInv
<1>4. QED
  BY <1>1, <1>2, <1>3, PTL DEF SignInSpec

-----------------------------------------------------------------------------
(***************************************************************************)
(* The service with the contract's gate implements FundingPace for any     *)
(* number of instances, any lease, any delay.                              *)
(***************************************************************************)
\* The types of what FundingPace sees: all the refinement rests on.
PaceTypes == now \in Nat /\ index \in Int /\ lastFundingAt \in Nat

\* No step of the service or the contract leaves these types.
LEMMA PaceTypesStep == PaceTypes /\ [KeeperNext]_keeperVars => PaceTypes'
<1> SUFFICES ASSUME PaceTypes, [KeeperNext]_keeperVars PROVE PaceTypes'
  OBVIOUS
<1> USE DEF PaceTypes
<1>1. ASSUME NEW i \in Instances, NEW p \in Premiums, Submit(i, p) PROVE PaceTypes'
  BY <1>1, KeeperAssumption DEF Submit, PremiumOK
<1>2. CASE Elapse
  BY <1>2 DEF Elapse
<1>3. ASSUME NEW i \in Instances,
             \/ TickFires(i) \/ TickRenew(i) \/ TryAcquire(i)
             \/ SubmitFails(i) \/ RenewFires(i) \/ CrashRestart(i)
      PROVE  PaceTypes'
  BY <1>3, Zenon DEF TickFires, TickRenew, TryAcquire, SubmitFails, RenewFires, CrashRestart
<1>4. CASE UNCHANGED keeperVars
  BY <1>4 DEF keeperVars
<1> QED
  BY <1>1, <1>2, <1>3, <1>4 DEF KeeperNext

\* Every step is a step of the pace or leaves what it sees alone: only a
\* transaction that passed applyFunding's checks moves the index.
LEMMA PaceStep ==
    PaceTypes /\ [KeeperNext]_keeperVars
        => [Pace!Advance \/ Pace!Move]_<<now, index, lastFundingAt>>
<1> SUFFICES ASSUME PaceTypes, [KeeperNext]_keeperVars
             PROVE  [Pace!Advance \/ Pace!Move]_<<now, index, lastFundingAt>>
  OBVIOUS
<1> USE DEF PaceTypes
<1>1. ASSUME NEW i \in Instances, NEW p \in Premiums, Submit(i, p)
      PROVE  Pace!Move \/ UNCHANGED <<now, index, lastFundingAt>>
  <2>1. CASE PremiumOK(p) /\ Due
    BY <1>1, <2>1, KeeperAssumption DEF Submit, PremiumOK, Due, Pace!Move
  <2>2. CASE ~(PremiumOK(p) /\ Due)
    BY <1>1, <2>2 DEF Submit
  <2> QED
    BY <2>1, <2>2
<1>2. CASE Elapse
  BY <1>2 DEF Elapse, Pace!Advance
<1>3. ASSUME NEW i \in Instances,
             \/ TickFires(i) \/ TickRenew(i) \/ TryAcquire(i)
             \/ SubmitFails(i) \/ RenewFires(i) \/ CrashRestart(i)
      PROVE  UNCHANGED <<now, index, lastFundingAt>>
  BY <1>3, Zenon DEF TickFires, TickRenew, TryAcquire, SubmitFails, RenewFires, CrashRestart
<1>4. CASE UNCHANGED keeperVars
  BY <1>4 DEF keeperVars
<1> QED
  BY <1>1, <1>2, <1>3, <1>4 DEF KeeperNext

\* Funding keeps its pace whoever leads, for any instances, leases, delays
\* and crashes: the election only saves gas, applyFunding's gate is what
\* makes double submission harmless.
THEOREM FundingKeepsPace == KeeperSpec => KeepsPace
<1>1. KeeperInit => PaceTypes /\ Pace!PaceInit
  BY DEF KeeperInit, PaceTypes, Pace!PaceInit
<1> QED
  BY <1>1, PaceTypesStep, PaceStep, PTL DEF KeeperSpec, KeepsPace, Pace!PaceSpec

-----------------------------------------------------------------------------
(***************************************************************************)
(* For any number of instances, any interval, lease and delay, with        *)
(* premiums the contract takes: without faults no two intervals go by      *)
(* without funding.                                                        *)
(*                                                                         *)
(* The bound alone says nothing of who will submit next.  The invariant    *)
(* names one (Promises): an instance that is about to submit, or the one   *)
(* the lease was last given to, whose next tick is due in time.  The lease *)
(* moves only to an instance that submits next; and an instance that asks  *)
(* for the lease and is refused is never the one it was last given to,     *)
(* which needs that who holds a lease that has not run out knows it        *)
(* (Knows).                                                                *)
(***************************************************************************)
Task == [pc : {"select", "renewing", "acquiring", "submitting"}, hold : BOOLEAN,
         nextTick : Int, nextRenew : Int, since : Int]

KeeperTypes ==
    /\ now \in Nat /\ lastFundingAt \in Nat /\ lastFundingAt <= now /\ faults \in Nat
    /\ lease \in [holder : Instances \cup {Nobody, Gone}, expires : Int]
    /\ inst \in [Instances -> Task]

\* A task is served in time, and its tick was no longer ago than its steps take.
OnTime(t, n) ==
    /\ t.nextTick <= n + FUNDING_INTERVAL
    /\ t.pc # "select" => /\ t.nextTick - FUNDING_INTERVAL <= t.since
                          /\ t.since <= n /\ n <= t.since + MaxDelay
    /\ t.pc = "renewing" => t.since = t.nextTick - FUNDING_INTERVAL
    /\ t.pc = "acquiring" => t.since <= t.nextTick - FUNDING_INTERVAL + MaxDelay

Knows(i, t, l, n) == l.holder = i /\ l.expires > n => t.hold /\ t.pc # "acquiring"

\* Before anybody was elected.
Before(t, l) == l.holder = Nobody => t.pc \in {"select", "acquiring"} /\ ~t.hold

TaskOK(i, t, l, n) == OnTime(t, n) /\ Knows(i, t, l, n) /\ Before(t, l)

\* Task t of instance i submits before last and four delays, or is waited for
\* by whoever does.
Promises(i, t, l, n, last) ==
    \/ t.pc = "submitting" /\ t.since <= last + 3 * MaxDelay
    \/ /\ l.holder \in {i, Nobody} /\ t.pc = "select"
       /\ t.nextTick <= last /\ n <= last + MaxDelay
    \/ /\ l.holder \in {i, Nobody} /\ t.pc \in {"renewing", "acquiring"}
       /\ t.nextTick <= last + FUNDING_INTERVAL + MaxDelay

Deadline == lastFundingAt + 2 * FUNDING_INTERVAL

TasksOK == lease.holder \in Instances \cup {Nobody} /\ \A i \in Instances : TaskOK(i, inst[i], lease, now)

SomebodyPromises == \E i \in Instances : Promises(i, inst[i], lease, now, Deadline)

Steady == TasksOK /\ SomebodyPromises

-----------------------------------------------------------------------------
\* A step of instance i leaves the other tasks as they were.
LEMMA OthersServed ==
    ASSUME KeeperTypes, TasksOK, NEW i \in Instances, NEW t, inst' = [inst EXCEPT ![i] = t], now' = now,
           lease' = lease \/ lease' = LeaseTo(i), TaskOK(i, t, lease', now)
    PROVE  TasksOK' /\ inst'[i] = t /\ \A j \in Instances : j # i => inst'[j] = inst[j]
<1>1. inst'[i] = t /\ \A j \in Instances : j # i => inst'[j] = inst[j]
  BY DEF KeeperTypes
<1>2. lease'.holder \in Instances \cup {Nobody}
  BY DEF TasksOK, LeaseTo
<1>3. ASSUME NEW j \in Instances, j # i
      PROVE  TaskOK(j, inst[j], lease', now)
  <2>1. TaskOK(j, inst[j], lease, now)
    BY DEF TasksOK
  <2>2. CASE lease' = LeaseTo(i)
    BY <1>3, <2>1, <2>2, KeeperAssumption DEF TaskOK, Knows, Before, LeaseTo
  <2>3. QED
    BY <2>1, <2>2
<1>4. \A j \in Instances : TaskOK(j, inst'[j], lease', now')
  BY <1>1, <1>3
<1>5. QED
  BY <1>1, <1>2, <1>4, Zenon DEF TasksOK, TaskOK, OnTime, Knows, Before

\* A call to the lease backend that does not fail.
LEMMA CallAnswers ==
    ASSUME NEW i, NEW can \in BOOLEAN, NEW ok \in BOOLEAN, Call(i, can, ok), faults \in Nat, faults' = 0
    PROVE  ok = can /\ lease' = (IF can THEN LeaseTo(i) ELSE lease)
BY DEF Call, Fault

\* The tick: the promise is now for the steps that follow.
LEMMA TickFiresStep ==
    ASSUME KeeperTypes, Steady, NEW i \in Instances, TickFires(i)
    PROVE  Steady'
<1> DEFINE t == [inst[i] EXCEPT !.pc = IF inst[i].hold THEN "renewing" ELSE "acquiring",
                                !.nextTick = now + FUNDING_INTERVAL, !.since = now]
<1>1. /\ inst' = [inst EXCEPT ![i] = t] /\ inst[i].pc = "select" /\ now >= inst[i].nextTick
      /\ UNCHANGED <<now, lease, lastFundingAt>>
  BY DEF TickFires
<1>2. /\ inst[i] \in Task /\ t.pc = (IF inst[i].hold THEN "renewing" ELSE "acquiring")
      /\ t.nextTick = now + FUNDING_INTERVAL /\ t.since = now /\ t.hold = inst[i].hold
  BY DEF KeeperTypes, Task
<1> HIDE DEF t
<1>3. TasksOK /\ TaskOK(i, inst[i], lease, now)
  BY DEF Steady, TasksOK
<1>4. TaskOK(i, t, lease', now)
  BY <1>1, <1>2, <1>3, KeeperAssumption DEF TaskOK, OnTime, Knows, Before, KeeperTypes
<1>5. TasksOK' /\ inst'[i] = t /\ \A j \in Instances : j # i => inst'[j] = inst[j]
  BY <1>1, <1>3, <1>4, OthersServed, Zenon
<1>6. PICK w \in Instances : Promises(w, inst[w], lease, now, Deadline)
  BY DEF Steady, SomebodyPromises
<1>7. Deadline' = Deadline
  BY <1>1 DEF Deadline
<1>8. Promises(w, inst'[w], lease', now', Deadline')
  <2>1. CASE w # i
    BY <1>1, <1>5, <1>6, <1>7, <2>1
  <2>2. CASE w = i
    BY <1>1, <1>2, <1>5, <1>6, <1>7, <2>2, KeeperAssumption DEF Promises, KeeperTypes, Deadline
  <2>3. QED
    BY <2>1, <2>2
<1>9. QED
  BY <1>5, <1>8 DEF Steady, SomebodyPromises, Promises

\* The renewal of a tick: who still has the lease submits next.
LEMMA TickRenewStep ==
    ASSUME KeeperTypes, Steady, NEW i \in Instances, TickRenew(i), faults' = 0
    PROVE  Steady'
<1>1. PICK ok \in BOOLEAN :
        /\ Call(i, CanRenew(i), ok)
        /\ inst' = [inst EXCEPT ![i] = [@ EXCEPT !.pc = IF ok THEN "submitting" ELSE "acquiring", !.since = now]]
  BY Zenon DEF TickRenew
<1> DEFINE t == [inst[i] EXCEPT !.pc = IF ok THEN "submitting" ELSE "acquiring", !.since = now]
<1>2. inst' = [inst EXCEPT ![i] = t] /\ inst[i].pc = "renewing" /\ UNCHANGED <<now, lastFundingAt>>
  BY <1>1, Zenon DEF TickRenew
<1>3. /\ inst[i] \in Task /\ t.pc = (IF ok THEN "submitting" ELSE "acquiring")
      /\ t.nextTick = inst[i].nextTick /\ t.since = now /\ t.hold = inst[i].hold
  BY DEF KeeperTypes, Task
<1> HIDE DEF t
<1>4. TasksOK /\ TaskOK(i, inst[i], lease, now)
  BY DEF Steady, TasksOK
<1>5. ok = CanRenew(i) /\ lease' = (IF CanRenew(i) THEN LeaseTo(i) ELSE lease)
  <2>1. CanRenew(i) \in BOOLEAN
    BY DEF CanRenew, Held
  <2>2. QED
    BY <1>1, <2>1, CallAnswers, Zenon DEF KeeperTypes
<1>6. lease'.holder = lease.holder
  BY <1>5 DEF CanRenew, LeaseTo
<1>7. TaskOK(i, t, lease', now)
  <2>1. OnTime(t, now) /\ Before(t, lease')
    BY <1>2, <1>3, <1>4, <1>6, KeeperAssumption DEF TaskOK, OnTime, Before, KeeperTypes, Task
  <2>2. Knows(i, t, lease', now)
    BY <1>2, <1>3, <1>4, <1>5, KeeperAssumption, Zenon DEF TaskOK, Knows, CanRenew, Held, LeaseTo
  <2>3. QED
    BY <2>1, <2>2 DEF TaskOK
<1>8. TasksOK' /\ inst'[i] = t /\ \A j \in Instances : j # i => inst'[j] = inst[j]
  BY <1>2, <1>4, <1>5, <1>7, OthersServed, Zenon
<1>9. PICK w \in Instances : Promises(w, inst[w], lease, now, Deadline)
  BY DEF Steady, SomebodyPromises
<1>10. Promises(w, inst'[w], lease', now', Deadline')
  <2>1. Deadline' = Deadline /\ Deadline \in Int
    BY <1>2, KeeperAssumption DEF Deadline, KeeperTypes
  <2>2. CASE w # i
    BY <1>2, <1>6, <1>8, <1>9, <2>1, <2>2 DEF Promises
  <2>3. CASE w = i
    BY <1>2, <1>3, <1>4, <1>6, <1>8, <1>9, <2>1, <2>3, KeeperAssumption
    DEF Promises, KeeperTypes, Task, TaskOK, OnTime
  <2>4. QED
    BY <2>2, <2>3
<1>11. QED
  BY <1>8, <1>10, Zenon DEF Steady, SomebodyPromises, Promises

\* An election: its winner submits next, and the loser is not the one that
\* was waited for.
LEMMA TryAcquireStep ==
    ASSUME KeeperTypes, Steady, NEW i \in Instances, TryAcquire(i), faults' = 0
    PROVE  Steady'
<1>1. PICK ok \in BOOLEAN :
        /\ Call(i, CanAcquire(i), ok)
        /\ inst' = [inst EXCEPT ![i] = [@ EXCEPT !.pc = IF ok THEN "submitting" ELSE "select",
                                                 !.hold = ok, !.since = now]]
  BY Zenon DEF TryAcquire
<1> DEFINE t == [inst[i] EXCEPT !.pc = IF ok THEN "submitting" ELSE "select", !.hold = ok, !.since = now]
<1>2. inst' = [inst EXCEPT ![i] = t] /\ inst[i].pc = "acquiring" /\ UNCHANGED <<now, lastFundingAt>>
  BY <1>1, Zenon DEF TryAcquire
<1>3. /\ inst[i] \in Task /\ t.pc = (IF ok THEN "submitting" ELSE "select")
      /\ t.nextTick = inst[i].nextTick /\ t.since = now /\ t.hold = ok
  BY DEF KeeperTypes, Task
<1> HIDE DEF t
<1>4. TasksOK /\ TaskOK(i, inst[i], lease, now)
  BY DEF Steady, TasksOK
<1>5. ok = CanAcquire(i) /\ lease' = (IF CanAcquire(i) THEN LeaseTo(i) ELSE lease)
  <2>1. CanAcquire(i) \in BOOLEAN
    BY DEF CanAcquire, Held
  <2>2. QED
    BY <1>1, <2>1, CallAnswers, Zenon DEF KeeperTypes
<1>6. ~ok => lease.holder # Nobody /\ lease.holder # i
  BY <1>2, <1>4, <1>5, Zenon DEF CanAcquire, Held, TaskOK, Knows
<1>7. TaskOK(i, t, lease', now)
  <2>1. OnTime(t, now)
    BY <1>2, <1>3, <1>4, KeeperAssumption DEF TaskOK, OnTime, KeeperTypes, Task
  <2>2. Knows(i, t, lease', now) /\ Before(t, lease')
    BY <1>3, <1>5, <1>6, KeeperAssumption, Zenon DEF Knows, Before, LeaseTo
  <2>3. QED
    BY <2>1, <2>2 DEF TaskOK
<1>8. TasksOK' /\ inst'[i] = t /\ \A j \in Instances : j # i => inst'[j] = inst[j]
  BY <1>2, <1>4, <1>5, <1>7, OthersServed, Zenon
<1>9. PICK w \in Instances : Promises(w, inst[w], lease, now, Deadline)
  BY DEF Steady, SomebodyPromises
<1>10. Deadline' = Deadline /\ Deadline \in Int
  BY <1>2, KeeperAssumption DEF Deadline, KeeperTypes
<1>11. CASE inst[w].pc = "submitting"
  <2>1. w # i /\ inst'[w] = inst[w]
    BY <1>2, <1>8, <1>11
  <2>2. Promises(w, inst'[w], lease', now', Deadline')
    BY <1>9, <1>10, <1>11, <2>1 DEF Promises
  <2>3. QED
    BY <1>8, <2>2 DEF Steady, SomebodyPromises, Promises
<1>12. CASE inst[w].pc # "submitting" /\ ok
  <2>1. TaskOK(w, inst[w], lease, now) /\ inst[w] \in Task
    BY <1>4 DEF TasksOK, KeeperTypes
  <2>2. now <= Deadline + 3 * MaxDelay
    BY <1>9, <1>10, <1>12, <2>1, KeeperAssumption DEF Promises, TaskOK, OnTime, KeeperTypes, Task
  <2>3. Promises(i, inst'[i], lease', now', Deadline')
    BY <1>3, <1>8, <1>10, <1>12, <2>2 DEF Promises
  <2>4. QED
    BY <1>8, <2>3 DEF Steady, SomebodyPromises, Promises
<1>13. CASE inst[w].pc # "submitting" /\ ~ok
  <2>1. w # i /\ lease' = lease
    BY <1>5, <1>6, <1>9, <1>13, Zenon DEF Promises
  <2>2. Promises(w, inst'[w], lease', now', Deadline')
    BY <1>2, <1>8, <1>9, <1>10, <2>1
  <2>3. QED
    BY <1>8, <2>2 DEF Steady, SomebodyPromises, Promises
<1>14. QED
  BY <1>11, <1>12, <1>13

\* A submission: the contract was funded now or less than an interval ago,
\* so that whoever has the lease ticks in time.
LEMMA SubmitStep ==
    ASSUME KeeperTypes, Steady, NEW i \in Instances, NEW p, PremiumOK(p), Submit(i, p)
    PROVE  Steady'
<1> DEFINE t == [inst[i] EXCEPT !.pc = "select", !.since = now]
<1>1. inst' = [inst EXCEPT ![i] = t] /\ inst[i].pc = "submitting" /\ UNCHANGED <<now, lease>>
  BY DEF Submit
<1>2. /\ inst[i] \in Task /\ t.pc = "select" /\ t.nextTick = inst[i].nextTick /\ t.since = now
      /\ t.hold = inst[i].hold
  BY DEF KeeperTypes, Task
<1> HIDE DEF t
<1>3. TasksOK /\ TaskOK(i, inst[i], lease, now)
  BY DEF Steady, TasksOK
<1>4. TaskOK(i, t, lease', now)
  BY <1>1, <1>2, <1>3, KeeperAssumption DEF TaskOK, OnTime, Knows, Before, KeeperTypes, Task
<1>5. TasksOK' /\ inst'[i] = t /\ \A j \in Instances : j # i => inst'[j] = inst[j]
  BY <1>1, <1>3, <1>4, OthersServed, Zenon
<1>6. now + FUNDING_INTERVAL <= Deadline' /\ Deadline' \in Int
  <2>1. lastFundingAt' \in Nat /\ now <= lastFundingAt' + FUNDING_INTERVAL
    BY KeeperAssumption DEF Submit, Due, KeeperTypes
  <2>2. Deadline' = lastFundingAt' + 2 * FUNDING_INTERVAL
    BY DEF Deadline
  <2>3. QED
    BY <2>1, <2>2, KeeperAssumption DEF KeeperTypes
<1>7. PICK k \in Instances : lease.holder = k
  BY <1>1, <1>3 DEF TasksOK, TaskOK, Before
<1>8. TaskOK(k, inst'[k], lease, now) /\ inst'[k].nextTick \in Int /\ inst'[k].since \in Int
      /\ inst'[k].pc \in {"select", "renewing", "acquiring", "submitting"}
  <2>1. CASE k = i
    <3>1. inst'[k] = t /\ lease' = lease
      BY <1>1, <1>5, <2>1
    <3>2. TaskOK(k, inst'[k], lease, now)
      BY <1>4, <2>1, <3>1, Zenon
    <3>3. t.nextTick \in Int /\ t.since \in Int
      BY <1>2 DEF Task, KeeperTypes
    <3>4. QED
      BY <1>2, <3>1, <3>2, <3>3
  <2>2. CASE k # i
    <3>1. inst'[k] = inst[k] /\ inst[k] \in Task
      BY <1>5, <2>2 DEF KeeperTypes
    <3>2. QED
      BY <1>3, <3>1 DEF TasksOK, Task
  <2>3. QED
    BY <2>1, <2>2, Zenon
<1>9. Promises(k, inst'[k], lease', now', Deadline')
  <2> DEFINE s == inst'[k]
             last == Deadline'
  <2>1. /\ OnTime(s, now) /\ s.nextTick \in Int /\ s.since \in Int
        /\ s.pc \in {"select", "renewing", "acquiring", "submitting"}
    BY <1>8 DEF TaskOK
  <2>2. now \in Nat /\ last \in Int /\ now + FUNDING_INTERVAL <= last
    BY <1>6 DEF KeeperTypes
  <2>3. now' = now /\ lease'.holder = k
    BY <1>1, <1>7
  <2> HIDE DEF s, last
  <2>4. Promises(k, s, lease', now, last)
    BY <2>1, <2>2, <2>3, KeeperAssumption DEF Promises, OnTime
  <2>5. QED
    BY <2>3, <2>4 DEF s, last
<1>10. QED
  BY <1>5, <1>9, Zenon DEF Steady, SomebodyPromises, Promises

\* A renewal between two ticks.
LEMMA RenewFiresStep ==
    ASSUME KeeperTypes, Steady, NEW i \in Instances, RenewFires(i), faults' = 0
    PROVE  Steady'
<1>1. PICK ok \in BOOLEAN :
        /\ Call(i, CanRenew(i), ok)
        /\ inst' = [inst EXCEPT ![i] = [@ EXCEPT !.hold = ok, !.since = now,
               !.nextRenew = RenewAfter(inst[i].nextRenew)]]
  BY Zenon DEF RenewFires
<1> DEFINE t == [inst[i] EXCEPT !.hold = ok, !.since = now,
               !.nextRenew = RenewAfter(inst[i].nextRenew)]
<1>2. inst' = [inst EXCEPT ![i] = t] /\ inst[i].pc = "select" /\ UNCHANGED <<now, lastFundingAt>> /\ inst[i].hold
  BY <1>1, Zenon DEF RenewFires
<1>3. inst[i] \in Task /\ t.pc = inst[i].pc /\ t.nextTick = inst[i].nextTick /\ t.hold = ok
  BY DEF KeeperTypes, Task
<1> HIDE DEF t
<1>4. TasksOK /\ TaskOK(i, inst[i], lease, now)
  BY DEF Steady, TasksOK
<1>5. ok = CanRenew(i) /\ lease' = (IF CanRenew(i) THEN LeaseTo(i) ELSE lease)
  <2>1. CanRenew(i) \in BOOLEAN
    BY DEF CanRenew, Held
  <2>2. QED
    BY <1>1, <2>1, CallAnswers, Zenon DEF KeeperTypes
<1>6. lease'.holder = lease.holder /\ lease.holder # Nobody
  BY <1>2, <1>4, <1>5 DEF CanRenew, LeaseTo, TaskOK, Before
<1>7. TaskOK(i, t, lease', now)
  <2>1. OnTime(t, now) /\ Before(t, lease')
    BY <1>2, <1>3, <1>4, <1>6, Zenon DEF TaskOK, OnTime, Before
  <2>2. Knows(i, t, lease', now)
    BY <1>2, <1>3, <1>4, <1>5, <1>6, Zenon DEF TaskOK, Knows, CanRenew, Held
  <2>3. QED
    BY <2>1, <2>2 DEF TaskOK
<1>8. TasksOK' /\ inst'[i] = t /\ \A j \in Instances : j # i => inst'[j] = inst[j]
  BY <1>2, <1>4, <1>5, <1>7, OthersServed, Zenon
<1>9. PICK w \in Instances : Promises(w, inst[w], lease, now, Deadline)
  BY DEF Steady, SomebodyPromises
<1>10. Deadline' = Deadline
  BY <1>2 DEF Deadline
<1>11. Promises(w, inst'[w], lease', now', Deadline')
  <2>1. inst'[w].pc = inst[w].pc /\ inst'[w].nextTick = inst[w].nextTick
    BY <1>3, <1>8
  <2>2. inst[w].pc = "submitting" => inst'[w] = inst[w]
    BY <1>2, <1>8
  <2>3. QED
    BY <1>2, <1>6, <1>9, <1>10, <2>1, <2>2, Zenon DEF Promises
<1>12. QED
  BY <1>8, <1>11 DEF Steady, SomebodyPromises, Promises

\* Time passes only while everyone can still be served in time.
LEMMA ElapseStep ==
    ASSUME KeeperTypes, Steady, Elapse
    PROVE  Steady'
<1>1. /\ now' = now + 1 /\ UNCHANGED <<lease, inst, lastFundingAt>>
      /\ \A i \in Instances : now < ServeBy(i) + MaxDelay
  BY DEF Elapse
<1>2. ASSUME NEW i \in Instances
      PROVE  TaskOK(i, inst[i], lease, now + 1)
  <2>1. TaskOK(i, inst[i], lease, now) /\ inst[i] \in Task /\ lease.expires \in Int
    BY DEF Steady, TasksOK, KeeperTypes
  <2>2. OnTime(inst[i], now + 1)
    BY <1>1, <2>1, KeeperAssumption DEF TaskOK, OnTime, ServeBy, KeeperTypes, Task
  <2>3. Knows(i, inst[i], lease, now + 1) /\ Before(inst[i], lease)
    BY <2>1 DEF TaskOK, Knows, Before, KeeperTypes
  <2>4. QED
    BY <2>2, <2>3 DEF TaskOK
<1>3. TasksOK'
  BY <1>1, <1>2, Zenon DEF Steady, TasksOK, TaskOK, OnTime, Knows, Before
<1>4. PICK w \in Instances : Promises(w, inst[w], lease, now, Deadline)
  BY DEF Steady, SomebodyPromises
<1>5. Promises(w, inst[w], lease, now + 1, Deadline)
  <2>1. inst[w] \in Task /\ now < ServeBy(w) + MaxDelay /\ Deadline \in Int
    BY <1>1, KeeperAssumption DEF KeeperTypes, Deadline
  <2>2. QED
    BY <1>4, <2>1, KeeperAssumption DEF Promises, ServeBy, KeeperTypes, Task
<1>6. QED
  BY <1>1, <1>3, <1>5, Zenon DEF Steady, SomebodyPromises, Promises, Deadline

-----------------------------------------------------------------------------
\* What a step writes to a task.
LEMMA TaskWritten ==
    ASSUME NEW t \in Task, NEW n \in Int, NEW k \in Int, NEW b \in BOOLEAN,
           NEW q \in {"select", "renewing", "acquiring", "submitting"}
    PROVE  /\ [t EXCEPT !.pc = q, !.nextTick = k, !.since = n] \in Task
           /\ [t EXCEPT !.pc = q, !.since = n] \in Task
           /\ [t EXCEPT !.pc = q, !.hold = b, !.since = n] \in Task
           /\ [t EXCEPT !.hold = b, !.since = n, !.nextRenew = k] \in Task
<1>1. [t EXCEPT !.pc = q, !.nextTick = k, !.since = n] \in Task
  BY Zenon DEF Task
<1>2. [t EXCEPT !.pc = q, !.since = n] \in Task
  BY Zenon DEF Task
<1>3. [t EXCEPT !.pc = q, !.hold = b, !.since = n] \in Task
  BY Zenon DEF Task
<1>4. [t EXCEPT !.hold = b, !.since = n, !.nextRenew = k] \in Task
  BY Zenon DEF Task
<1>5. QED
  BY <1>1, <1>2, <1>3, <1>4

\* The types.
LEMMA KeeperTypesStep == KeeperTypes /\ [KeeperNext]_keeperVars => KeeperTypes'
<1> SUFFICES ASSUME KeeperTypes, [KeeperNext]_keeperVars
             PROVE  KeeperTypes'
  OBVIOUS
<1>1. \A i \in Instances : LeaseTo(i) \in [holder : Instances \cup {Nobody, Gone}, expires : Int]
  BY KeeperAssumption DEF LeaseTo, KeeperTypes
<1>2. ASSUME NEW i, NEW can, NEW ok, Call(i, can, ok), i \in Instances
      PROVE  lease' \in [holder : Instances \cup {Nobody, Gone}, expires : Int] /\ faults' \in Nat
  BY <1>1, <1>2 DEF Call, Fault, KeeperTypes
<1>3. ASSUME NEW i \in Instances, NEW t \in Task, inst' = [inst EXCEPT ![i] = t]
      PROVE  inst' \in [Instances -> Task]
  BY <1>3 DEF KeeperTypes
<1>4. ASSUME NEW i \in Instances PROVE inst[i] \in Task
  BY DEF KeeperTypes
<1>5. ASSUME NEW i \in Instances, TickFires(i)
      PROVE  KeeperTypes'
  <2> DEFINE t == [inst[i] EXCEPT !.pc = IF inst[i].hold THEN "renewing" ELSE "acquiring",
                                  !.nextTick = now + FUNDING_INTERVAL, !.since = now]
  <2>1. t \in Task
    <3>1. inst[i] \in Task /\ now \in Int /\ now + FUNDING_INTERVAL \in Int
      BY <1>4, KeeperAssumption DEF KeeperTypes
    <3>2. QED
      BY <3>1, TaskWritten, Zenon
  <2>2. inst' = [inst EXCEPT ![i] = t] /\ UNCHANGED <<now, lease, lastFundingAt, faults>>
    BY <1>5 DEF TickFires
  <2> HIDE DEF t
  <2>3. QED
    BY <1>3, <2>1, <2>2 DEF KeeperTypes
<1>7. ASSUME NEW i \in Instances, TickRenew(i) \/ TryAcquire(i)
      PROVE  KeeperTypes'
  <2>1. \A ok \in BOOLEAN : /\ [inst[i] EXCEPT !.pc = IF ok THEN "submitting" ELSE "acquiring", !.since = now] \in Task
                            /\ [inst[i] EXCEPT !.pc = IF ok THEN "submitting" ELSE "select",
                                               !.hold = ok, !.since = now] \in Task
    <3>1. inst[i] \in Task /\ now \in Int
      BY <1>4 DEF KeeperTypes
    <3>2. QED
      BY <3>1, TaskWritten, Zenon
  <2>2. CASE TickRenew(i)
    <3>1. PICK ok \in BOOLEAN :
            /\ Call(i, CanRenew(i), ok)
            /\ inst' = [inst EXCEPT ![i] = [@ EXCEPT !.pc = IF ok THEN "submitting" ELSE "acquiring", !.since = now]]
      BY <2>2, Zenon DEF TickRenew
    <3> DEFINE t == [inst[i] EXCEPT !.pc = IF ok THEN "submitting" ELSE "acquiring", !.since = now]
    <3>2. t \in Task /\ inst' = [inst EXCEPT ![i] = t] /\ UNCHANGED <<now, lastFundingAt>>
      BY <2>1, <2>2, <3>1, Zenon DEF TickRenew
    <3> HIDE DEF t
    <3>3. lease' \in [holder : Instances \cup {Nobody, Gone}, expires : Int] /\ faults' \in Nat
      BY <1>1, <3>1 DEF Call, Fault, KeeperTypes
    <3>4. QED
      BY <1>3, <3>2, <3>3 DEF KeeperTypes
  <2>3. CASE TryAcquire(i)
    <3>1. PICK ok \in BOOLEAN :
            /\ Call(i, CanAcquire(i), ok)
            /\ inst' = [inst EXCEPT ![i] = [@ EXCEPT !.pc = IF ok THEN "submitting" ELSE "select",
                                                     !.hold = ok, !.since = now]]
      BY <2>3, Zenon DEF TryAcquire
    <3> DEFINE t == [inst[i] EXCEPT !.pc = IF ok THEN "submitting" ELSE "select", !.hold = ok, !.since = now]
    <3>2. t \in Task /\ inst' = [inst EXCEPT ![i] = t] /\ UNCHANGED <<now, lastFundingAt>>
      BY <2>1, <2>3, <3>1, Zenon DEF TryAcquire
    <3> HIDE DEF t
    <3>3. lease' \in [holder : Instances \cup {Nobody, Gone}, expires : Int] /\ faults' \in Nat
      BY <1>1, <3>1 DEF Call, Fault, KeeperTypes
    <3>4. QED
      BY <1>3, <3>2, <3>3 DEF KeeperTypes
  <2>4. QED
    BY <1>7, <2>2, <2>3
<1>8. ASSUME NEW i \in Instances, NEW p, Submit(i, p) \/ SubmitFails(i)
      PROVE  KeeperTypes'
  <2>1. [inst[i] EXCEPT !.pc = "select", !.since = now] \in Task
    <3>1. inst[i] \in Task /\ now \in Int
      BY <1>4 DEF KeeperTypes
    <3>2. QED
      BY <3>1, TaskWritten, Zenon
  <2>2. inst' \in [Instances -> Task]
    BY <1>3, <1>8, <2>1 DEF Submit, SubmitFails
  <2>3. QED
    BY <1>8, <2>2 DEF Submit, SubmitFails, Fault, KeeperTypes
<1>9. ASSUME NEW i \in Instances, RenewFires(i)
      PROVE  KeeperTypes'
  <2>1. RenewAfter(inst[i].nextRenew) \in Int
    <3>1. renew_every \in Nat \ {0} /\ inst[i].nextRenew \in Int /\ now \in Int
      BY <1>4, KeeperAssumption DEF Task, KeeperTypes
    <3>2. (now - inst[i].nextRenew) \div renew_every \in Int
      BY <3>1
    <3>3. QED
      BY <3>1, <3>2 DEF RenewAfter
  <2>2. PICK ok \in BOOLEAN :
          /\ Call(i, CanRenew(i), ok)
          /\ inst' = [inst EXCEPT ![i] = [@ EXCEPT !.hold = ok, !.since = now,
                 !.nextRenew = RenewAfter(inst[i].nextRenew)]]
    BY <1>9, Zenon DEF RenewFires
  <2> DEFINE t == [inst[i] EXCEPT !.hold = ok, !.since = now,
                 !.nextRenew = RenewAfter(inst[i].nextRenew)]
  <2>3. inst' = [inst EXCEPT ![i] = t] /\ UNCHANGED <<now, lastFundingAt>>
    BY <1>9, <2>2, Zenon DEF RenewFires
  <2>4. t \in Task
    <3>1. inst[i] \in Task /\ now \in Int
      BY <1>4 DEF KeeperTypes
    <3>2. QED
      BY <2>1, <3>1, TaskWritten, Zenon
  <2>5. lease' \in [holder : Instances \cup {Nobody, Gone}, expires : Int] /\ faults' \in Nat
    BY <1>1, <2>2 DEF Call, Fault, KeeperTypes
  <2> HIDE DEF t
  <2>6. QED
    BY <1>3, <2>3, <2>4, <2>5 DEF KeeperTypes
<1>10. ASSUME NEW i \in Instances, CrashRestart(i)
      PROVE  KeeperTypes'
  <2>1. Fresh(now) \in Task
    BY DEF Fresh, Task, KeeperTypes
  <2>2. inst' \in [Instances -> Task]
    BY <1>3, <1>10, <2>1, Zenon DEF CrashRestart
  <2>3. QED
    BY <1>10, <2>2 DEF CrashRestart, Fault, KeeperTypes
<1>11. CASE Elapse \/ UNCHANGED keeperVars
  BY <1>11 DEF Elapse, keeperVars, KeeperTypes
<1>12. QED
  BY <1>5, <1>7, <1>8, <1>9, <1>10, <1>11 DEF KeeperNext

\* Without faults the service stays steady.
LEMMA SteadyStep ==
    ASSUME \A p \in Premiums : PremiumOK(p)
    PROVE  KeeperTypes /\ (faults = 0 => Steady) /\ [KeeperNext]_keeperVars => (faults = 0 => Steady)'
<1> SUFFICES ASSUME KeeperTypes, faults = 0 => Steady, [KeeperNext]_keeperVars, faults' = 0
             PROVE  Steady'
  OBVIOUS
<1>1. ~Fault
  BY DEF Fault, KeeperTypes
<1>2. faults = 0
  BY <1>1, Zenon DEF KeeperNext, keeperVars, TickFires, TickRenew, TryAcquire, Call, Submit, SubmitFails, RenewFires,
              CrashRestart, Elapse
<1>3. Steady
  BY <1>2
<1>4. CASE UNCHANGED keeperVars
  BY <1>3, <1>4, Zenon DEF keeperVars, Steady, TasksOK, TaskOK, OnTime, Knows, Before, SomebodyPromises, Promises, Deadline
<1>5. ASSUME NEW i \in Instances, SubmitFails(i) \/ CrashRestart(i)
      PROVE  Steady'
  BY <1>1, <1>5 DEF SubmitFails, CrashRestart
<1>6. QED
  BY <1>3, <1>4, <1>5, TickFiresStep, TickRenewStep, TryAcquireStep, SubmitStep, RenewFiresStep, ElapseStep
  DEF KeeperNext

\* Whoever promises, does so in time.
LEMMA PromisedInTime == KeeperTypes /\ (faults = 0 => Steady) => NeverSkipsTwice
<1> SUFFICES ASSUME KeeperTypes, faults = 0, Steady
             PROVE  now <= lastFundingAt + 2 * FUNDING_INTERVAL + 4 * MaxDelay
  BY DEF NeverSkipsTwice
<1>1. PICK w \in Instances : Promises(w, inst[w], lease, now, Deadline)
  BY DEF Steady, SomebodyPromises
<1>2. inst[w] \in Task /\ TaskOK(w, inst[w], lease, now)
  BY DEF KeeperTypes, Steady, TasksOK
<1>3. QED
  BY <1>1, <1>2, KeeperAssumption DEF Promises, TaskOK, OnTime, Deadline, KeeperTypes, Task

(***************************************************************************)
(* However many instances take the lease from each other, and however the  *)
(* lease's life, the renewals and the interval relate: with premiums the   *)
(* contract takes and no fault, funding comes at least every second        *)
(* interval, up to four delays of the service (run's tick and lease,       *)
(* applyFunding's gate).                                                   *)
(***************************************************************************)
THEOREM FundingIsNotSkippedTwice ==
    ASSUME \A p \in Premiums : PremiumOK(p)
    PROVE  KeeperSpec => []NeverSkipsTwice
<1>1. KeeperInit => KeeperTypes /\ Steady
  <2>1. SUFFICES ASSUME KeeperInit
                 PROVE  KeeperTypes /\ Steady
    OBVIOUS
  <2>2. KeeperTypes
    <3>1. \A t \in 1 .. 2 : Fresh(t) \in Task
      BY DEF Fresh, Task
    <3>2. inst \in [Instances -> Task]
      BY <2>1, <3>1 DEF KeeperInit
    <3>3. QED
      BY <2>1, <3>2 DEF KeeperInit, KeeperTypes
  <2>3. ASSUME NEW i \in Instances
        PROVE  TaskOK(i, inst[i], lease, now) /\ Promises(i, inst[i], lease, now, Deadline)
    <3>1. PICK t \in 1 .. 2 : inst[i] = Fresh(t)
      BY <2>1 DEF KeeperInit
    <3>2. QED
      BY <2>1, <3>1, KeeperAssumption
      DEF KeeperInit, Fresh, TaskOK, OnTime, Knows, Before, Promises, Deadline
  <2>4. QED
    BY <2>1, <2>2, <2>3, KeeperAssumption DEF KeeperInit, Steady, TasksOK, SomebodyPromises
<1>2. QED
  BY <1>1, SteadyStep, KeeperTypesStep, PromisedInTime, PTL DEF KeeperSpec
=============================================================================
