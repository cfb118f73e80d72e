----------------------------- MODULE SessionKey -----------------------------
(***************************************************************************)
(* Session keys: contracts/src/SessionKey.sol, the in-memory registry that *)
(* stands in for it (crates/perplex-edge/src/session.rs), and the chain    *)
(* verify_order_chain runs against either.                                 *)
(*                                                                         *)
(* The chain awaits a lookup, tests the copy it got, then awaits a debit:  *)
(* anything may happen to the session in between.  The signature of an     *)
(* order is abstracted to the key it recovers to.  Debits stay far below   *)
(* 2^128; past it both registries refuse, as they do past the cap.         *)
(*                                                                         *)
(* `charged` and `gen` are not in the code: what was debited since the key *)
(* was last registered, and how often it was.                              *)
(***************************************************************************)
EXTENDS Integers

CONSTANTS
    Keys, Owners, NoOwner,
    Orders,                 \* verification chains in flight
    Amounts, Caps,          \* notional of an order, budget of a session
    MaxKeyTime,                \* bound on block.timestamp and now_secs
    MaxGen                  \* bound on registrations of a key

ASSUME SessionAssumption ==
    /\ NoOwner \notin Owners
    /\ Amounts \subseteq Nat /\ Caps \subseteq Nat
    /\ MaxKeyTime \in Nat /\ MaxGen \in Nat

VARIABLES
    onChain,        \* which registry the edge was built with
    consumer,       \* is the edge the contract's consumer
    session,        \* key -> session
    order,          \* chain -> its progress
    time,
    charged, gen

keyVars == <<onChain, consumer, session, order, time, charged, gen>>

NoSession == [owner |-> NoOwner, expires |-> 0, cap |-> 0, spent |-> 0, active |-> FALSE]
NoOrder == [at |-> "idle"]

Registered(o, expires, cap) ==
    [owner |-> o, expires |-> expires, cap |-> cap, spent |-> 0, active |-> TRUE]

-----------------------------------------------------------------------------
\* SessionKey.register refuses a past expiry and a live session.  The
\* in-memory registry inserts whatever it is given.
MayRegister(k, expires) == onChain => expires > time /\ ~session[k].active

Register(k, o, expires, cap) ==
    /\ gen[k] < MaxGen
    /\ MayRegister(k, expires)
    /\ session' = [session EXCEPT ![k] = Registered(o, expires, cap)]
    /\ gen' = [gen EXCEPT ![k] = @ + 1]
    /\ charged' = [charged EXCEPT ![k] = 0]
    /\ UNCHANGED <<onChain, consumer, order, time>>

\* SessionKey.revoke answers to the owner alone, the in-memory registry to
\* anyone; a session that is not active is left as it is.
Revoke(k, caller) ==
    /\ session[k].active
    /\ onChain => session[k].owner = caller
    /\ session' = [session EXCEPT ![k].active = FALSE]
    /\ UNCHANGED <<onChain, consumer, order, time, charged, gen>>

\* SessionKey.setConsumer, called by the contract's owner.
SetConsumer(isEdge) ==
    /\ onChain
    /\ consumer' = isEdge
    /\ UNCHANGED <<onChain, session, order, time, charged, gen>>

-----------------------------------------------------------------------------
Valid(s) == s.active /\ time < s.expires

\* verify_order_chain up to its second await: recover the key, look it up,
\* refuse a session that is missing, revoked, expired or someone else's.
Lookup(r, k, caller, amount) ==
    /\ order[r].at = "idle"
    /\ order' = IF Valid(session[k]) /\ session[k].owner = caller
                THEN [order EXCEPT ![r] = [at |-> "found", key |-> k, caller |-> caller, amount |-> amount,
                                           seen |-> session[k], gen |-> gen[k]]]
                ELSE order
    /\ UNCHANGED <<onChain, consumer, session, time, charged, gen>>

\* consume, of either registry, on the session as it is now.
Accepts(s, amount) ==
    /\ onChain => consumer
    /\ Valid(s)
    /\ s.spent + amount <= s.cap

\* Mutant: the debit starts from the copy the lookup returned.
ConsumeSeen(r) ==
    /\ order[r].at = "found"
    /\ LET k == order[r].key  amount == order[r].amount  seen == order[r].seen IN
       IF Accepts([session[k] EXCEPT !.spent = seen.spent], amount)
       THEN /\ session' = [session EXCEPT ![k].spent = seen.spent + amount]
            /\ charged' = [charged EXCEPT ![k] = @ + amount]
       ELSE UNCHANGED <<session, charged>>
    /\ order' = [order EXCEPT ![r] = NoOrder]
    /\ UNCHANGED <<onChain, consumer, time, gen>>

\* Mutant: the debit trusts the tests made on the copy.
ConsumeTrusting(r) ==
    /\ order[r].at = "found"
    /\ LET k == order[r].key  amount == order[r].amount IN
       IF session[k].spent + amount <= session[k].cap
       THEN /\ session' = [session EXCEPT ![k].spent = @ + amount]
            /\ charged' = [charged EXCEPT ![k] = @ + amount]
       ELSE UNCHANGED <<session, charged>>
    /\ order' = [order EXCEPT ![r] = NoOrder]
    /\ UNCHANGED <<onChain, consumer, time, gen>>

Consume(r) ==
    /\ order[r].at = "found"
    /\ LET k == order[r].key  amount == order[r].amount IN
       IF Accepts(session[k], amount)
       THEN /\ session' = [session EXCEPT ![k].spent = @ + amount]
            /\ charged' = [charged EXCEPT ![k] = @ + amount]
       ELSE UNCHANGED <<session, charged>>
    /\ order' = [order EXCEPT ![r] = NoOrder]
    /\ UNCHANGED <<onChain, consumer, time, gen>>

SecondPasses ==
    /\ time < MaxKeyTime
    /\ time' = time + 1
    /\ UNCHANGED <<onChain, consumer, session, order, charged, gen>>

KeyInit ==
    /\ onChain \in BOOLEAN
    /\ consumer = TRUE
    /\ session = [k \in Keys |-> NoSession]
    /\ order = [r \in Orders |-> NoOrder]
    /\ time = 0
    /\ charged = [k \in Keys |-> 0]
    /\ gen = [k \in Keys |-> 0]

KeyNext ==
    \/ \E k \in Keys, o \in Owners, e \in 0..MaxKeyTime, cap \in Caps : Register(k, o, e, cap)
    \/ \E k \in Keys, o \in Owners : Revoke(k, o)
    \/ \E isEdge \in BOOLEAN : SetConsumer(isEdge)
    \/ \E r \in Orders, k \in Keys, o \in Owners, amount \in Amounts : Lookup(r, k, o, amount)
    \/ \E r \in Orders : Consume(r)
    \/ SecondPasses

KeySpec == KeyInit /\ [][KeyNext]_keyVars

-----------------------------------------------------------------------------
(* Properties *)

Debit(k) == gen'[k] = gen[k] /\ charged'[k] > charged[k]

\* Everything accepted under a registration is on its account and within its
\* cap, however many chains looked the session up before any of them debited
\* (session.rs: "Atomic conditional debit").
BudgetHolds == \A k \in Keys : charged[k] = session[k].spent /\ charged[k] <= session[k].cap

\* A debit takes from a session that is live at that moment, whatever became
\* of it since the chain looked it up, and that is the caller's, unless the
\* key was registered anew in between: consume tests again what the chain
\* tested, but does not see the caller.
DebitsAreDue ==
    [][\A r \in Orders :
        order[r].at = "found" /\ order'[r].at = "idle" /\ Debit(order[r].key) =>
            LET s == session[order[r].key] IN
            Valid(s) /\ (s.owner = order[r].caller \/ gen[order[r].key] # order[r].gen)]_keyVars

\* Both: a session pays for what it was charged, when it may be charged, and
\* never beyond its cap (verify_order_chain over consume).
SessionsPay == []BudgetHolds /\ DebitsAreDue
=============================================================================
