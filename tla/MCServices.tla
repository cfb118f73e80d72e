----------------------------- MODULE MCServices -----------------------------
(***************************************************************************)
(* The dispatcher around the matching engine and the quoting agent share   *)
(* no state: a behaviour is one of one of them, with the other at rest.    *)
(***************************************************************************)
EXTENDS Dispatcher, QuoteAgent

VARIABLE part

vars == <<part, dispatcherVars, quoteVars>>

Limit(owner, side, price, qty) ==
    [owner |-> owner, side |-> side, type |-> "limit", price |-> price, qty |-> qty,
     tif |-> "gtc", postOnly |-> FALSE, reduceOnly |-> FALSE]

MCOrders == {Limit("ann", "buy", 1, 1), Limit("ben", "sell", 1, 2),
             [Limit("ben", "sell", 1, 1) EXCEPT !.postOnly = TRUE]}
MCNet == {0}

\* A move up is one basis point, a move back down a little less.
MCMids == {20000, 20002}
MCIds == 1 .. 8

MCInit ==
    /\ part \in {"dispatcher", "quoting"}
    /\ DispatcherInit /\ QuoteInit
    /\ part = "dispatcher" => mid = 20000

Dispatch(A) == part = "dispatcher" /\ A /\ UNCHANGED <<part, quoteVars>>
Quote(A) == part = "quoting" /\ A /\ UNCHANGED <<part, dispatcherVars>>

MCNext == Dispatch(DispatcherNext) \/ Quote(QuoteNext)

\* The two never run in one behaviour, so that one condition can ask for the
\* fairness of both.
MCSpec ==
    /\ MCInit /\ [][MCNext]_vars
    /\ \A i \in Instances : WF_vars(Dispatch(WorkerNext) \/ Quote(Step(i)))
=============================================================================
