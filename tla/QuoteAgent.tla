----------------------------- MODULE QuoteAgent -----------------------------
(***************************************************************************)
(* crates/perplex-cli/src/quote.rs, kill.rs: instances of the market maker *)
(* for one market, the lease they share, and their quotes on the edge.     *)
(* Every await of an iteration is a step of its own; MarketState is local  *)
(* to an instance's only task, so its mutex never waits.                   *)
(*                                                                         *)
(* Prices are left out but for the mid they are priced from.  An order id  *)
(* that nobody holds any more is used again, which keeps ids finite.       *)
(***************************************************************************)
EXTENDS Integers, FiniteSets

CONSTANTS
    Instances, Nobody,
    Mids,                       \* what the oracle answers
    reprice_threshold_bps,
    Ids,                        \* order ids, enough for every fault
    MaxFaults                   \* bound

ASSUME QuoteAssumption ==
    /\ Mids \subseteq Nat \ {0} /\ Ids \subseteq Nat \ {0}
    /\ {reprice_threshold_bps, MaxFaults} \subseteq Nat
    /\ Nobody \notin Instances
    /\ IsFiniteSet(Ids) /\ Cardinality(Ids) > 2 * MaxFaults + 2

VARIABLES
    lease,      \* who holds the market's lease
    agent,      \* instance -> its task
    open,       \* id -> quote resting on the edge
    mid,        \* the oracle's price
    losing,     \* whether realised PnL is below the kill threshold
    faults      \* crashes, expired leases and failed or refused calls

quoteVars == <<lease, agent, open, mid, losing, faults>>

None == 0

Exited == [pc |-> "exited", bid |-> None, ask |-> None, lastMid |-> None,
           tripped |-> FALSE, mid |-> None, placed |-> None]

\* market_loop's fresh MarketState and KillSwitch.
Started == [Exited EXCEPT !.pc = "renew"]

Fault == faults < MaxFaults /\ faults' = faults + 1

Distance(a, b) == IF a < b THEN b - a ELSE a - b

\* Mutant: a move of exactly the threshold is ignored.
KeepsQuotesAtThreshold(a) ==
    /\ a.lastMid # None
    /\ Distance(a.mid, a.lastMid) * 10000 <= reprice_threshold_bps * a.lastMid
    /\ a.bid # None /\ a.ask # None

\* The skip of run_quote_iteration: both quotes believed live and the mid
\* within the threshold of the one they were priced from.
KeepsQuotes(a) ==
    /\ a.lastMid # None
    /\ Distance(a.mid, a.lastMid) * 10000 < reprice_threshold_bps * a.lastMid
    /\ a.bid # None /\ a.ask # None

\* KillSwitch::observe.
Observed(tripped, low) == tripped \/ low

Held(i) == {agent[i].bid, agent[i].ask, agent[i].placed} \ {None}

Used == DOMAIN open \cup UNION {Held(i) : i \in Instances}

FreshId == CHOOSE id \in Ids : id \notin Used

Without(id) == [x \in DOMAIN open \ {id} |-> open[x]]

Becomes(i, a) == agent' = [agent EXCEPT ![i] = a]

-----------------------------------------------------------------------------
\* Mutant: whether the lease was taken is not looked at.
AcquireUnchecked(i) ==
    /\ agent[i].pc = "exited"
    /\ lease' = i
    /\ Becomes(i, Started)
    /\ UNCHANGED <<open, mid, losing, faults>>

\* acquire_market_lease; an instance that is refused exits, and is started
\* again by its deployment.
Acquire(i) ==
    /\ agent[i].pc = "exited"
    /\ lease = Nobody
    /\ lease' = i
    /\ Becomes(i, Started)
    /\ UNCHANGED <<open, mid, losing, faults>>

\* The top of market_loop: a lease that is gone, or a backend that fails,
\* ends the task with its quotes where they are.
Renew(i) ==
    /\ agent[i].pc = "renew"
    /\ \/ Becomes(i, IF lease = i THEN [agent[i] EXCEPT !.pc = "fetch"] ELSE Exited) /\ UNCHANGED faults
       \/ Becomes(i, Exited) /\ Fault
    /\ UNCHANGED <<lease, open, mid, losing>>

\* The oracle answers; an error ends the iteration.
FetchMid(i) ==
    /\ agent[i].pc = "fetch"
    /\ \/ Becomes(i, [agent[i] EXCEPT !.pc = "risk", !.mid = mid]) /\ UNCHANGED faults
       \/ Becomes(i, [agent[i] EXCEPT !.pc = "renew"]) /\ Fault
    /\ UNCHANGED <<lease, open, mid, losing>>

\* The risk source answers, and the switch is fed before anything else is
\* decided.
FetchRisk(i) ==
    /\ agent[i].pc = "risk"
    /\ \/ /\ LET a == [agent[i] EXCEPT !.tripped = Observed(@, losing)]
             IN  Becomes(i, IF a.tripped \/ ~KeepsQuotes(a)
                            THEN [a EXCEPT !.pc = "cancelBid", !.mid = IF a.tripped THEN None ELSE @]
                            ELSE [a EXCEPT !.pc = "renew", !.mid = None])
          /\ UNCHANGED faults
       \/ Becomes(i, [agent[i] EXCEPT !.pc = "renew", !.mid = None]) /\ Fault
    /\ UNCHANGED <<lease, open, mid, losing>>

\* A cancel's id is forgotten whatever the edge answers.
CancelBid(i) ==
    /\ agent[i].pc = "cancelBid"
    /\ Becomes(i, [agent[i] EXCEPT !.pc = "cancelAsk", !.bid = None])
    /\ \/ open' = Without(agent[i].bid) /\ UNCHANGED faults
       \/ agent[i].bid # None /\ Fault /\ UNCHANGED open
    /\ UNCHANGED <<lease, mid, losing>>

\* Mutant: a tripped switch pulls the quotes and goes on to place new ones.
CancelAskThenPlace(i) ==
    /\ agent[i].pc = "cancelAsk"
    /\ Becomes(i, [agent[i] EXCEPT !.pc = "placeBid", !.ask = None])
    /\ open' = Without(agent[i].ask)
    /\ UNCHANGED <<lease, mid, losing, faults>>

\* Mutant: only the bid is cancelled before the replacement.
CancelAskForgets(i) ==
    /\ agent[i].pc = "cancelAsk"
    /\ Becomes(i, [agent[i] EXCEPT !.pc = IF agent[i].tripped THEN "renew" ELSE "placeBid", !.ask = None])
    /\ UNCHANGED <<lease, open, mid, losing, faults>>

\* After it a tripped instance is done, any other goes on to place.
CancelAsk(i) ==
    /\ agent[i].pc = "cancelAsk"
    /\ Becomes(i, [agent[i] EXCEPT !.pc = IF agent[i].tripped THEN "renew" ELSE "placeBid", !.ask = None])
    /\ \/ open' = Without(agent[i].ask) /\ UNCHANGED faults
       \/ agent[i].ask # None /\ Fault /\ UNCHANGED open
    /\ UNCHANGED <<lease, mid, losing>>

QuoteRests(i, side) ==
    [x \in DOMAIN open \cup {FreshId} |->
        IF x = FreshId THEN [by |-> i, side |-> side] ELSE open[x]]

\* A failed place leaves the iteration: the edge refused it, or took it and
\* the answer was lost.
PlaceFails(i, side) ==
    /\ Fault
    /\ open' \in {open, QuoteRests(i, side)}
    /\ Becomes(i, [agent[i] EXCEPT !.pc = "renew", !.mid = None, !.placed = None])
    /\ UNCHANGED <<lease, mid, losing>>

PlaceBid(i) ==
    /\ agent[i].pc = "placeBid"
    /\ \/ /\ open' = QuoteRests(i, "buy")
          /\ Becomes(i, [agent[i] EXCEPT !.pc = "placeAsk", !.placed = FreshId])
          /\ UNCHANGED <<lease, mid, losing, faults>>
       \/ PlaceFails(i, "buy")

\* Both ids, and the mid, are stored only once both orders are placed.
PlaceAsk(i) ==
    /\ agent[i].pc = "placeAsk"
    /\ \/ /\ open' = QuoteRests(i, "sell")
          /\ Becomes(i, [agent[i] EXCEPT !.pc = "renew", !.bid = agent[i].placed, !.ask = FreshId,
                                         !.lastMid = agent[i].mid, !.mid = None, !.placed = None])
          /\ UNCHANGED <<lease, mid, losing, faults>>
       \/ PlaceFails(i, "sell")

-----------------------------------------------------------------------------
\* The lease runs out under its holder (a stall longer than lease_ttl).
Expire ==
    /\ lease # Nobody
    /\ lease' = Nobody
    /\ IF agent[lease].pc = "exited" THEN UNCHANGED faults ELSE Fault
    /\ UNCHANGED <<agent, open, mid, losing>>

Crash(i) ==
    /\ agent[i].pc # "exited"
    /\ Fault
    /\ Becomes(i, Exited)
    /\ UNCHANGED <<lease, open, mid, losing>>

\* Somebody trades with a quote.
Fill ==
    /\ \E id \in DOMAIN open : open' = Without(id)
    /\ UNCHANGED <<lease, agent, mid, losing, faults>>

MidMoves == mid' \in Mids /\ UNCHANGED <<lease, agent, open, losing, faults>>

PnlMoves == losing' = ~losing /\ UNCHANGED <<lease, agent, open, mid, faults>>

QuoteInit ==
    /\ lease = Nobody
    /\ agent = [i \in Instances |-> Exited]
    /\ open = [x \in {} |-> None]
    /\ mid \in Mids
    /\ losing = FALSE
    /\ faults = 0

Step(i) ==
    \/ Renew(i) \/ FetchMid(i) \/ FetchRisk(i) \/ CancelBid(i) \/ CancelAsk(i) \/ PlaceBid(i) \/ PlaceAsk(i)

QuoteNext ==
    \/ \E i \in Instances : Acquire(i) \/ Step(i) \/ Crash(i)
    \/ Expire \/ Fill \/ MidMoves \/ PnlMoves

\* The runtime polls every task.
QuoteSpec == QuoteInit /\ [][QuoteNext]_quoteVars /\ \A i \in Instances : WF_quoteVars(Step(i))

-----------------------------------------------------------------------------
Orphans == DOMAIN open \ UNION {Held(i) : i \in Instances}

\* Every crash, lost lease, and failed or refused call leaves at most two
\* quotes behind that nobody will cancel; nothing else does, in whatever
\* order ticks, fills and takeovers come (the cancel/replace bookkeeping of
\* run_quote_iteration).
OrphansBounded == Cardinality(Orphans) <= 2 * faults

\* Without faults one instance quotes at a time, one bid and one ask.
\* (market_loop's lease; an id is stored only after both places).
OneQuoter ==
    faults = 0 => \A x, y \in DOMAIN open :
        open[x].by = open[y].by /\ (open[x].side = open[y].side => x = y)

\* Both: quotes on the edge are one instance's pair, and what the faults left
\* (run_quote_iteration, market_loop).
QuotesBounded == OrphansBounded /\ OneQuoter

\* Once its switch has tripped, an instance never adds a quote, whatever
\* PnL does afterwards (observe; the early return of the kill branch).
KilledStaysQuiet ==
    [][\A i \in Instances : agent[i].tripped /\ agent'[i].tripped =>
          {x \in DOMAIN open' : open'[x].by = i} \subseteq {x \in DOMAIN open : open[x].by = i}]_quoteVars

\* A running instance whose quotes were priced from a mid more than the
\* threshold away does not leave them, however the mid moves on: at some time
\* they follow it, unless its switch trips or it exits (the loop of quote.rs).
Stale(i) ==
    /\ agent[i].pc # "exited" /\ ~agent[i].tripped /\ ~losing
    /\ Distance(mid, agent[i].lastMid) * 10000 >= reprice_threshold_bps * agent[i].lastMid

Reprices == \A i \in Instances : []<>~Stale(i)
=============================================================================
