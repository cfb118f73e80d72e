-------------------------- MODULE EdgePersistence --------------------------
(***************************************************************************)
(* crates/perplex-edge/src/db.rs: the writer that drains the handlers'     *)
(* events into Postgres, and a restart, which loads what it wrote.         *)
(***************************************************************************)
EXTENDS EdgeState

CONSTANTS
    FaultKinds,     \* what may go wrong: "crash", "write"
    MaxFaults       \* bound

VARIABLES
    db,
    faults          \* what went wrong so far

persistVars == <<edgeVars, db, faults>>

Fault(kind) ==
    /\ kind \in FaultKinds
    /\ Cardinality(faults) < MaxFaults
    /\ faults' = faults \cup {kind}

DbOf(os, ps, vs, fs, tp) == [orders |-> os, positions |-> ps, vault |-> vs, fills |-> fs, tape |-> tp]

\* SyncOrders: the wallet's rows are deleted and the list inserted.
Synced(os, ev) ==
    [id \in {x \in DOMAIN os : os[x].owner # ev.who} \cup DOMAIN ev.orders |->
        IF id \in DOMAIN ev.orders THEN ev.orders[id] ELSE os[id]]

\* Db::apply.
Applied(d, ev) ==
    CASE ev.kind = "order"    -> [d EXCEPT !.orders =
                                    [id \in DOMAIN @ \cup {ev.id} |-> IF id = ev.id THEN ev.order ELSE @[id]]]
      [] ev.kind = "delete"   -> [d EXCEPT !.orders = [id \in DOMAIN @ \ {ev.id} |-> @[id]]]
      [] ev.kind = "orders"   -> [d EXCEPT !.orders = Synced(@, ev)]
      [] ev.kind = "position" -> [d EXCEPT !.positions[ev.who] = ev.position]
      [] ev.kind = "vault"    -> [d EXCEPT !.vault[ev.who] = ev.amount]
      [] ev.kind = "fill"     -> [d EXCEPT !.fills[ev.who][ev.id] = @ + ev.delta]
      [] ev.kind = "trade"    -> [d EXCEPT !.tape = @ + ev.notional]

-----------------------------------------------------------------------------
\* spawn_writer: events in order; one that fails is logged and skipped.
Write ==
    /\ queue # <<>>
    /\ queue' = Tail(queue)
    /\ \/ db' = Applied(db, queue[1]) /\ UNCHANGED faults
       \/ Fault("write") /\ UNCHANGED db
    /\ UNCHANGED <<memory, mark, todo, placed, requests>>

\* The process dies, with its queue, and starts again from the database.
CrashRestart ==
    /\ Fault("crash")
    /\ orders' = db.orders
    /\ snapshot' = Aggregate(db.orders)
    /\ positions' = db.positions
    /\ vault' = db.vault
    /\ fills' = db.fills
    /\ tape' = db.tape
    /\ todo' = [t \in Threads |-> <<>>]
    /\ queue' = <<>>
    /\ UNCHANGED <<mark, placed, requests, db>>

PersistInit ==
    /\ EdgeInit
    /\ db = DbOf(orders, positions, vault, fills, tape)
    /\ faults = {}

PersistNext ==
    \/ EdgeNext /\ UNCHANGED <<db, faults>>
    \/ Write
    \/ CrashRestart

PersistSpec == PersistInit /\ [][PersistNext]_persistVars

-----------------------------------------------------------------------------
\* Between requests, with the queue drained and no write failed, a restart
\* would lose nothing: the database is the memory (every mutator's event
\* against its write).
DbMirrorsMemory ==
    "write" \notin faults /\ Quiet /\ queue = <<>> => db = DbOf(orders, positions, vault, fills, tape)

\* Wherever the process dies, no order comes back with quantity that was
\* already recorded as filled: makers' lists are sent before the fills that
\* consumed them (match_taker's phase 4, record_fill).  A failed write
\* is skipped, and with it this order.
RecoveryNeverOverfills ==
    "write" \notin faults => \A id \in DOMAIN db.orders :
        Abs(db.fills[db.orders[id].owner][id]) + db.orders[id].remaining <= db.orders[id].qty

\* What a process that never crashed guarantees of its memory; a crash may
\* lose the end of a request.
Uninterrupted == "crash" \notin faults

\* However handlers interleave, until the process crashes no order is filled
\* beyond its quantity and every wallet's position is the sum of its fills
\* (match_taker's two locks, upsert_position).
TradesAccount == Uninterrupted => OrdersAccountForFills /\ PositionsMatchFills

\* FeesSettled until the process crashes.
FeesAccount == Uninterrupted => FeesSettled
=============================================================================
