----------------------------- MODULE Dispatcher -----------------------------
(***************************************************************************)
(* crates/perplex-matching/src/dispatcher.rs: one market's worker, the     *)
(* bounded channel in front of it, its callers, and the delta stream       *)
(* behind it.  The worker alone owns the book, so one command with its     *)
(* publications is one step; an append that fails is only logged.          *)
(*                                                                         *)
(* `replica` is a consumer of the stream: the levels it holds, the last    *)
(* sequence number it saw, and whether it saw a number skipped.  `silent`  *)
(* is the history of levels changed by commands that publish nothing.      *)
(***************************************************************************)
EXTENDS Orderbook

CONSTANTS
    Clients,
    channel_capacity,
    AppendsMayFail

ASSUME DispatcherAssumption == channel_capacity \in Nat \ {0}

VARIABLES
    channel,    \* commands sent and not yet received
    client,     \* client -> idle | waiting | answered
    worker,     \* running | closing | stopped
    sequence,
    replica,
    silent      \* levels changed since they were last published

dispatcherVars == <<book, nextId, channel, client, worker, sequence, replica, silent>>

Prices == {o.price : o \in Orders}
Levels == Sides \X Prices

-----------------------------------------------------------------------------
(***************************************************************************)
(* The deltas of an accepted submission: the maker's level after each      *)
(* fill, then the level the order rests on, all read from the book as the  *)
(* submission left it.                                                     *)
(***************************************************************************)
\* Mutant: the residual is read before the order crossed.
DeltasBefore(b, o, out) ==
    LET delta(side, price) == [level |-> <<side, price>>, qty |-> LevelQty(b, side, price)]
    IN  [k \in 1 .. Len(out.fills) |-> delta(Opposite(o.side), out.fills[k].price)]
            \o (IF out.resting THEN <<delta(o.side, o.price)>> ELSE <<>>)

Deltas(b, o, out) ==
    LET delta(side, price) == [level |-> <<side, price>>, qty |-> LevelQty(out.book, side, price)]
    IN  [k \in 1 .. Len(out.fills) |-> delta(Opposite(o.side), out.fills[k].price)]
            \o (IF out.resting THEN <<delta(o.side, o.price)>> ELSE <<>>)

\* The consumer applies the deltas whose append succeeded, in order.
Consume(r, ds, first, delivered) ==
    FoldLeft(LAMBDA acc, k :
                IF k \notin delivered THEN acc
                ELSE [levels |-> [acc.levels EXCEPT ![ds[k].level] = ds[k].qty],
                      seq |-> first + k,
                      gap |-> acc.gap \/ first + k # acc.seq + 1],
             r, [k \in 1 .. Len(ds) |-> k])

\* Mutant: only an accepted command is replied to.
RepliedIfOk(c, ok) == [client EXCEPT ![c] = IF @ = "waiting" /\ ok THEN "answered" ELSE @]

\* The oneshot reply; nobody may be there to receive it.
Replied(c, ok) == [client EXCEPT ![c] = IF @ = "waiting" THEN "answered" ELSE @]

-----------------------------------------------------------------------------
\* Dispatcher::submit and ::cancel up to the awaited reply.  A send into a
\* full channel waits.
Send(c, cmd) ==
    /\ worker = "running"
    /\ client[c] = "idle"
    /\ Len(channel) < channel_capacity
    /\ channel' = Append(channel, cmd)
    /\ client' = [client EXCEPT ![c] = "waiting"]
    /\ UNCHANGED <<book, worker, sequence, replica, silent>>

SendSubmit(c, o) ==
    /\ nextId <= MaxOrders
    /\ Send(c, [op |-> "submit", from |-> c, id |-> nextId, order |-> o])
    /\ nextId' = nextId + 1

SendCancel(c, id) ==
    /\ Send(c, [op |-> "cancel", from |-> c, id |-> id])
    /\ UNCHANGED nextId

\* The caller got its answer, or dropped the future it was awaiting.
Return(c) ==
    /\ client[c] # "idle"
    /\ client' = [client EXCEPT ![c] = "idle"]
    /\ UNCHANGED <<book, nextId, channel, worker, sequence, replica, silent>>

\* append_delta connects and writes anew for each delta, and a failure is only
\* logged: any of them may be missing from the stream.
Appends(ds) == IF AppendsMayFail THEN SUBSET (1 .. Len(ds)) ELSE {1 .. Len(ds)}

Changed(b, c) == {l \in Levels : LevelQty(b, l[1], l[2]) # LevelQty(c, l[1], l[2])}

WorkSubmit ==
    /\ channel # <<>> /\ channel[1].op = "submit"
    /\ worker # "stopped"
    /\ \E net \in NetPositions :
       \E out \in {Submitted(book, channel[1].id, channel[1].order, net)} :
       \E ds \in {IF out.ok THEN Deltas(book, channel[1].order, out) ELSE <<>>} :
         /\ book' = out.book
         /\ sequence' = sequence + Len(ds)
         /\ \E delivered \in Appends(ds) : replica' = Consume(replica, ds, sequence, delivered)
         /\ client' = Replied(channel[1].from, out.ok)
         /\ silent' = IF out.ok THEN silent \ {ds[k].level : k \in DOMAIN ds}
                      ELSE silent \cup Changed(book, out.book)
    /\ channel' = Tail(channel)
    /\ UNCHANGED <<nextId, worker>>

\* A cancel publishes nothing.
WorkCancel ==
    /\ channel # <<>> /\ channel[1].op = "cancel"
    /\ worker # "stopped"
    /\ book' = Cancelled(book, channel[1].id)
    /\ client' = Replied(channel[1].from, TRUE)
    /\ silent' = silent \cup Changed(book, Cancelled(book, channel[1].id))
    /\ channel' = Tail(channel)
    /\ UNCHANGED <<nextId, worker, sequence, replica>>

\* shutdown consumes the dispatcher, so no call on it is in progress.
Shutdown ==
    /\ worker = "running"
    /\ \A c \in Clients : client[c] = "idle"
    /\ worker' = "closing"
    /\ UNCHANGED <<book, nextId, channel, client, sequence, replica, silent>>

\* Mutant: the worker holds a sender of its own, so recv never returns None.
WorkerNeverExits == worker = "closing" /\ FALSE

\* recv returns None once the senders are gone and the channel is empty.
WorkerExit ==
    /\ worker = "closing"
    /\ channel = <<>>
    /\ worker' = "stopped"
    /\ UNCHANGED <<book, nextId, channel, client, sequence, replica, silent>>

DispatcherInit ==
    /\ BookInit
    /\ channel = <<>>
    /\ client = [c \in Clients |-> "idle"]
    /\ worker = "running"
    /\ sequence = 0
    /\ replica = [levels |-> [l \in Levels |-> 0], seq |-> 0, gap |-> FALSE]
    /\ silent = {}

WorkerNext == WorkSubmit \/ WorkCancel \/ WorkerExit

DispatcherNext ==
    \/ \E c \in Clients, o \in Orders : SendSubmit(c, o)
    \/ \E c \in Clients, id \in 1 .. nextId - 1 : SendCancel(c, id)
    \/ \E c \in Clients : Return(c)
    \/ WorkerNext
    \/ Shutdown

\* The runtime keeps polling the worker task; clients owe nothing.
DispatcherSpec == DispatcherInit /\ [][DispatcherNext]_dispatcherVars /\ WF_dispatcherVars(WorkerNext)

-----------------------------------------------------------------------------
\* A consumer that saw every sequence number up to the worker's last holds
\* every level of the book (the residuals run_market_worker publishes), but
\* for levels a cancel or a refused order has changed since.
ReplicaExact ==
    ~replica.gap /\ replica.seq = sequence =>
        \A l \in Levels \ silent : replica.levels[l] = LevelQty(book, l[1], l[2])

\* Every caller that keeps waiting gets its answer, whatever is queued in
\* front of it, whoever gave up waiting, and whether its order is accepted
\* or not (Dispatcher::submit and ::cancel awaiting the oneshot reply).
EveryCallReturns == \A c \in Clients : []<>(client[c] # "waiting")

\* A shutdown that has started ends, after what was queued is processed.
ShutdownCompletes == []<>(worker # "running" => worker = "stopped" /\ channel = <<>>)

\* Nobody is left waiting, neither a caller for its reply nor a shutdown for
\* the worker (the worker's loop and both of its exits).
NobodyLeftWaiting == EveryCallReturns /\ ShutdownCompletes
=============================================================================
