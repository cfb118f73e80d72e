------------------------------ MODULE LiveBook ------------------------------
(***************************************************************************)
(* The order book on the screen: useLiveOrderbook (web/lib/ws/channels.ts) *)
(* keeps a ladder from WebSocket snapshots and deltas and from a REST poll *)
(* that runs beside them, and Orderbook.tsx draws it.  The server is the   *)
(* development one (web/mocks): the edge does not publish this channel     *)
(* yet, so against the edge the poll is all there is.                      *)
(*                                                                         *)
(* history[n] is the server's book at sequence n; frames carry sequences   *)
(* and stand for the levels at them.  A ladder's `known` is not in the     *)
(* code: the rungs its last snapshot reached down to, none before one came *)
(* since the hook was mounted.                                             *)
(***************************************************************************)
EXTENDS Integers, SequencesExt, FiniteSetsExt

CONSTANTS
    BidPrices, AskPrices, LevelSizes,
    OpeningBook,        \* rung -> size, 0 when nothing is there
    SNAPSHOT_DEPTH,     \* levels of a side in a snapshot
    DEPTH,              \* levels of a side kept for drawing
    Groupings,          \* levels per drawn row
    ROWS,               \* rows drawn of a side
    MaxSequence,        \* bound on changes of the server's book
    MaxPolls,           \* bound on polls under way at a time
    MaxBookFaults       \* bound on remounts and lost sockets

Rungs == ({"bid"} \X BidPrices) \cup ({"ask"} \X AskPrices)

ASSUME BookAssumption ==
    /\ BidPrices \cup AskPrices \cup LevelSizes \subseteq Nat \ {0}
    /\ OpeningBook \in [Rungs -> LevelSizes \cup {0}]
    /\ {SNAPSHOT_DEPTH, DEPTH, ROWS} \cup Groupings \subseteq Nat \ {0} /\ DEPTH <= SNAPSHOT_DEPTH
    /\ {MaxSequence, MaxPolls, MaxBookFaults} \subseteq Nat

VARIABLES
    history,        \* the server's books so far
    subscribed,     \* whether the server serves this socket
    control,        \* subscribe and unsubscribe on their way to it
    wire,           \* frames on their way to the browser
    polls,          \* poll -> NotAsked, Waiting or the answer's sequence
    ladder,         \* bidsRef, asksRef and seqRef
    rafScheduled,
    drawn,          \* what the component last got, NoBook before that
    bookFaults

bookVars == <<history, subscribed, control, wire, polls, ladder, rafScheduled, drawn, bookFaults>>

Empty == [rung \in Rungs |-> 0]
NoBook == [book |-> Empty, sequence |-> 0, known |-> {}]
NotAsked == -1
Waiting == 0

\* The levels of a side, and those better than a rung.
Levels(book, side) == {r \in Rungs : r[1] = side /\ book[r] # 0}

Better(book, rung) ==
    {r \in Levels(book, rung[1]) : IF rung[1] = "bid" THEN r[2] > rung[2] ELSE r[2] < rung[2]}

\* The best n levels of each side.
Best(book, n) ==
    [rung \in Rungs |-> IF Cardinality(Better(book, rung)) < n THEN book[rung] ELSE 0]

-----------------------------------------------------------------------------
(***************************************************************************)
(* The server.                                                             *)
(***************************************************************************)

\* mutateBook: one level changes, subscribers get the change.
MutateBook(rung, size) ==
    /\ Len(history) < MaxSequence
    /\ Last(history)[rung] # size
    /\ history' = Append(history, [Last(history) EXCEPT ![rung] = size])
    /\ wire' = IF subscribed THEN Append(wire, [type |-> "delta", sequence |-> Len(history) + 1]) ELSE wire
    /\ UNCHANGED <<subscribed, control, polls, ladder, rafScheduled, drawn, bookFaults>>

\* A subscription is answered with a snapshot.
ServerReads ==
    /\ control # <<>>
    /\ control' = Tail(control)
    /\ subscribed' = (Head(control) = "subscribe")
    /\ wire' = IF Head(control) = "subscribe"
               THEN Append(wire, [type |-> "snapshot", sequence |-> Len(history)]) ELSE wire
    /\ UNCHANGED <<history, polls, ladder, rafScheduled, drawn, bookFaults>>

PollAnswered(p) ==
    /\ polls[p] = Waiting
    /\ polls' = [polls EXCEPT ![p] = Len(history)]
    /\ UNCHANGED <<history, subscribed, control, wire, ladder, rafScheduled, drawn, bookFaults>>

-----------------------------------------------------------------------------
(***************************************************************************)
(* The hook.                                                               *)
(***************************************************************************)

\* The levels of delta n: those that differ from the book before.
Delta(n) == {rung \in Rungs : history[n][rung] # history[n - 1][rung]}

\* applyDelta: a size of zero deletes the level.
ApplyDelta(book, n) == [rung \in Rungs |-> IF rung \in Delta(n) THEN history[n][rung] ELSE book[rung]]

\* The rungs a snapshot of book n says everything about.
Known(n) ==
    {rung \in Rungs :
        \/ Cardinality(Better(history[n], rung)) < SNAPSHOT_DEPTH
        \/ Cardinality(Levels(history[n], rung[1])) <= SNAPSHOT_DEPTH}

\* The ladder after snapshotOf's best levels replaced it.
Snapshot(n) == [book |-> Best(history[n], SNAPSHOT_DEPTH), sequence |-> n, known |-> Known(n)]

\* Mutant: a gap in the sequence goes unnoticed.
GapNever(n) == FALSE

\* A delta that does not follow what the hook has.
Gap(n) == n # ladder.sequence + 1 /\ ladder.sequence # 0

\* Mutant: a flush is scheduled once and never again.
ScheduleFlushOnce == rafScheduled' = (rafScheduled \/ drawn = NoBook)

ScheduleFlush == rafScheduled' = TRUE

\* The listener: after a gap it subscribes anew and drops the delta.
OnBookFrame ==
    /\ wire # <<>>
    /\ wire' = Tail(wire)
    /\ LET m == Head(wire)  n == m.sequence IN
       IF m.type = "snapshot"
       THEN ladder' = Snapshot(n) /\ ScheduleFlush /\ UNCHANGED control
       ELSE IF Gap(n)
       THEN control' = control \o <<"unsubscribe", "subscribe">> /\ UNCHANGED <<ladder, rafScheduled>>
       ELSE /\ ladder' = [ladder EXCEPT !.book = ApplyDelta(@, n), !.sequence = n]
            /\ ScheduleFlush /\ UNCHANGED control
    /\ UNCHANGED <<history, subscribed, polls, drawn, bookFaults>>

\* The interval fires whether or not the last poll has been answered.
SeedFromRest(p) ==
    /\ polls[p] = NotAsked
    /\ polls' = [polls EXCEPT ![p] = Waiting]
    /\ UNCHANGED <<history, subscribed, control, wire, ladder, rafScheduled, drawn, bookFaults>>

\* An answer replaces the ladder, even by an older one.
PollArrives(p, n) ==
    /\ polls[p] = n
    /\ polls' = [polls EXCEPT ![p] = NotAsked]
    /\ ladder' = Snapshot(n)
    /\ ScheduleFlush
    /\ UNCHANGED <<history, subscribed, control, wire, drawn, bookFaults>>

PollFails(p) ==
    /\ polls[p] = Waiting /\ bookFaults < MaxBookFaults
    /\ bookFaults' = bookFaults + 1
    /\ polls' = [polls EXCEPT ![p] = NotAsked]
    /\ UNCHANGED <<history, subscribed, control, wire, ladder, rafScheduled, drawn>>

\* flush: the best DEPTH levels of each side are handed to the component.
Flush ==
    /\ rafScheduled
    /\ rafScheduled' = FALSE
    /\ drawn' = [ladder EXCEPT !.book = Best(@, DEPTH)]
    /\ UNCHANGED <<history, subscribed, control, wire, polls, ladder, bookFaults>>

\* The page leaves the market and comes back: the hook starts afresh, its
\* polls are cancelled, frames on their way stay on their way.
BookRemount ==
    /\ bookFaults < MaxBookFaults
    /\ bookFaults' = bookFaults + 1
    /\ control' = control \o <<"unsubscribe", "subscribe">>
    /\ ladder' = NoBook /\ drawn' = NoBook /\ rafScheduled' = FALSE
    /\ polls' = [p \in 1..MaxPolls |-> NotAsked]
    /\ UNCHANGED <<history, subscribed, wire>>

\* The socket breaks and PerplexWs opens another and subscribes on it.
SocketLost ==
    /\ bookFaults < MaxBookFaults
    /\ bookFaults' = bookFaults + 1
    /\ subscribed' = FALSE /\ wire' = <<>> /\ control' = <<"subscribe">>
    /\ UNCHANGED <<history, polls, ladder, rafScheduled, drawn>>

BookInit ==
    /\ history = <<OpeningBook>>
    /\ subscribed = FALSE /\ control = <<"subscribe">> /\ wire = <<>>
    /\ polls = [p \in 1..MaxPolls |-> NotAsked]
    /\ ladder = NoBook /\ drawn = NoBook /\ rafScheduled = FALSE
    /\ bookFaults = 0

\* A poll goes on: it is sent, answered, and its answer arrives.
PollStep(p) ==
    SeedFromRest(p) \/ PollAnswered(p) \/ \E n \in DOMAIN history : PollArrives(p, n)

BookNext ==
    \/ \E rung \in Rungs, size \in LevelSizes \cup {0} : MutateBook(rung, size)
    \/ ServerReads \/ OnBookFrame \/ Flush \/ BookRemount \/ SocketLost
    \/ \E p \in 1..MaxPolls : PollStep(p) \/ PollFails(p)

\* The interval fires, the server answers, what is sent arrives and the
\* browser paints.
BookFairness ==
    /\ WF_bookVars(ServerReads) /\ WF_bookVars(OnBookFrame) /\ WF_bookVars(Flush)
    /\ \A p \in 1..MaxPolls : WF_bookVars(PollStep(p))

LiveBookSpec == BookInit /\ [][BookNext]_bookVars /\ BookFairness

-----------------------------------------------------------------------------
(***************************************************************************)
(* Drawing (Orderbook.tsx).                                                *)
(***************************************************************************)
\* The prices of a side where something is, best first.
Prices(book, side) ==
    SetToSortSeq({r[2] : r \in Levels(book, side)},
                 LAMBDA a, b : IF side = "bid" THEN a > b ELSE a < b)

Top(s, n) == SubSeq(s, 1, IF Len(s) < n THEN Len(s) ELSE n)

\* Mutant: the running total restarts with every bucket.
GroupLevelsAnew(side, g) ==
    LET ps == Prices(drawn.book, side)
        bucket(k) == Top(SubSeq(ps, (k - 1) * g + 1, Len(ps)), g)
    IN  [k \in 1..((Len(ps) + g - 1) \div g) |->
            [price |-> Head(bucket(k)),
             cum |-> MapThenSumSet(LAMBDA p : drawn.book[<<side, p>>], ToSet(bucket(k)))]]

\* groupLevels: g adjacent levels to a row, under the best price of the
\* bucket, with a running total.
GroupLevels(side, g) ==
    LET ps == Prices(drawn.book, side)
        bucket(k) == Top(SubSeq(ps, (k - 1) * g + 1, Len(ps)), g)
        size(k) == MapThenSumSet(LAMBDA p : drawn.book[<<side, p>>], ToSet(bucket(k)))
        cum[k \in 0..Len(ps)] == IF k = 0 THEN 0 ELSE cum[k - 1] + size(k)
    IN  [k \in 1..((Len(ps) + g - 1) \div g) |-> [price |-> Head(bucket(k)), cum |-> cum[k]]]

Layouts == {"split", "bid", "ask"}

\* The rows of a side: the first ROWS, in the layouts that show the side.
DrawnRows(side, g, layout) ==
    IF layout \in {"split", side} THEN Top(GroupLevels(side, g), ROWS) ELSE <<>>

-----------------------------------------------------------------------------
(* Properties *)

AtLeastAsGood(side, p, q) == IF side = "bid" THEN p >= q ELSE p <= q

\* The ladder is the server's book at the sequence it claims, down to where
\* its last snapshot reached, whatever the interleaving of snapshots,
\* deltas and late polls (the sequence check of useLiveOrderbook).
LadderExact ==
    \A rung \in ladder.known : ladder.book[rung] = history[ladder.sequence][rung]

\* Nothing of a side is missing in what is drawn.
Whole(side) ==
    /\ {r \in Rungs : r[1] = side} \subseteq drawn.known
    /\ Cardinality(Levels(history[drawn.sequence], side)) <= DEPTH

\* A drawn row's total is the depth there was, at the sequence drawn, from
\* the best price to just before the next row, or to the end of the book
\* (groupLevels' running total), as deep as the last snapshot went.
RowsAddUp ==
    \A side \in {"bid", "ask"}, g \in Groupings, layout \in Layouts :
        LET rows == DrawnRows(side, g, layout)
            next(k) == rows[k + 1].price
            sure(k) == IF k < Len(rows) THEN <<side, next(k)>> \in drawn.known
                       ELSE Len(rows) = Len(GroupLevels(side, g)) /\ Whole(side)
        IN  \A k \in DOMAIN rows : sure(k) =>
                rows[k].cum = MapThenSumSet(LAMBDA r : history[drawn.sequence][r],
                    {r \in Rungs : r[1] = side /\ (k = Len(rows) \/ ~AtLeastAsGood(side, next(k), r[2]))})

\* Both: what the hook holds is a book the server had, and what is drawn adds
\* up to one (useLiveOrderbook, groupLevels).
BookShownExact == LadderExact /\ RowsAddUp

\* A screen that has subscribed, or drawn anything, ends up showing the
\* server's book once that stops changing, whether the socket breaks, the hook
\* is mounted anew or a poll fails (the poll and the resubscription of
\* useLiveOrderbook; every change of the ladder is followed by a flush).
BookCatchesUp ==
    <>[](subscribed \/ drawn # NoBook =>
            drawn.sequence = Len(history) /\ drawn.book = Best(Last(history), DEPTH))
=============================================================================
