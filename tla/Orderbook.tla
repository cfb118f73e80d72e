------------------------------ MODULE Orderbook ------------------------------
(***************************************************************************)
(* crates/perplex-matching/src/book.rs: one market's order book.  The two  *)
(* BTreeMaps of price levels, each a queue, are flattened: one sequence    *)
(* per side in priority order (best price first, then arrival).  A level   *)
(* exists exactly when its queue is not empty, so nothing is lost.         *)
(*                                                                         *)
(* Order ids are unique; the model numbers orders as they are submitted.   *)
(* The tracker a submission consults is its caller's cache: `net`, the     *)
(* owner's position in it, is an input.                                    *)
(***************************************************************************)
EXTENDS Integers, Sequences, FiniteSetsExt, SequencesExt

CONSTANTS
    Orders,     \* [owner, side, type, price, qty, tif, postOnly, reduceOnly]
    NetPositions,
    SelfTradeModes,     \* the modes books are created with
    MaxOrders   \* bound on submissions

ASSUME BookAssumption ==
    /\ SelfTradeModes \subseteq {"CancelNewest", "CancelBoth", "Allow"}
    /\ NetPositions \subseteq Int
    /\ MaxOrders \in Nat

VARIABLES
    book,       \* [mode : its SelfTradeMode, queue : side -> resting orders,
                \*  byId : the ids it can cancel]
    nextId

Sides == {"buy", "sell"}
Opposite(side) == IF side = "buy" THEN "sell" ELSE "buy"

\* p is at least as good as q for an order resting on `side`.
AtLeastAsGood(side, p, q) == IF side = "buy" THEN p >= q ELSE p <= q

\* Mutant: a limit equal to the maker's price does not trade.
CrossesStrictly(o, makerPrice) ==
    o.type = "market" \/ (o.price # makerPrice /\ AtLeastAsGood(o.side, o.price, makerPrice))

Crosses(o, makerPrice) == o.type = "market" \/ AtLeastAsGood(o.side, o.price, makerPrice)

EmptyBook(mode) == [mode |-> mode, queue |-> [s \in Sides |-> <<>>], byId |-> {}]

LevelQty(b, side, price) ==
    FoldLeft(LAMBDA n, r : IF r.price = price THEN n + r.remaining ELSE n, 0, b.queue[side])

CrossableQty(b, o) ==
    FoldLeft(LAMBDA n, r : IF Crosses(o, r.price) THEN n + r.remaining ELSE n, 0,
             b.queue[Opposite(o.side)])

-----------------------------------------------------------------------------
(***************************************************************************)
(* cross_buy / cross_sell over cross_one_level: makers are met in priority *)
(* order while the taker has quantity and crosses.  `taken` are makers to  *)
(* remove, `rejectedAt` the level price at which CancelNewest gave up (0:  *)
(* it did not).                                                            *)
(***************************************************************************)
StartCross(o) == [remaining |-> o.qty, makers |-> <<>>, taken |-> {}, fills |-> <<>>, rejectedAt |-> 0]

Reached(o, c, maker) == c.rejectedAt = 0 /\ c.remaining > 0 /\ Crosses(o, maker.price)

Trade(o, c, maker) ==
    LET traded == IF c.remaining < maker.remaining THEN c.remaining ELSE maker.remaining
        left   == maker.remaining - traded
    IN  [c EXCEPT !.remaining = @ - traded,
                  !.makers = Append(@, [maker EXCEPT !.remaining = left]),
                  !.taken = IF left = 0 THEN @ \cup {maker.id} ELSE @,
                  !.fills = Append(@, [maker |-> maker.id, price |-> maker.price, qty |-> traded])]

MeetMaker(mode, o, c, maker) ==
    LET own == maker.owner = o.owner
    IN  IF ~Reached(o, c, maker) THEN [c EXCEPT !.makers = Append(@, maker)]
        ELSE IF own /\ mode = "CancelNewest"
        THEN [c EXCEPT !.makers = Append(@, maker), !.rejectedAt = maker.price]
        ELSE IF own /\ mode = "CancelBoth"
        THEN [c EXCEPT !.makers = Append(@, maker), !.taken = @ \cup {maker.id}]
        ELSE Trade(o, c, maker)

Cross(b, o) == FoldLeft(LAMBDA c, maker : MeetMaker(b.mode, o, c, maker), StartCross(o),
                        b.queue[Opposite(o.side)])

\* Mutant: consumed makers stay cancellable.
CrossedKeepsIds(b, o, c) ==
    [b EXCEPT !.queue[Opposite(o.side)] =
                   SelectSeq(c.makers, LAMBDA r : r.id \notin c.taken \/ r.price = c.rejectedAt)]

(***************************************************************************)
(* Levels are compacted as the walk leaves them: when it gives up inside a *)
(* level, makers of that level it already consumed stay queued with zero   *)
(* remaining, although their ids are gone from by_id.                      *)
(***************************************************************************)
Crossed(b, o, c) ==
    [b EXCEPT !.queue[Opposite(o.side)] =
                   SelectSeq(c.makers, LAMBDA r : r.id \notin c.taken \/ r.price = c.rejectedAt),
              !.byId = @ \ c.taken]

\* Mutant: a new order goes ahead of those at its price.
RestedAhead(b, id, o, remaining) ==
    LET q == b.queue[o.side]
        k == Cardinality({i \in DOMAIN q : q[i].price # o.price /\ AtLeastAsGood(o.side, q[i].price, o.price)})
        r == [id |-> id, owner |-> o.owner, price |-> o.price, remaining |-> remaining]
    IN  [b EXCEPT !.queue[o.side] = InsertAt(@, k + 1, r), !.byId = @ \cup {id}]

\* rest: behind every order at least as good.
Rested(b, id, o, remaining) ==
    LET q == b.queue[o.side]
        k == Cardinality({i \in DOMAIN q : AtLeastAsGood(o.side, q[i].price, o.price)})
        r == [id |-> id, owner |-> o.owner, price |-> o.price, remaining |-> remaining]
    IN  [b EXCEPT !.queue[o.side] = InsertAt(@, k + 1, r), !.byId = @ \cup {id}]

\* PositionTracker.would_reduce.
WouldReduce(net, side, qty) ==
    \/ net > 0 /\ side = "sell" /\ qty <= net
    \/ net < 0 /\ side = "buy" /\ qty <= -net

\* Post-only looks at the best opposite level, whatever rests in it.
WouldCrossBest(b, o) ==
    LET q == b.queue[Opposite(o.side)]
    IN  q # <<>> /\ AtLeastAsGood(o.side, o.price, q[1].price)

\* The checks submit makes before it touches the book.
Admitted(b, o, net) ==
    /\ o.qty > 0
    /\ o.type = "limit" => o.price > 0
    /\ o.postOnly => ~WouldCrossBest(b, o)
    /\ o.reduceOnly => WouldReduce(net, o.side, o.qty)
    /\ o.tif = "fok" => CrossableQty(b, o) >= o.qty

(***************************************************************************)
(* submit: the result and the book after it.  Errors raised while or after *)
(* crossing (SelfTradeRejected, MarketNoLiquidity) drop the fills, not     *)
(* what crossing did to the book.                                          *)
(***************************************************************************)
Submitted(b, id, o, net) ==
    LET c     == Cross(b, o)
        after == Crossed(b, o, c)
        rests == c.remaining > 0 /\ o.type = "limit" /\ o.tif = "gtc"
    IN  IF ~Admitted(b, o, net)
        THEN [ok |-> FALSE, fills |-> <<>>, remaining |-> o.qty, resting |-> FALSE, book |-> b]
        ELSE IF c.rejectedAt # 0 \/ (o.type = "market" /\ c.remaining > 0)
        THEN [ok |-> FALSE, fills |-> <<>>, remaining |-> o.qty, resting |-> FALSE, book |-> after]
        ELSE [ok |-> TRUE, fills |-> c.fills, remaining |-> c.remaining, resting |-> rests,
              book |-> IF rests THEN Rested(after, id, o, c.remaining) ELSE after]

\* cancel of an id in by_id; any other id is left alone.
Cancelled(b, id) ==
    IF id \notin b.byId THEN b
    ELSE [b EXCEPT !.queue = [s \in Sides |-> SelectSeq(@[s], LAMBDA r : r.id # id)],
                   !.byId = @ \ {id}]

-----------------------------------------------------------------------------
Submit(o, net) ==
    /\ nextId <= MaxOrders
    /\ book' = Submitted(book, nextId, o, net).book
    /\ nextId' = nextId + 1

Cancel(id) ==
    /\ book' = Cancelled(book, id)
    /\ UNCHANGED nextId

BookInit == (\E mode \in SelfTradeModes : book = EmptyBook(mode)) /\ nextId = 1

BookNext ==
    \/ \E o \in Orders, net \in NetPositions : Submit(o, net)
    \/ \E id \in 1 .. nextId - 1 : Cancel(id)

BookSpec == BookInit /\ [][BookNext]_<<book, nextId>>

-----------------------------------------------------------------------------
\* No resting buy is priced at or above a resting sell: whatever mix of
\* order kinds, self-trade handling and cancels came before, what could
\* trade has traded (submit, rest).
BookUncrossed ==
    \A i \in DOMAIN book.queue["buy"], j \in DOMAIN book.queue["sell"] :
        book.queue["buy"][i].price < book.queue["sell"][j].price

\* The ids cancel accepts are exactly the orders with quantity on the book,
\* each queued once: an order can be cancelled as long as it can be filled
\* (by_id against the queues).
LiveOrdersCancellable ==
    LET live == {<<s, i>> \in Sides \X (1 .. MaxOrders) :
                    i \in DOMAIN book.queue[s] /\ book.queue[s][i].remaining > 0}
    IN  /\ book.byId = {book.queue[x[1]][x[2]].id : x \in live}
        /\ Cardinality(book.byId) = Cardinality(live)

-----------------------------------------------------------------------------
(***************************************************************************)
(* Reference for an accepted order: makers it may trade with, in priority  *)
(* order, give what is left of its quantity after those before them.       *)
(***************************************************************************)
Eligible(o) ==
    SelectSeq(book.queue[Opposite(o.side)],
              LAMBDA r : Crosses(o, r.price) /\ (book.mode = "CancelBoth" => r.owner # o.owner))

Before(q, k) == FoldLeft(LAMBDA n, r : n + r.remaining, 0, SubSeq(q, 1, k - 1))

ReferenceFill(o, q, k) == LET left == o.qty - Before(q, k)
                          IN  IF left < q[k].remaining THEN left ELSE q[k].remaining

\* Priority: among live orders of a side the better price comes first, and
\* at one price the earlier order.
Sorted(side) ==
    \A i, j \in DOMAIN book.queue[side] : i < j =>
        LET a == book.queue[side][i] b == book.queue[side][j]
        IN  AtLeastAsGood(side, a.price, b.price) /\ (a.price = b.price => a.id < b.id)

\* An accepted order trades in price-time priority, each maker at its own
\* price for what the better ones left, and with no maker it skipped
\* (cross_one_level against the prefix-sum reference, on every reachable
\* book and for every order).
PriceTimePriority ==
    /\ \A s \in Sides : Sorted(s)
    /\ \A o \in Orders, net \in NetPositions :
        LET out == Submitted(book, nextId, o, net)
            q   == Eligible(o)
            n   == Len(out.fills)
        IN  out.ok =>
              /\ n = Cardinality({k \in DOMAIN q : Before(q, k) < o.qty})
              /\ \A k \in 1 .. n : out.fills[k] =
                    [maker |-> q[k].id, price |-> q[k].price, qty |-> ReferenceFill(o, q, k)]

\* The three together: whatever was submitted, refused and cancelled before,
\* the book is uncrossed, its live orders are the ones cancel knows, and the
\* next order trades in price-time priority (submit, cancel).
BookOrderly == BookUncrossed /\ LiveOrdersCancellable /\ PriceTimePriority

-----------------------------------------------------------------------------
(***************************************************************************)
(* Statements of comments in the crate that the code does not meet.        *)
(***************************************************************************)
\* A rejected order leaves the book as it was.
RejectLeavesBook ==
    \A o \in Orders, net \in NetPositions :
        LET out == Submitted(book, nextId, o, net) IN ~out.ok => out.book = book

\* A fill-or-kill order that is accepted is filled completely.
FokFillsCompletely ==
    \A o \in Orders, net \in NetPositions :
        LET out == Submitted(book, nextId, o, net) IN o.tif = "fok" /\ out.ok => out.remaining = 0

\* Every fill an accepted order produces moves a positive quantity, as
\* settlement requires of it.
FillsMoveQuantity ==
    \A o \in Orders, net \in NetPositions :
        LET out == Submitted(book, nextId, o, net)
        IN  \A k \in DOMAIN out.fills : out.fills[k].qty > 0
=============================================================================
