----------------------------- MODULE TicketMath -----------------------------
(***************************************************************************)
(* The arithmetic of the order form (web/components/trade/OrderForm.tsx):  *)
(* what an order would fill at, and whether its margin is there.  Prices   *)
(* and quantities are whole; a price that is an average is a fraction      *)
(* [num, den].  An empty price field reads as 0, one that is no number as  *)
(* NaN.                                                                    *)
(***************************************************************************)
EXTENDS Integers, SequencesExt

NaN == -1
NoMark == 0

Whole(n) == [num |-> n, den |-> 1]

\* Mutant: a limit order is previewed as if it were a market order.
ReachesAny(side, type, limitPx, px) == limitPx # NaN

\* Limit orders only consume levels their price reaches.
Reaches(side, type, limitPx, px) ==
    \/ type = "market"
    \/ limitPx # NaN /\ IF side = "buy" THEN px <= limitPx ELSE px >= limitPx

\* The walk over the levels of the other side, best first; it ends at the
\* first level out of reach.
Walk(side, type, qty, limitPx, levels) ==
    FoldLeft(LAMBDA acc, l :
                IF acc.done \/ acc.remaining = 0 \/ l.qty <= 0 THEN acc
                ELSE IF ~Reaches(side, type, limitPx, l.price) THEN [acc EXCEPT !.done = TRUE]
                ELSE LET take == IF l.qty < acc.remaining THEN l.qty ELSE acc.remaining
                     IN  [acc EXCEPT !.remaining = @ - take, !.notional = @ + take * l.price],
             [remaining |-> qty, notional |-> 0, done |-> FALSE], levels)

\* previewFill: what would fill, and the average price; when nothing would, the
\* mark or the limit price.
PreviewFill(side, type, qty, limitPx, levels, mark) ==
    LET w == Walk(side, type, qty, limitPx, levels)
        filled == qty - w.remaining
        own == IF type = "market" THEN mark ELSE IF limitPx = NaN THEN 0 ELSE limitPx
    IN  [filled |-> filled, notional |-> w.notional,
         effPrice |-> IF filled > 0 THEN [num |-> w.notional, den |-> filled] ELSE Whole(own)]

\* `margin > free`, the margin being the order's value over the leverage; free is
\* counted in 1 / unit of a dollar.
Insufficient(pv, qty, leverage, free, unit) ==
    leverage > 0 /\ pv.effPrice.num * qty * unit > free * leverage * pv.effPrice.den
=============================================================================
