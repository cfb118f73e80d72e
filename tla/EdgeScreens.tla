---------------------------- MODULE EdgeScreens ----------------------------
(***************************************************************************)
(* What the order form and the portfolio page work out from the edge's     *)
(* answers, against what the edge does with the order or the account.      *)
(***************************************************************************)
EXTENDS EdgeState, TicketMath

\* The side of the snapshot that a taker eats, best price first.
Offered(side) ==
    LET prices == SetToSortSeq({l[2] : l \in {x \in DOMAIN snapshot : x[1] = Opposite(side)}},
                               LAMBDA a, b : IF side = "buy" THEN a < b ELSE a > b)
    IN  [k \in DOMAIN prices |-> [price |-> prices[k], qty |-> snapshot[<<Opposite(side), prices[k]>>]]]

Preview(r) == PreviewFill(r.side, r.type, r.qty, r.price, Offered(r.side), mark)

\* What the portfolio page shows as free collateral and account equity.
ShownFree(u) == FreeCollateral(positions[u], VaultBalance(u))
AccountEquity(u) == VaultBalance(u) + Pnl(positions[u])

\* The form leaves the button enabled at this leverage.
Submittable(r, leverage) ==
    ~Insufficient(Preview(r), r.qty, leverage, ShownFree(r.owner), Dollar)

-----------------------------------------------------------------------------
\* A wallet with no order of its own on the other side.
Unopposed(r) == \A id \in DOMAIN orders : orders[id].owner = r.owner => orders[id].side = r.side

\* Between requests the screens say what the edge would do.  The form's
\* preview, from the public snapshot, is what match_taker fills and for how
\* much, unless the wallet's own orders are in the way: match_taker passes
\* over them, the preview counts them.  An order that would rest and that the
\* form lets through passes the risk gate, at any leverage the margin ratio
\* allows and as long as no open profit counts as free collateral.  What the
\* portfolio shows as equity is the free collateral plus the margin of the
\* position, until the position eats into it.
ScreensHonest ==
    Quiet =>
        /\ \A r \in Places : Unopposed(r) =>
            LET pv == Preview(r)
                done == Matched(Candidates(r, orders), orders, r.qty)
            IN  /\ pv.filled = r.qty - done.left
                /\ pv.notional = FoldLeft(LAMBDA n, f : n + f.qty * f.price, 0, done.fills)
                /\ \A leverage \in {1, maxLeverage} :
                    r.type = "limit" /\ pv.filled = 0 /\ Pnl(positions[r.owner]) <= 0
                        /\ leverage * imRatioBps <= Dollar /\ Submittable(r, leverage)
                    => Backed(r, positions[r.owner], VaultBalance(r.owner))
        /\ \A u \in Users : ShownFree(u) > 0 =>
            AccountEquity(u) = ShownFree(u) + Abs(positions[u].size) * mark * imRatioBps
=============================================================================
