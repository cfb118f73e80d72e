------------------------------- MODULE MCCore -------------------------------
(***************************************************************************)
(* The position registry and the order book share no state: a behaviour is *)
(* one of one of them, with the other at rest.                             *)
(***************************************************************************)
EXTENDS CoreMargin, Orderbook, TLC

VARIABLE part

vars == <<part, registryVars, book, nextId>>

\* One valid parameter record, one rejected by _validate (maintenance margin
\* not below initial margin).
MCParamChoices ==
    {[imRatioBps |-> 500, mmRatioBps |-> mm, liqBonusBps |-> 100,
      takerFeeBps |-> 5, makerRebateBps |-> -2, active |-> TRUE] : mm \in {250, 500}}

MCSizeDeltas == {-3, -1, 2, 3}

Plain(owner, side, price, qty) ==
    [owner |-> owner, side |-> side, type |-> "limit", price |-> price, qty |-> qty,
     tif |-> "gtc", postOnly |-> FALSE, reduceOnly |-> FALSE]

\* Limit orders of two owners at two prices, of two sizes for one of them, and
\* one order of each other kind.
Limits == {Plain(w[1], s, p, w[2]) : w \in {<<"ann", 2>>, <<"ben", 1>>, <<"ben", 2>>}, s \in Sides, p \in {1, 2}}

Variants ==
    {[Plain("ann", "buy", 2, 2) EXCEPT !.tif = "ioc"],
     [Plain("ann", "buy", 2, 2) EXCEPT !.tif = "fok"],
     [Plain("ben", "sell", 1, 1) EXCEPT !.postOnly = TRUE],
     [Plain("ann", "sell", 1, 2) EXCEPT !.reduceOnly = TRUE],
     [Plain("ben", "sell", 1, 2) EXCEPT !.type = "market"],
     Plain("ann", "buy", 0, 1)}

MCOrders == Limits \cup Variants
MCNet == {0, 2}

MCInit ==
    /\ part \in {"registry", "book"}
    /\ Init /\ BookInit
    /\ part = "registry" => book.mode = "Allow"

MCNext ==
    \/ part = "registry" /\ Next /\ UNCHANGED <<part, book, nextId>>
    \/ part = "book" /\ BookNext /\ UNCHANGED <<part, registryVars>>

MCSpec == MCInit /\ [][MCNext]_vars

MarketSymmetry == Permutations(Markets)
=============================================================================
