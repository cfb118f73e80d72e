------------------------------- MODULE MCEdge -------------------------------
EXTENDS EdgePersistence, EdgeScreens, TLC

Place(owner, side, price, qty) ==
    [owner |-> owner, side |-> side, type |-> "limit", price |-> price, qty |-> qty,
     tif |-> "gtc", postOnly |-> FALSE, reduceOnly |-> FALSE]

DefaultRebate == -2     \* default_markets
MCUsers == {"ann", "ben"}
Limits == {Place(u, s, 1, q) : u \in MCUsers, s \in {"buy", "sell"}, q \in {1, 2}}
Crossing == {Place("ann", "buy", 1, 2), Place("ben", "sell", 1, 1)}
MarketSell == [Place("ben", "sell", 0, 2) EXCEPT !.type = "market"]
PostOnlySell == [Place("ben", "sell", 1, 1) EXCEPT !.postOnly = TRUE]
ReduceOnlyBuy == [Place("ann", "buy", 1, 1) EXCEPT !.reduceOnly = TRUE]
Mixed == {Place("ann", "buy", 2, 2), Place("ben", "sell", 2, 2),
          MarketSell, PostOnlySell, ReduceOnlyBuy}
OneUnseeded == [u \in MCUsers |-> IF u = "ann" THEN Unseeded ELSE Dollar]
MCVault == [u \in MCUsers |-> 10 * Dollar]
ThreadSymmetry == Permutations(Threads)
=============================================================================
