-------------------------- MODULE PositionRegistry --------------------------
(***************************************************************************)
(* contracts/src/PositionRegistry.sol: one position per user and market,   *)
(* the list of markets each user has a position in with its inverse map    *)
(* (position in the list plus one), and the cumulative funding index.      *)
(*                                                                         *)
(* Contract storage is the record `registry`; the operators over it are    *)
(* shared with Exchange, where several calls make one transaction.  Here   *)
(* the engines are the environment: applyFill and updateFunding are called *)
(* with any argument.  lastUpdatedBlock is written and never read, and is  *)
(* left out.                                                               *)
(*                                                                         *)
(* Every quantity is an integer: sizes, prices, funding indexes and PnL    *)
(* are multiples of 1/X18 (1e18 in the code), vault balances are raw USDC, *)
(* one of which is worth USDC_TO_X18 (1e12 in the code) of the PnL unit.   *)
(* Instances give both scales small values, so that every truncation of    *)
(* the code happens on small numbers.  Values stay far below 2^255:        *)
(* overflow of the checked 256-bit arithmetic is out of scope.             *)
(***************************************************************************)
EXTENDS Integers, Sequences, MarketRegistry, Parties

CONSTANTS
    X18,                \* fixed-point one
    USDC_TO_X18,        \* PnL units per raw USDC
    UINT_MAX,           \* stands for type(uint256).max
    SizeDeltas,         \* signed fill sizes
    FillPrices,
    FundingIndexes,     \* values updateFunding may be given
    MaxSize             \* bound: no fill takes a size past it

ASSUME ScaleAssumption ==
    /\ X18 \in Nat \ {0}
    /\ USDC_TO_X18 \in Nat \ {0}
    /\ UINT_MAX \in Nat /\ UINT_MAX >= X18

ASSUME RegistryAssumption ==
    /\ SizeDeltas \subseteq Int
    /\ FillPrices \subseteq Nat
    /\ FundingIndexes \subseteq Int
    /\ MaxSize \in Nat

BPS == 10000

-----------------------------------------------------------------------------
Abs(n) == IF n < 0 THEN -n ELSE n

\* Solidity's signed division rounds toward zero.
TruncDiv(a, b) == IF a >= 0 THEN a \div b ELSE -((-a) \div b)

SameSide(a, b) == (a > 0) = (b > 0)

\* A position that was never touched: the default value of the mapping.
NoPosition == [size |-> 0, entryPriceX18 |-> 0, cumulativeFunding |-> 0]

PositionType == [size : Int, entryPriceX18 : Nat, cumulativeFunding : Int]

-----------------------------------------------------------------------------
\* Mutant: longs receive when the index rises.
FundingCashflowSign(p, idx) == TruncDiv((idx - p.cumulativeFunding) * p.size, X18)

(***************************************************************************)
(* _settleFunding: what the holder receives for the growth of the market's *)
(* index since the position's last touch (the code's early return for a    *)
(* flat position or an unchanged index is the zero of this product).       *)
(***************************************************************************)
FundingCashflow(p, idx) ==
    -TruncDiv((idx - p.cumulativeFunding) * p.size, X18)

(***************************************************************************)
(* _applyVwap.  The part of the old position that a fill closes carries    *)
(* the old position's sign: all of it on a full close or a flip, |delta|   *)
(* of it on a partial close, none when opening or adding.                  *)
(***************************************************************************)
ClosedSize(p, sizeDelta) ==
    IF p.size = 0 \/ SameSide(p.size, sizeDelta) THEN 0
    ELSE IF Abs(sizeDelta) >= Abs(p.size) THEN p.size ELSE -sizeDelta

\* Mutant: a flip realises PnL on the whole fill, not on the closed part.
RealisedPnlOnDelta(p, sizeDelta, priceX18) ==
    IF ClosedSize(p, sizeDelta) = 0 THEN 0
    ELSE TruncDiv((-sizeDelta) * (priceX18 - p.entryPriceX18), X18)

RealisedPnl(p, sizeDelta, priceX18) ==
    TruncDiv(ClosedSize(p, sizeDelta) * (priceX18 - p.entryPriceX18), X18)

VwapEntry(p, sizeDelta, priceX18) ==
    LET newSize == p.size + sizeDelta
        adds    == p.size # 0 /\ SameSide(p.size, sizeDelta)
        reduces == p.size # 0 /\ ~adds /\ SameSide(p.size, newSize)
    IN  IF adds
        THEN (Abs(p.size) * p.entryPriceX18 + Abs(sizeDelta) * priceX18) \div Abs(newSize)
        ELSE IF reduces THEN p.entryPriceX18 ELSE priceX18

\* The stored position after applyFill: a full close also drops the entry.
FilledPosition(p, idx, sizeDelta, priceX18) ==
    LET newSize == p.size + sizeDelta
    IN  [size |-> newSize,
         entryPriceX18 |-> IF newSize = 0 THEN 0 ELSE VwapEntry(p, sizeDelta, priceX18),
         cumulativeFunding |-> idx]

-----------------------------------------------------------------------------
UnrealisedPnl(p, markX18) ==
    TruncDiv(p.size * (markX18 - p.entryPriceX18), X18)

Notional(size, markX18) == (Abs(size) * markX18) \div X18

Margin(size, markX18, ratioBps) == (Notional(size, markX18) * ratioBps) \div BPS

(***************************************************************************)
(* healthFactor: equity of this one market over its maintenance margin.    *)
(* The balance is the holder's whole vault balance.                        *)
(***************************************************************************)
HealthFactor(p, balance, markX18, mmRatioBps) ==
    LET mmX18     == Margin(p.size, markX18, mmRatioBps)
        equityX18 == balance * USDC_TO_X18 + UnrealisedPnl(p, markX18)
    IN  IF p.size = 0 \/ mmX18 = 0 THEN UINT_MAX
        ELSE IF equityX18 <= 0 THEN 0
        ELSE (equityX18 * X18) \div mmX18

\* SettlementEngine._toRawUsdcDelta and LiquidationEngine's int division.
ToRawUsdcDelta(deltaX18) == TruncDiv(deltaX18, USDC_TO_X18)

\* What the truncations of one fill can lose, in 1/X18 of a PnL unit.
FillDust(p, sizeDelta) ==
    2 * (X18 - 1) + X18 * (USDC_TO_X18 - 1)
        + (IF p.size # 0 /\ SameSide(p.size, sizeDelta) THEN Abs(p.size + sizeDelta) - 1 ELSE 0)

-----------------------------------------------------------------------------
VARIABLES
    registry,   \* contract storage
    wiring      \* which back-references were bound: "engines", "funding"

registryVars == <<registry, wiring, markets>>

Registry ==
    [positions : [Users -> [Markets -> PositionType]],
     userMarkets : [Users -> Seq(Markets)],
     indexPlusOne : [Users -> [Markets -> Nat]],
     marketIndexFunding : [Markets -> Int]]

EmptyRegistry ==
    [positions |-> [u \in Users |-> [m \in Markets |-> NoPosition]],
     userMarkets |-> [u \in Users |-> <<>>],
     indexPlusOne |-> [u \in Users |-> [m \in Markets |-> 0]],
     marketIndexFunding |-> [m \in Markets |-> 0]]

-----------------------------------------------------------------------------
(***************************************************************************)
(* _trackUserMarket and _untrackUserMarket on one user's list and index.   *)
(* Untracking moves the last market into the vacated slot and pops.        *)
(***************************************************************************)
TrackedList(list, index, m) == IF index[m] # 0 THEN list ELSE Append(list, m)

TrackedIndex(list, index, m) ==
    IF index[m] # 0 THEN index ELSE [index EXCEPT ![m] = Len(list) + 1]

UntrackedList(list, index, m) ==
    IF index[m] = 0 THEN list
    ELSE SubSeq([list EXCEPT ![index[m]] = list[Len(list)]], 1, Len(list) - 1)

\* Mutant: the market moved into the vacated slot keeps its old index.
UntrackedIndexNoMove(list, index, m) == [index EXCEPT ![m] = 0]

UntrackedIndex(list, index, m) ==
    IF index[m] = 0 THEN index
    ELSE [index EXCEPT ![list[Len(list)]] = index[m], ![m] = 0]

\* Track always, then untrack when the fill closed the position.
ListAfter(list, index, m, newSize) ==
    LET l == TrackedList(list, index, m)
        i == TrackedIndex(list, index, m)
    IN  IF newSize = 0 THEN UntrackedList(l, i, m) ELSE l

IndexAfter(list, index, m, newSize) ==
    LET l == TrackedList(list, index, m)
        i == TrackedIndex(list, index, m)
    IN  IF newSize = 0 THEN UntrackedIndex(l, i, m) ELSE i

\* applyFill's requirements on its arguments, besides the market's activity.
FillArgsOK(sizeDelta, priceX18) == sizeDelta # 0 /\ priceX18 > 0

\* The storage after applyFill.
Filled(r, u, m, sizeDelta, priceX18) ==
    LET p == FilledPosition(r.positions[u][m], r.marketIndexFunding[m], sizeDelta, priceX18)
    IN  [positions |-> [r.positions EXCEPT ![u][m] = p],
         userMarkets |-> [r.userMarkets EXCEPT ![u] =
                            ListAfter(@, r.indexPlusOne[u], m, p.size)],
         indexPlusOne |-> [r.indexPlusOne EXCEPT ![u] =
                            IndexAfter(r.userMarkets[u], @, m, p.size)],
         marketIndexFunding |-> r.marketIndexFunding]

\* applyFill's two return values.
FillRealised(r, u, m, sizeDelta, priceX18) ==
    RealisedPnl(r.positions[u][m], sizeDelta, priceX18)

FillFunding(r, u, m) == FundingCashflow(r.positions[u][m], r.marketIndexFunding[m])

\* The storage after updateFunding.
FundingUpdated(r, m, newIndex) ==
    [positions |-> r.positions,
     userMarkets |-> r.userMarkets,
     indexPlusOne |-> r.indexPlusOne,
     marketIndexFunding |-> [r.marketIndexFunding EXCEPT ![m] = newIndex]]

-----------------------------------------------------------------------------
SetWiring ==
    /\ "engines" \notin wiring
    /\ wiring' = wiring \cup {"engines"}
    /\ UNCHANGED <<registry, markets>>

SetFundingEngine ==
    /\ "funding" \notin wiring
    /\ wiring' = wiring \cup {"funding"}
    /\ UNCHANGED <<registry, markets>>

ApplyFill(u, m, sizeDelta, priceX18) ==
    /\ "engines" \in wiring
    /\ IsMarketActive(m)
    /\ FillArgsOK(sizeDelta, priceX18)
    /\ Abs(registry.positions[u][m].size + sizeDelta) <= MaxSize
    /\ registry' = Filled(registry, u, m, sizeDelta, priceX18)
    /\ UNCHANGED <<wiring, markets>>

\* The funding engine, or the owner, who may call before it is bound.
UpdateFunding(m, newIndex) ==
    /\ registry' = FundingUpdated(registry, m, newIndex)
    /\ UNCHANGED <<wiring, markets>>

Init ==
    /\ MarketsInit
    /\ registry = EmptyRegistry
    /\ wiring = {}

Next ==
    \/ SetWiring
    \/ SetFundingEngine
    \/ \E u \in Users, m \in Markets, d \in SizeDeltas, px \in FillPrices : ApplyFill(u, m, d, px)
    \/ \E m \in Markets, idx \in FundingIndexes : UpdateFunding(m, idx)
    \/ MarketsNext /\ UNCHANGED <<registry, wiring>>

Spec == Init /\ [][Next]_registryVars

-----------------------------------------------------------------------------
TypeOK ==
    /\ registry \in Registry
    /\ wiring \subseteq {"engines", "funding"}
    /\ MarketsTypeOK

(***************************************************************************)
(* isWithdrawSafe walks a user's market list and trusts it to be the open  *)
(* positions: a market missing from it is margin nobody asks for, a        *)
(* repeated one is margin asked twice.  The list is kept by swap-and-pop   *)
(* through an inverse map, so the exactness of the list rests on the map.  *)
(***************************************************************************)
IndexPointsAtMarket ==
    \A u \in Users, m \in Markets :
        LET i == registry.indexPlusOne[u][m]
        IN  i # 0 => i <= Len(registry.userMarkets[u]) /\ registry.userMarkets[u][i] = m

EntryIsIndexed ==
    \A u \in Users : \A i \in 1 .. Len(registry.userMarkets[u]) :
        registry.indexPlusOne[u][registry.userMarkets[u][i]] = i

TrackedIffOpen ==
    \A u \in Users, m \in Markets :
        registry.indexPlusOne[u][m] # 0 <=> registry.positions[u][m].size # 0

\* After any sequence of fills (applyFill with its track / swap-and-pop
\* untrack), each user's list names exactly the markets with a non-zero
\* position, each once, and the index map is its inverse.
MarketListExact == IndexPointsAtMarket /\ EntryIsIndexed /\ TrackedIffOpen

\* A flat position has no entry price and an open one has a positive entry,
\* however its entry was averaged, kept or replaced (_applyVwap and the
\* clean-up in applyFill): truncation never averages an entry down to zero.
EntryIffOpen ==
    \A u \in Users, m \in Markets :
        LET p == registry.positions[u][m]
        IN  IF p.size = 0 THEN p.entryPriceX18 = 0 ELSE p.entryPriceX18 > 0

(***************************************************************************)
(* A fill of size d at price px is worth d * (mark - px) at every mark,    *)
(* however applyFill splits it between realised PnL and the new entry      *)
(* price (open, add, reduce, close or flip); the only slack is one unit    *)
(* for each of the three truncating divisions and one unit of price per    *)
(* unit of size for the truncated average entry.                           *)
(***************************************************************************)
FillIsWorthItsPrice ==
    [][\A u \in Users, m \in Markets, d \in SizeDeltas, px \in FillPrices :
        ApplyFill(u, m, d, px) =>
            \A mark \in FillPrices :
                LET before   == UnrealisedPnl(registry.positions[u][m], mark)
                    after    == UnrealisedPnl(registry.positions[u][m], mark)'
                    realised == FillRealised(registry, u, m, d, px)
                    newSize  == registry.positions[u][m].size + d
                IN  Abs(X18 * (after + realised - before) - d * (mark - px))
                        < 3 * X18 + Abs(newSize)]_registryVars
=============================================================================
