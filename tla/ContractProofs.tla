--------------------------- MODULE ContractProofs ---------------------------
(***************************************************************************)
(* What two of the contracts promise whoever calls them, for every set of  *)
(* users, markets and accounts, every scale, amount, price and index.      *)
(*                                                                         *)
(* PositionRegistry keeps its types and its per-user market lists exact,   *)
(* and a fill is worth its price.  The inductive invariant is TypeOK /\    *)
(* MarketListExact; the list part is about one user at a time, so its step *)
(* is about one list, one index map and one predicate "is open": Exact.    *)
(*                                                                         *)
(* CollateralVault keeps its types (no balance, no total and no token      *)
(* balance goes negative) and holds the tokens totalDeposits counts.  That *)
(* is inductive as it stands: every call that takes tokens out of the      *)
(* vault takes the same amount out of totalDeposits, and the only call     *)
(* that moves a balance alone, applySettlement, moves neither.             *)
(***************************************************************************)
EXTENDS PositionRegistry, CollateralVault, TLAPS

\* MarketListExact for one user: `open` maps each market to BOOLEAN.
Exact(list, index, open) ==
    /\ \A m \in Markets : index[m] # 0 => index[m] <= Len(list) /\ list[index[m]] = m
    /\ \A i \in 1 .. Len(list) : index[list[i]] = i
    /\ \A m \in Markets : index[m] # 0 <=> open[m]

-----------------------------------------------------------------------------
(***************************************************************************)
(* _trackUserMarket keeps the list exact when the market becomes open.     *)
(***************************************************************************)
LEMMA TrackExact ==
    ASSUME NEW list \in Seq(Markets), NEW index \in [Markets -> Nat],
           NEW open \in [Markets -> BOOLEAN], NEW m \in Markets,
           Exact(list, index, open)
    PROVE  /\ TrackedList(list, index, m) \in Seq(Markets)
           /\ TrackedIndex(list, index, m) \in [Markets -> Nat]
           /\ Exact(TrackedList(list, index, m), TrackedIndex(list, index, m),
                    [open EXCEPT ![m] = TRUE])
<1> DEFINE l == TrackedList(list, index, m)
           x == TrackedIndex(list, index, m)
<1>1. CASE index[m] # 0
  BY <1>1 DEF TrackedList, TrackedIndex, Exact
<1>2. CASE index[m] = 0
  <2>1. l = Append(list, m) /\ x = [index EXCEPT ![m] = Len(list) + 1]
    BY <1>2 DEF TrackedList, TrackedIndex
  <2>2. l \in Seq(Markets) /\ x \in [Markets -> Nat] /\ Len(l) = Len(list) + 1
    BY <2>1
  <2>3. \A i \in 1 .. Len(list) : l[i] = list[i] /\ list[i] # m
    BY <2>1, <1>2 DEF Exact
  <2>4. l[Len(list) + 1] = m
    BY <2>1
  <2>5. ASSUME NEW k \in Markets, x[k] # 0
        PROVE  x[k] <= Len(l) /\ l[x[k]] = k
    BY <2>1, <2>2, <2>3, <2>4, <2>5, <1>2 DEF Exact
  <2>6. ASSUME NEW i \in 1 .. Len(l)
        PROVE  x[l[i]] = i
    <3>1. CASE i = Len(list) + 1
      BY <2>1, <2>4, <3>1
    <3>2. CASE i \in 1 .. Len(list)
      BY <2>1, <2>3, <3>2 DEF Exact
    <3>3. QED
      BY <3>1, <3>2, <2>2
  <2>7. ASSUME NEW k \in Markets
        PROVE  x[k] # 0 <=> [open EXCEPT ![m] = TRUE][k]
    BY <2>1, <2>2 DEF Exact
  <2>8. QED
    BY <2>2, <2>5, <2>6, <2>7 DEF Exact
<1>3. QED
  BY <1>1, <1>2

(***************************************************************************)
(* _untrackUserMarket, swap-and-pop included, keeps the list exact when a  *)
(* listed market is closed.                                                *)
(***************************************************************************)
LEMMA UntrackExact ==
    ASSUME NEW list \in Seq(Markets), NEW index \in [Markets -> Nat],
           NEW open \in [Markets -> BOOLEAN], NEW m \in Markets,
           Exact(list, index, open), index[m] # 0
    PROVE  /\ UntrackedList(list, index, m) \in Seq(Markets)
           /\ UntrackedIndex(list, index, m) \in [Markets -> Nat]
           /\ Exact(UntrackedList(list, index, m), UntrackedIndex(list, index, m),
                    [open EXCEPT ![m] = FALSE])
<1> DEFINE n    == Len(list)
           j    == index[m]
           last == list[n]
           l    == UntrackedList(list, index, m)
           x    == UntrackedIndex(list, index, m)
<1>1. n \in Nat /\ j \in 1 .. n /\ list[j] = m /\ last \in Markets
  BY DEF Exact
<1>2. [list EXCEPT ![j] = last] \in Seq(Markets) /\ Len([list EXCEPT ![j] = last]) = n
  BY <1>1
<1>3. /\ l \in Seq(Markets)
      /\ Len(l) = n - 1
      /\ \A i \in 1 .. n - 1 : l[i] = IF i = j THEN last ELSE list[i]
  BY <1>1, <1>2 DEF UntrackedList
<1>4. /\ x \in [Markets -> Nat]
      /\ \A k \in Markets : x[k] = IF k = m THEN 0 ELSE IF k = last THEN j ELSE index[k]
  BY <1>1, Zenon DEF UntrackedIndex
<1>5. index[last] = n
  BY <1>1 DEF Exact
<1>6. ASSUME NEW k \in Markets, x[k] # 0
      PROVE  x[k] <= n - 1 /\ l[x[k]] = k
  <2>1. k # m
    BY <1>4, <1>6
  <2>2. CASE k = last
    <3>1. x[k] = j /\ j # n
      BY <1>1, <1>4, <2>1, <2>2
    <3>2. j \in 1 .. n - 1
      BY <1>1, <3>1
    <3>3. l[j] = last
      BY <1>3, <3>2, Zenon
    <3>4. QED
      BY <2>2, <3>1, <3>2, <3>3
  <2>3. CASE k # last
    <3>1. x[k] = index[k] /\ index[k] \in 1 .. n /\ list[index[k]] = k
      BY <1>4, <1>6, <2>1, <2>3 DEF Exact
    <3>2. index[k] # n /\ index[k] # j
      BY <1>1, <3>1, <2>1, <2>3
    <3>3. index[k] \in 1 .. n - 1
      BY <1>1, <3>1, <3>2
    <3>4. l[index[k]] = list[index[k]]
      BY <1>3, <3>2, <3>3, Zenon
    <3>5. QED
      BY <3>1, <3>3, <3>4
  <2>4. QED
    BY <2>2, <2>3
<1>7. ASSUME NEW i \in 1 .. n - 1
      PROVE  x[l[i]] = i
  <2>1. CASE i = j
    <3>1. l[i] = last
      BY <1>3, <2>1, Zenon
    <3>2. last # m
      BY <1>1, <1>5, <2>1
    <3>3. QED
      BY <1>1, <1>4, <3>1, <3>2, <2>1, Zenon
  <2>2. CASE i # j
    <3>1. l[i] = list[i] /\ list[i] \in Markets /\ index[list[i]] = i
      BY <1>1, <1>3, <2>2 DEF Exact
    <3>2. list[i] # m /\ list[i] # last
      BY <1>1, <1>5, <3>1, <2>2
    <3>3. QED
      BY <1>4, <3>1, <3>2, Zenon
  <2>3. QED
    BY <2>1, <2>2
<1>8. ASSUME NEW k \in Markets
      PROVE  x[k] # 0 <=> [open EXCEPT ![m] = FALSE][k]
  BY <1>1, <1>4, <1>5 DEF Exact
<1>9. QED
  BY <1>3, <1>4, <1>6, <1>7, <1>8 DEF Exact

-----------------------------------------------------------------------------
(***************************************************************************)
(* A fill of a known position type yields a position of that type: the     *)
(* averaged entry is a natural number because the divisor is the non-zero  *)
(* new size.                                                               *)
(***************************************************************************)
LEMMA FilledPositionType ==
    ASSUME NEW p \in PositionType, NEW idx \in Int, NEW d \in Int, NEW px \in Nat
    PROVE  /\ FilledPosition(p, idx, d, px) \in PositionType
           /\ FilledPosition(p, idx, d, px).size = p.size + d
<1>1. ASSUME p.size + d # 0
      PROVE  VwapEntry(p, d, px) \in Nat
  <2> DEFINE s == Abs(p.size) * p.entryPriceX18 + Abs(d) * px
             n == Abs(p.size + d)
  <2>1. s \in Nat /\ n \in Nat \ {0}
    BY <1>1 DEF PositionType, Abs
  <2> HIDE DEF s, n
  <2>2. s \div n \in Nat
    BY <2>1
  <2>3. QED
    BY <2>2 DEF s, n, VwapEntry, PositionType
<1>2. QED
  BY <1>1 DEF FilledPosition, PositionType

\* MarketListExact says Exact of every user's list.
LEMMA ExactPerUser ==
    ASSUME registry \in Registry
    PROVE  MarketListExact <=>
             \A u \in Users :
                Exact(registry.userMarkets[u], registry.indexPlusOne[u],
                      [m \in Markets |-> registry.positions[u][m].size # 0])
BY Zenon DEF MarketListExact, IndexPointsAtMarket, EntryIsIndexed, TrackedIffOpen, Exact, Registry

(***************************************************************************)
(* The list and the index after applyFill: exact again for the new size.   *)
(***************************************************************************)
LEMMA ListAfterExact ==
    ASSUME NEW list \in Seq(Markets), NEW index \in [Markets -> Nat],
           NEW open \in [Markets -> BOOLEAN], NEW m \in Markets, NEW newSize \in Int,
           Exact(list, index, open)
    PROVE  /\ ListAfter(list, index, m, newSize) \in Seq(Markets)
           /\ IndexAfter(list, index, m, newSize) \in [Markets -> Nat]
           /\ Exact(ListAfter(list, index, m, newSize), IndexAfter(list, index, m, newSize),
                    [open EXCEPT ![m] = (newSize # 0)])
<1> DEFINE l == TrackedList(list, index, m)
           x == TrackedIndex(list, index, m)
           o == [open EXCEPT ![m] = TRUE]
<1>1. l \in Seq(Markets) /\ x \in [Markets -> Nat] /\ o \in [Markets -> BOOLEAN] /\ Exact(l, x, o)
  BY TrackExact, Zenon
<1>2. CASE newSize # 0
  BY <1>1, <1>2, Zenon DEF ListAfter, IndexAfter
<1>3. CASE newSize = 0
  <2>1. x[m] # 0
    BY <1>1 DEF Exact
  <2>2. /\ UntrackedList(l, x, m) \in Seq(Markets)
        /\ UntrackedIndex(l, x, m) \in [Markets -> Nat]
        /\ Exact(UntrackedList(l, x, m), UntrackedIndex(l, x, m), [o EXCEPT ![m] = FALSE])
    <3> HIDE DEF l, x, o
    <3> QED
      BY <1>1, <2>1, UntrackExact, Zenon
  <2>3. [o EXCEPT ![m] = FALSE] = [open EXCEPT ![m] = (newSize # 0)]
    BY <1>3
  <2>4. QED
    BY <2>2, <2>3, <1>3 DEF ListAfter, IndexAfter
<1>4. QED
  BY <1>2, <1>3

-----------------------------------------------------------------------------
\* The registry's types and lists as a predicate of its storage, for
\* transactions that make several calls.
RegistryOK(r) ==
    /\ r \in Registry
    /\ \A u \in Users : Exact(r.userMarkets[u], r.indexPlusOne[u],
                              [m \in Markets |-> r.positions[u][m].size # 0])

\* For the contract's own storage it is the invariant below.
LEMMA RegistryOKIsInvariant ==
    /\ TypeOK /\ MarketListExact => RegistryOK(registry)
    /\ RegistryOK(registry) => registry \in Registry /\ MarketListExact
BY ExactPerUser, Zenon DEF RegistryOK, TypeOK

(***************************************************************************)
(* applyFill keeps the storage well-formed: the touched user's list by     *)
(* ListAfterExact, every other user's because it is unchanged.             *)
(***************************************************************************)
LEMMA FilledOK ==
    ASSUME NEW r, RegistryOK(r),
           NEW u \in Users, NEW m \in Markets, NEW d \in Int, NEW px \in Nat
    PROVE  RegistryOK(Filled(r, u, m, d, px))
<1> DEFINE p  == FilledPosition(r.positions[u][m], r.marketIndexFunding[m], d, px)
           L  == ListAfter(r.userMarkets[u], r.indexPlusOne[u], m, p.size)
           X  == IndexAfter(r.userMarkets[u], r.indexPlusOne[u], m, p.size)
           open(v) == [k \in Markets |-> r.positions[v][k].size # 0]
           f  == Filled(r, u, m, d, px)
<1>1. p \in PositionType
  BY FilledPositionType DEF RegistryOK, Registry
<1>2. /\ L \in Seq(Markets)
      /\ X \in [Markets -> Nat]
      /\ Exact(L, X, [open(u) EXCEPT ![m] = (p.size # 0)])
  <2>1. /\ r.userMarkets[u] \in Seq(Markets)
        /\ r.indexPlusOne[u] \in [Markets -> Nat]
        /\ open(u) \in [Markets -> BOOLEAN]
        /\ p.size \in Int
    BY <1>1, Zenon DEF RegistryOK, Registry, PositionType
  <2>2. Exact(r.userMarkets[u], r.indexPlusOne[u], open(u))
    BY DEF RegistryOK
  <2> HIDE DEF p, open
  <2>3. QED
    BY <2>1, <2>2, ListAfterExact, Zenon
<1>3. f = [positions |-> [r.positions EXCEPT ![u][m] = p],
           userMarkets |-> [r.userMarkets EXCEPT ![u] = L],
           indexPlusOne |-> [r.indexPlusOne EXCEPT ![u] = X],
           marketIndexFunding |-> r.marketIndexFunding]
  BY DEF Filled
<1> HIDE DEF p, L, X, f
<1>4. f \in Registry
  BY <1>1, <1>2, <1>3, Zenon DEF RegistryOK, Registry
<1>5. ASSUME NEW v \in Users
      PROVE  Exact(f.userMarkets[v], f.indexPlusOne[v], [k \in Markets |-> f.positions[v][k].size # 0])
  <2>1. CASE v = u
    <3>1. f.userMarkets[v] = L /\ f.indexPlusOne[v] = X
      BY <1>3, <2>1 DEF RegistryOK, Registry
    <3>2. [k \in Markets |-> f.positions[v][k].size # 0] = [open(u) EXCEPT ![m] = (p.size # 0)]
      BY <1>1, <1>3, <2>1, Zenon DEF RegistryOK, Registry
    <3>3. QED
      BY <1>2, <3>1, <3>2
  <2>2. CASE v # u
    <3>1. /\ f.userMarkets[v] = r.userMarkets[v]
          /\ f.indexPlusOne[v] = r.indexPlusOne[v]
          /\ f.positions[v] = r.positions[v]
      BY <1>3, <2>2 DEF RegistryOK, Registry
    <3>2. QED
      BY <3>1 DEF RegistryOK
  <2>3. QED
    BY <2>1, <2>2
<1>6. QED
  BY <1>4, <1>5, Zenon DEF RegistryOK, f

\* applyFill as an action preserves the invariant.
LEMMA ApplyFillStep ==
    ASSUME TypeOK, MarketListExact,
           NEW u \in Users, NEW m \in Markets, NEW d \in SizeDeltas, NEW px \in FillPrices,
           ApplyFill(u, m, d, px)
    PROVE  TypeOK' /\ MarketListExact'
<1>1. d \in Int /\ px \in Nat
  BY RegistryAssumption
<1>2. RegistryOK(registry)
  BY RegistryOKIsInvariant
<1>3. RegistryOK(registry')
  BY <1>1, <1>2, FilledOK DEF ApplyFill
<1>4. TypeOK'
  BY <1>3 DEF RegistryOK, ApplyFill, TypeOK, MarketsTypeOK
<1>5. MarketListExact'
  <2>1. IndexPointsAtMarket'
    BY <1>3, Zenon DEF RegistryOK, Exact, IndexPointsAtMarket
  <2>2. EntryIsIndexed'
    BY <1>3, Zenon DEF RegistryOK, Exact, EntryIsIndexed
  <2>3. TrackedIffOpen'
    BY <1>3, Zenon DEF RegistryOK, Exact, TrackedIffOpen
  <2>4. QED
    BY <2>1, <2>2, <2>3 DEF MarketListExact
<1>6. QED
  BY <1>4, <1>5

\* updateFunding touches no list and no position.
LEMMA UpdateFundingStep ==
    ASSUME TypeOK, MarketListExact, NEW m \in Markets, NEW idx \in FundingIndexes,
           UpdateFunding(m, idx)
    PROVE  TypeOK' /\ MarketListExact'
<1>1. /\ registry'.positions = registry.positions
      /\ registry'.userMarkets = registry.userMarkets
      /\ registry'.indexPlusOne = registry.indexPlusOne
      /\ registry'.marketIndexFunding = [registry.marketIndexFunding EXCEPT ![m] = idx]
  BY DEF UpdateFunding, FundingUpdated
<1>2. registry' \in Registry
  BY RegistryAssumption DEF UpdateFunding, FundingUpdated, TypeOK, Registry
<1>3. TypeOK'
  BY <1>2 DEF UpdateFunding, TypeOK, MarketsTypeOK
<1>4. MarketListExact'
  BY <1>1 DEF MarketListExact, IndexPointsAtMarket, EntryIsIndexed, TrackedIffOpen
<1>5. QED
  BY <1>3, <1>4

\* The owner's market calls store parameters.
LEMMA MarketsTyped ==
    ASSUME MarketsTypeOK, MarketsNext
    PROVE  MarketsTypeOK'
<1>1. PICK m \in Markets :
          \/ \E params \in ParamChoices : ListMarket(m, params) \/ UpdateMarket(m, params)
          \/ DeactivateMarket(m)
  BY DEF MarketsNext
<1>2. CASE \E params \in ParamChoices : ListMarket(m, params) \/ UpdateMarket(m, params)
  BY <1>2, MarketAssumption DEF ListMarket, UpdateMarket, MarketsTypeOK
<1>3. CASE DeactivateMarket(m)
  BY <1>3, Zenon DEF DeactivateMarket, MarketsTypeOK, IsListed, MarketParams
<1>4. QED
  BY <1>1, <1>2, <1>3

\* They leave the registry alone.
LEMMA MarketsStep ==
    ASSUME TypeOK, MarketListExact, MarketsNext, UNCHANGED <<registry, wiring>>
    PROVE  TypeOK' /\ MarketListExact'
BY MarketsTyped, Zenon DEF TypeOK, MarketListExact, IndexPointsAtMarket, EntryIsIndexed, TrackedIffOpen

-----------------------------------------------------------------------------
(***************************************************************************)
(* Whatever fills, funding updates and listings happen, and in whatever    *)
(* order: the registry keeps its types, and every user's market list is    *)
(* exactly the user's open positions, each once, inverted by the index map *)
(* (applyFill with _trackUserMarket and _untrackUserMarket).               *)
(***************************************************************************)
THEOREM RegistryListsExact == Spec => [](TypeOK /\ MarketListExact)
<1>1. Init => TypeOK /\ MarketListExact
  BY DEF Init, MarketsInit, EmptyRegistry, NoPosition, TypeOK, MarketsTypeOK, Registry,
     PositionType, MarketListExact, IndexPointsAtMarket, EntryIsIndexed, TrackedIffOpen
<1>2. TypeOK /\ MarketListExact /\ [Next]_registryVars => TypeOK' /\ MarketListExact'
  <2> SUFFICES ASSUME TypeOK, MarketListExact, [Next]_registryVars
               PROVE  TypeOK' /\ MarketListExact'
    OBVIOUS
  <2>1. CASE SetWiring \/ SetFundingEngine
    <3>1. UNCHANGED <<registry, markets>>
      BY <2>1 DEF SetWiring, SetFundingEngine
    <3>2. TypeOK'
      BY <2>1, <3>1, Zenon DEF SetWiring, SetFundingEngine, TypeOK, MarketsTypeOK
    <3>3. MarketListExact'
      BY <3>1, Zenon DEF MarketListExact, IndexPointsAtMarket, EntryIsIndexed, TrackedIffOpen
    <3>4. QED
      BY <3>2, <3>3
  <2>2. CASE \E u \in Users, m \in Markets, d \in SizeDeltas, px \in FillPrices :
                ApplyFill(u, m, d, px)
    BY <2>2, ApplyFillStep
  <2>3. CASE \E m \in Markets, idx \in FundingIndexes : UpdateFunding(m, idx)
    BY <2>3, UpdateFundingStep
  <2>4. CASE MarketsNext /\ UNCHANGED <<registry, wiring>>
    BY <2>4, MarketsStep
  <2>5. CASE UNCHANGED registryVars
    <3>1. TypeOK'
      BY <2>5 DEF registryVars, TypeOK, MarketsTypeOK
    <3>2. MarketListExact'
      BY <2>5, Zenon DEF registryVars, MarketListExact, IndexPointsAtMarket, EntryIsIndexed, TrackedIffOpen
    <3>3. QED
      BY <3>1, <3>2
  <2>6. QED
    BY <2>1, <2>2, <2>3, <2>4, <2>5 DEF Next
<1>3. QED
  BY <1>1, <1>2, PTL DEF Spec

-----------------------------------------------------------------------------
(***************************************************************************)
(* The truncated average of two positive prices is positive: the weighted  *)
(* sum is at least the sum of the weights.                                 *)
(***************************************************************************)
LEMMA AveragePositive ==
    ASSUME NEW a \in Nat \ {0}, NEW b \in Nat \ {0}, NEW e \in Nat \ {0}, NEW q \in Nat \ {0}
    PROVE  (a * e + b * q) \div (a + b) > 0
<1>1. a * e >= a /\ b * q >= b
  OBVIOUS
<1> DEFINE s == a * e + b * q
           n == a + b
<1>2. s \in Nat /\ n \in Nat \ {0} /\ s >= n
  BY <1>1
<1> HIDE DEF s, n
<1>3. s \div n > 0
  BY <1>2
<1>4. QED
  BY <1>3 DEF s, n

\* One position keeps "entry positive iff open" across a fill (_applyVwap).
LEMMA FilledEntry ==
    ASSUME NEW p \in PositionType, NEW idx \in Int, NEW d \in Int, NEW px \in Nat,
           FillArgsOK(d, px),
           p.size # 0 => p.entryPriceX18 > 0
    PROVE  LET f == FilledPosition(p, idx, d, px)
           IN  IF f.size = 0 THEN f.entryPriceX18 = 0 ELSE f.entryPriceX18 > 0
<1>1. CASE p.size + d = 0
  BY <1>1 DEF FilledPosition
<1>2. CASE p.size + d # 0
  <2>1. FilledPosition(p, idx, d, px).entryPriceX18 = VwapEntry(p, d, px)
    BY <1>2 DEF FilledPosition
  <2>2. CASE p.size # 0 /\ SameSide(p.size, d)
    <3>1. /\ Abs(p.size) \in Nat \ {0}
          /\ Abs(d) \in Nat \ {0}
          /\ Abs(p.size + d) = Abs(p.size) + Abs(d)
      BY <2>2 DEF PositionType, FillArgsOK, SameSide, Abs
    <3>2. VwapEntry(p, d, px) =
            (Abs(p.size) * p.entryPriceX18 + Abs(d) * px) \div (Abs(p.size) + Abs(d))
      BY <2>2, <3>1 DEF VwapEntry
    <3>3. p.entryPriceX18 \in Nat \ {0} /\ px \in Nat \ {0}
      BY <2>2 DEF PositionType, FillArgsOK
    <3>4. QED
      BY <1>2, <2>1, <3>1, <3>2, <3>3, AveragePositive, Zenon DEF FilledPosition
  <2>3. CASE ~(p.size # 0 /\ SameSide(p.size, d))
    BY <1>2, <2>1, <2>3 DEF VwapEntry, FilledPosition, FillArgsOK
  <2>4. QED
    BY <2>2, <2>3
<1>3. QED
  BY <1>1, <1>2

(***************************************************************************)
(* A flat position stores no entry price and an open one a positive entry, *)
(* for every scale: truncation in the size-weighted average (applyFill,    *)
(* _applyVwap) never loses the price.                                      *)
(***************************************************************************)
THEOREM RegistryEntries == Spec => []EntryIffOpen
<1>1. Init => EntryIffOpen
  BY DEF Init, EmptyRegistry, NoPosition, EntryIffOpen
<1>2. TypeOK /\ EntryIffOpen /\ [Next]_registryVars => EntryIffOpen'
  <2> SUFFICES ASSUME TypeOK, EntryIffOpen, [Next]_registryVars
               PROVE  EntryIffOpen'
    OBVIOUS
  <2>1. ASSUME NEW u \in Users, NEW m \in Markets, NEW d \in SizeDeltas, NEW px \in FillPrices,
               ApplyFill(u, m, d, px)
        PROVE  EntryIffOpen'
    <3> DEFINE p == FilledPosition(registry.positions[u][m], registry.marketIndexFunding[m], d, px)
    <3>1. IF p.size = 0 THEN p.entryPriceX18 = 0 ELSE p.entryPriceX18 > 0
      <4>1. /\ registry.positions[u][m] \in PositionType
            /\ registry.marketIndexFunding[m] \in Int
            /\ d \in Int /\ px \in Nat
            /\ FillArgsOK(d, px)
        BY <2>1, RegistryAssumption DEF TypeOK, Registry, ApplyFill
      <4>2. registry.positions[u][m].size # 0 => registry.positions[u][m].entryPriceX18 > 0
        BY Zenon DEF EntryIffOpen
      <4>3. QED
        BY <4>1, <4>2, FilledEntry, Zenon
    <3>2. registry'.positions = [registry.positions EXCEPT ![u][m] = p]
      BY <2>1, Zenon DEF ApplyFill, Filled
    <3> HIDE DEF p
    <3>3. QED
      BY <3>1, <3>2 DEF EntryIffOpen, TypeOK, Registry
  <2>2. CASE registry'.positions = registry.positions
    BY <2>2, Zenon DEF EntryIffOpen
  <2>3. QED
    BY <2>1, <2>2 DEF Next, registryVars, SetWiring, SetFundingEngine, UpdateFunding, FundingUpdated
<1>3. QED
  BY <1>1, <1>2, RegistryListsExact, PTL DEF Spec
-----------------------------------------------------------------------------
(***************************************************************************)
(* What a truncating division loses: less than one divisor.                *)
(***************************************************************************)
LEMMA TruncDivLoss ==
    ASSUME NEW a \in Int, NEW b \in Nat \ {0}
    PROVE  /\ TruncDiv(a, b) \in Int
           /\ b * TruncDiv(a, b) - a \in -(b - 1) .. (b - 1)
<1>1. ASSUME NEW n \in Nat
      PROVE  n \div b \in Nat /\ n - b * (n \div b) \in 0 .. (b - 1)
  OBVIOUS
<1>2. CASE a >= 0
  BY <1>1, <1>2 DEF TruncDiv
<1>3. CASE a < 0
  <2> DEFINE q == (-a) \div b
  <2>1. q \in Nat /\ (-a) - b * q \in 0 .. (b - 1)
    BY <1>1, <1>3
  <2>2. TruncDiv(a, b) = -q
    BY <1>3 DEF TruncDiv
  <2> HIDE DEF q
  <2>3. b * (-q) = -(b * q)
    BY <2>1
  <2>4. QED
    BY <2>1, <2>2, <2>3
<1>4. QED
  BY <1>2, <1>3

\* What a fill turns into, at mark zero: the closed part at its price, minus
\* the new position at its entry, plus the old one at its own, plus what was
\* paid for the fill.
FillResidue(p, idx, d, px) ==
    LET f == FilledPosition(p, idx, d, px)
    IN  ClosedSize(p, d) * (px - p.entryPriceX18) - f.size * f.entryPriceX18
            + p.size * p.entryPriceX18 + d * px

(***************************************************************************)
(* Nothing is left over when a fill opens, reduces, closes or flips; an    *)
(* add truncates the average entry and leaves less than one unit of price  *)
(* per unit of the new size (_applyVwap).                                  *)
(***************************************************************************)
LEMMA FillResidueBound ==
    ASSUME NEW p \in PositionType, NEW idx \in Int, NEW d \in Int \ {0}, NEW px \in Nat
    PROVE  LET R == FillResidue(p, idx, d, px)
               n == Abs(p.size + d)
           IN  IF p.size # 0 /\ SameSide(p.size, d) THEN n > 0 /\ R \in -(n - 1) .. (n - 1)
               ELSE R = 0
<1> DEFINE R == FillResidue(p, idx, d, px)
           s == p.size
           e == p.entryPriceX18
           n == s + d
<1>1. s \in Int /\ e \in Nat /\ n \in Int
  BY DEF PositionType
<1>2. CASE s # 0 /\ SameSide(s, d)
  <2> DEFINE a == Abs(s) * e + Abs(d) * px
             q == a \div Abs(n)
  <2>1. /\ Abs(s) \in Nat /\ Abs(d) \in Nat /\ Abs(n) \in Nat \ {0}
        /\ n # 0 /\ a \in Nat
    BY <1>1, <1>2 DEF SameSide, Abs
  <2>2. q \in Nat /\ a - Abs(n) * q \in 0 .. (Abs(n) - 1)
    <3> HIDE DEF a, n
    <3>1. QED
      BY <2>1
  <2>3. R = -n * q + s * e + d * px
    BY <1>1, <1>2, <2>1 DEF FillResidue, FilledPosition, VwapEntry, ClosedSize
  <2> HIDE DEF q
  <2>4. CASE s > 0
    <3>1. Abs(s) = s /\ Abs(d) = d /\ Abs(n) = n
      BY <1>1, <1>2, <2>4 DEF SameSide, Abs
    <3>2. -n * q = -(n * q) /\ n * q \in Int /\ s * e \in Int /\ d * px \in Int
      BY <1>1, <2>2
    <3>3. QED
      BY <1>1, <1>2, <2>1, <2>2, <2>3, <3>1, <3>2
  <2>5. CASE s < 0
    <3>1. Abs(s) = -s /\ Abs(d) = -d /\ Abs(n) = -n
      BY <1>1, <1>2, <2>5 DEF SameSide, Abs
    <3>2. (-s) * e = -(s * e) /\ (-d) * px = -(d * px) /\ (-n) * q = -(n * q)
      BY <1>1, <2>2
    <3>3. n * q \in Int /\ s * e \in Int /\ d * px \in Int
      BY <1>1, <2>2
    <3>4. QED
      BY <1>1, <1>2, <2>1, <2>2, <2>3, <3>1, <3>2, <3>3
  <2>6. QED
    BY <1>1, <1>2, <2>4, <2>5
<1>3. CASE ~(s # 0 /\ SameSide(s, d))
  <2>1. CASE s = 0
    <3>1. n = d /\ ClosedSize(p, d) = 0
      BY <1>1, <2>1 DEF ClosedSize
    <3>2. R = 0 * (px - e) - n * px + s * e + d * px
      BY <1>1, <1>3, <2>1, <3>1 DEF FillResidue, FilledPosition, VwapEntry
    <3>3. d * px \in Int /\ 0 * (px - e) = 0 /\ s * e = 0
      BY <1>1, <2>1
    <3>4. R = 0
      BY <3>1, <3>2, <3>3
    <3>5. QED
      BY <1>3, <3>4
  <2>2. CASE s # 0 /\ n = 0
    <3>1. ClosedSize(p, d) = s
      BY <1>1, <1>3, <2>2 DEF ClosedSize, SameSide, Abs
    <3>2. R = s * (px - e) - 0 + s * e + d * px
      BY <3>1, <2>2 DEF FillResidue, FilledPosition
    <3>3. d = -s
      <4>1. s \in Int /\ d \in Int /\ s + d = 0
        BY <1>1, <2>2
      <4> HIDE DEF s
      <4>2. QED
        BY <4>1
    <3>4. s * (px - e) = s * px - s * e /\ (-s) * px = -(s * px)
      BY <1>1
    <3>5. s * px \in Int /\ s * e \in Int
      BY <1>1
    <3>6. R = 0
      BY <3>2, <3>3, <3>4, <3>5
    <3>7. QED
      BY <1>3, <3>6
  <2>3. CASE s # 0 /\ n # 0 /\ SameSide(s, n)
    <3>1. ClosedSize(p, d) = -d
      BY <1>1, <1>3, <2>3 DEF ClosedSize, SameSide, Abs
    <3>2. R = (-d) * (px - e) - n * e + s * e + d * px
      BY <1>3, <3>1, <2>3 DEF FillResidue, FilledPosition, VwapEntry
    <3>3. QED
      BY <1>1, <1>3, <2>3, <3>2
  <2>4. CASE s # 0 /\ n # 0 /\ ~SameSide(s, n)
    <3>1. ClosedSize(p, d) = s
      BY <1>1, <1>3, <2>4 DEF ClosedSize, SameSide, Abs
    <3>2. R = s * (px - e) - n * px + s * e + d * px
      BY <1>3, <3>1, <2>4 DEF FillResidue, FilledPosition, VwapEntry
    <3>3. QED
      BY <1>1, <1>3, <2>4, <3>2
  <2>5. QED
    BY <2>1, <2>2, <2>3, <2>4
<1>4. QED
  BY <1>2, <1>3

\* One fill, between two marks of one position: the identity behind
\* FillIsWorthItsPrice, with each truncation's loss named.
LEMMA FillWorth ==
    ASSUME NEW p \in PositionType, NEW idx \in Int, NEW d \in Int \ {0}, NEW px \in Nat,
           NEW mark \in Nat
    PROVE  LET after    == UnrealisedPnl(FilledPosition(p, idx, d, px), mark)
               before   == UnrealisedPnl(p, mark)
               realised == RealisedPnl(p, d, px)
           IN  Abs(X18 * (after + realised - before) - d * (mark - px)) < 3 * X18 + Abs(p.size + d)
<1> DEFINE f  == FilledPosition(p, idx, d, px)
           s  == p.size
           e  == p.entryPriceX18
           n  == s + d
           E  == f.entryPriceX18
           c  == ClosedSize(p, d)
           A  == TruncDiv(n * (mark - E), X18)
           B  == TruncDiv(s * (mark - e), X18)
           C  == TruncDiv(c * (px - e), X18)
           R  == FillResidue(p, idx, d, px)
<1>1. s \in Int /\ e \in Nat /\ n \in Int /\ E \in Nat /\ f.size = n
  BY FilledPositionType DEF PositionType
<1>2. c \in Int
  BY <1>1 DEF ClosedSize
<1>3. X18 \in Nat \ {0}
  BY ScaleAssumption
<1>4. R \in -Abs(n) .. Abs(n) /\ Abs(n) \in Nat
  <2>1. Abs(n) \in Nat
    BY <1>1 DEF Abs
  <2>2. IF s # 0 /\ SameSide(s, d) THEN Abs(n) > 0 /\ R \in -(Abs(n) - 1) .. (Abs(n) - 1)
        ELSE R = 0
    BY FillResidueBound, Zenon
  <2> HIDE DEF R, n
  <2>3. QED
    BY <2>1, <2>2
<1>5. R = c * (px - e) - n * E + s * e + d * px
  BY <1>1 DEF FillResidue
<1>6. /\ UnrealisedPnl(f, mark) = A
      /\ UnrealisedPnl(p, mark) = B
      /\ RealisedPnl(p, d, px) = C
  BY <1>1 DEF UnrealisedPnl, RealisedPnl
<1> HIDE DEF R, c, E
<1>7. A \in Int /\ X18 * A - n * (mark - E) \in -(X18 - 1) .. (X18 - 1)
  <2>1. n * (mark - E) \in Int
    BY <1>1
  <2>2. QED
    BY <1>3, <2>1, TruncDivLoss
<1>8. B \in Int /\ X18 * B - s * (mark - e) \in -(X18 - 1) .. (X18 - 1)
  <2>1. s * (mark - e) \in Int
    BY <1>1
  <2>2. QED
    BY <1>3, <2>1, TruncDivLoss
<1>9. C \in Int /\ X18 * C - c * (px - e) \in -(X18 - 1) .. (X18 - 1)
  <2>1. c * (px - e) \in Int
    BY <1>1, <1>2
  <2>2. QED
    BY <1>3, <2>1, TruncDivLoss
<1> HIDE DEF A, B, C
<1>10. X18 * (A + C - B) = X18 * A + X18 * C - X18 * B
  BY <1>3, <1>7, <1>8, <1>9
<1>11. n * (mark - E) + c * (px - e) - s * (mark - e) - d * (mark - px) = R
  <2>1. /\ n * (mark - E) = s * mark + d * mark - n * E
        /\ s * (mark - e) = s * mark - s * e
        /\ d * (mark - px) = d * mark - d * px
    BY <1>1
  <2>2. s * mark \in Int /\ d * mark \in Int /\ n * E \in Int /\ s * e \in Int /\ d * px \in Int
        /\ c * (px - e) \in Int
    BY <1>1, <1>2
  <2>3. QED
    BY <1>5, <2>1, <2>2
<1>12. Abs(X18 * (A + C - B) - d * (mark - px)) < 3 * X18 + Abs(n)
  <2> DEFINE a == X18 * A - n * (mark - E)
             b == X18 * B - s * (mark - e)
             g == X18 * C - c * (px - e)
  <2>1. a \in -(X18 - 1) .. (X18 - 1) /\ b \in -(X18 - 1) .. (X18 - 1) /\ g \in -(X18 - 1) .. (X18 - 1)
    BY <1>7, <1>8, <1>9
  <2>2. /\ X18 * A \in Int /\ X18 * B \in Int /\ X18 * C \in Int
        /\ n * (mark - E) \in Int /\ s * (mark - e) \in Int /\ c * (px - e) \in Int /\ d * (mark - px) \in Int
    BY <1>1, <1>2, <1>3, <1>7, <1>8, <1>9
  <2>3. X18 * (A + C - B) - d * (mark - px) = a + g - b + R
    BY <1>10, <1>11, <2>2
  <2> HIDE DEF a, b, g, n
  <2>4. QED
    BY <1>3, <1>4, <2>1, <2>3 DEF Abs
<1>13. QED
  BY <1>6, <1>12

(***************************************************************************)
(* For every scale, size and price, and however the fill is split between  *)
(* realised PnL and the new entry (applyFill, _applyVwap): a fill is worth *)
(* its price at every mark, up to the truncations.  The argument is the    *)
(* identity FillWorth, from the types alone.                               *)
(***************************************************************************)
THEOREM FillsAreWorthTheirPrice == Spec => FillIsWorthItsPrice
<1>1. TypeOK /\ [Next]_registryVars =>
        [\A u \in Users, m \in Markets, d \in SizeDeltas, px \in FillPrices :
            ApplyFill(u, m, d, px) =>
                \A mark \in FillPrices :
                    LET before   == UnrealisedPnl(registry.positions[u][m], mark)
                        after    == UnrealisedPnl(registry.positions[u][m], mark)'
                        realised == FillRealised(registry, u, m, d, px)
                        newSize  == registry.positions[u][m].size + d
                    IN  Abs(X18 * (after + realised - before) - d * (mark - px))
                            < 3 * X18 + Abs(newSize)]_registryVars
  <2> SUFFICES ASSUME TypeOK,
                      NEW u \in Users, NEW m \in Markets, NEW d \in SizeDeltas, NEW px \in FillPrices,
                      ApplyFill(u, m, d, px),
                      NEW mark \in FillPrices
               PROVE  LET before   == UnrealisedPnl(registry.positions[u][m], mark)
                          after    == UnrealisedPnl(registry.positions[u][m], mark)'
                          realised == FillRealised(registry, u, m, d, px)
                          newSize  == registry.positions[u][m].size + d
                      IN  Abs(X18 * (after + realised - before) - d * (mark - px))
                              < 3 * X18 + Abs(newSize)
    BY Zenon
  <2> DEFINE p == registry.positions[u][m]
             idx == registry.marketIndexFunding[m]
  <2>1. p \in PositionType /\ idx \in Int /\ d \in Int \ {0} /\ px \in Nat /\ mark \in Nat
    BY RegistryAssumption DEF TypeOK, Registry, ApplyFill, FillArgsOK
  <2>2. registry'.positions[u][m] = FilledPosition(p, idx, d, px)
    BY DEF ApplyFill, Filled, TypeOK, Registry
  <2>3. UnrealisedPnl(registry.positions[u][m], mark)' = UnrealisedPnl(FilledPosition(p, idx, d, px), mark)
    BY <2>2 DEF UnrealisedPnl
  <2>4. QED
    BY <2>1, <2>3, FillWorth, Zenon DEF FillRealised
<1>2. QED
  BY <1>1, RegistryListsExact, PTL DEF Spec, FillIsWorthItsPrice

(***************************************************************************)
(* One fill and its settlement conserve value: the balance moves by what   *)
(* the position at its entry gives up (realised PnL, funding), the fee     *)
(* and what is paid for the fill, up to the dust of the truncations        *)
(* (_settleFunding, _applyVwap, _toRawUsdcDelta).                          *)
(***************************************************************************)
LEMMA FillConserves ==
    ASSUME NEW p \in PositionType, NEW idx \in Int, NEW d \in Int \ {0}, NEW px \in Nat,
           NEW fee \in Int
    PROVE  LET f     == FilledPosition(p, idx, d, px)
               delta == ToRawUsdcDelta(RealisedPnl(p, d, px) + FundingCashflow(p, idx) + fee)
               D     == FillDust(p, d)
               old   == -p.size * (p.entryPriceX18 + idx - p.cumulativeFunding)
               new   == -f.size * (f.entryPriceX18 + idx - f.cumulativeFunding)
           IN  /\ delta \in Int /\ D \in Nat
               /\ X18 * (USDC_TO_X18 * delta - fee) + (new - old) + d * px \in -D .. D
<1> DEFINE f  == FilledPosition(p, idx, d, px)
           s  == p.size
           e  == p.entryPriceX18
           g  == idx - p.cumulativeFunding
           n  == s + d
           E  == f.entryPriceX18
           c  == ClosedSize(p, d)
           A  == TruncDiv(c * (px - e), X18)
           B  == TruncDiv(g * s, X18)
           C  == TruncDiv(A + (-B) + fee, USDC_TO_X18)
           R  == FillResidue(p, idx, d, px)
           K  == IF s # 0 /\ SameSide(s, d) THEN Abs(n) - 1 ELSE 0
           D  == FillDust(p, d)
           old   == -s * (e + idx - p.cumulativeFunding)
           new   == -f.size * (E + idx - f.cumulativeFunding)
<1>1. s \in Int /\ e \in Nat /\ g \in Int /\ n \in Int /\ E \in Nat /\ f.size = n
  BY FilledPositionType DEF PositionType
<1>2. c \in Int
  BY <1>1 DEF ClosedSize
<1>3. X18 \in Nat \ {0} /\ USDC_TO_X18 \in Nat \ {0}
  BY ScaleAssumption
<1>4. K \in Nat /\ R \in -K .. K
  <2>1. IF s # 0 /\ SameSide(s, d) THEN Abs(n) > 0 /\ R \in -(Abs(n) - 1) .. (Abs(n) - 1)
        ELSE R = 0
    BY FillResidueBound, Zenon
  <2>2. Abs(n) \in Nat
    BY <1>1 DEF Abs
  <2> HIDE DEF R, n
  <2>3. QED
    BY <2>1, <2>2
<1>5. D = 2 * (X18 - 1) + X18 * (USDC_TO_X18 - 1) + K
  BY DEF FillDust
<1>6. R = c * (px - e) - n * E + s * e + d * px
  BY <1>1 DEF FillResidue
<1>7. /\ new = -n * E
      /\ old = -(s * e) - g * s
  <2>1. f.cumulativeFunding = idx
    BY DEF FilledPosition
  <2>2. -n * (E + idx - idx) = -n * E
    BY <1>1
  <2>3. -s * (e + idx - p.cumulativeFunding) = -(s * e) - g * s
    BY DEF PositionType
  <2>4. QED
    BY <1>1, <2>1, <2>2, <2>3
<1>8. ToRawUsdcDelta(RealisedPnl(p, d, px) + FundingCashflow(p, idx) + fee) = C
  BY DEF ToRawUsdcDelta, RealisedPnl, FundingCashflow
<1> HIDE DEF R, c, E, g, K, old, new, D
<1>9. A \in Int /\ X18 * A - c * (px - e) \in -(X18 - 1) .. (X18 - 1)
  <2>1. c * (px - e) \in Int
    BY <1>1, <1>2
  <2>2. QED
    BY <1>3, <2>1, TruncDivLoss
<1>10. B \in Int /\ X18 * B - g * s \in -(X18 - 1) .. (X18 - 1)
  <2>1. g * s \in Int
    BY <1>1
  <2>2. QED
    BY <1>3, <2>1, TruncDivLoss
<1> HIDE DEF A, B
<1>11. C \in Int /\ USDC_TO_X18 * C - (A + (-B) + fee) \in -(USDC_TO_X18 - 1) .. (USDC_TO_X18 - 1)
  <2>1. A + (-B) + fee \in Int
    BY <1>9, <1>10
  <2>2. QED
    BY <1>3, <2>1, TruncDivLoss
<1> HIDE DEF C, n
<1> DEFINE r == USDC_TO_X18 * C - (A + (-B) + fee)
           a == X18 * A - c * (px - e)
           b == X18 * B - g * s
<1>12. /\ r \in -(USDC_TO_X18 - 1) .. (USDC_TO_X18 - 1)
       /\ a \in -(X18 - 1) .. (X18 - 1)
       /\ b \in -(X18 - 1) .. (X18 - 1)
  BY <1>9, <1>10, <1>11
<1>13. X18 * r \in -(X18 * (USDC_TO_X18 - 1)) .. X18 * (USDC_TO_X18 - 1)
  <2> HIDE DEF r
  <2> DEFINE W == USDC_TO_X18 - 1
  <2>1. W \in Nat /\ r \in -W .. W
    BY <1>3, <1>12
  <2> HIDE DEF W
  <2>2. X18 * r <= X18 * W /\ X18 * r >= X18 * (-W) /\ X18 * (-W) = -(X18 * W)
    BY <1>3, <2>1
  <2>3. X18 * r \in Int /\ X18 * W \in Int
    BY <1>3, <2>1
  <2>4. QED
    BY <2>2, <2>3 DEF W
<1>14. X18 * (USDC_TO_X18 * C - fee) = X18 * r + X18 * A - X18 * B
  <2>1. USDC_TO_X18 * C - fee = r + (A - B)
    BY <1>3, <1>9, <1>10, <1>11
  <2>2. r \in Int
    BY <1>12, <1>3
  <2> HIDE DEF r
  <2>3. X18 * (r + (A - B)) = X18 * r + X18 * A - X18 * B
    BY <1>3, <1>9, <1>10, <2>2
  <2>4. QED
    BY <2>1, <2>3
<1>15. X18 * (USDC_TO_X18 * C - fee) + (new - old) + d * px = X18 * r + a - b + R
  <2>1. /\ X18 * r \in Int /\ X18 * A \in Int /\ X18 * B \in Int /\ c * (px - e) \in Int
        /\ g * s \in Int /\ n * E \in Int /\ s * e \in Int /\ d * px \in Int
    BY <1>1, <1>2, <1>3, <1>9, <1>10, <1>13
  <2>2. -n * E = -(n * E)
    BY <1>1
  <2> HIDE DEF r
  <2>3. QED
    BY <1>6, <1>7, <1>14, <2>1, <2>2
<1>16. D \in Nat /\ X18 * r + a - b + R \in -D .. D
  <2>1. X18 * (USDC_TO_X18 - 1) \in Nat
    BY <1>3
  <2> HIDE DEF r, a, b
  <2>2. QED
    BY <1>3, <1>4, <1>5, <1>12, <1>13, <2>1
<1>17. QED
  BY <1>8, <1>11, <1>15, <1>16 DEF old, new, E, D

-----------------------------------------------------------------------------
(***************************************************************************)
(* Deleveraging credits realised plus funding and takes realised, each     *)
(* converted to raw USDC on its own (_adlOne): what remains is the funding *)
(* less at most one unit.                                                  *)
(***************************************************************************)
LEMMA TwoConversions ==
    ASSUME NEW r \in Nat, NEW f \in Int
    PROVE  /\ ToRawUsdcDelta(r + f) \in Int /\ ToRawUsdcDelta(r) \in Int
           /\ USDC_TO_X18 * (ToRawUsdcDelta(r + f) - ToRawUsdcDelta(r)) > f - USDC_TO_X18
<1> DEFINE U == USDC_TO_X18
           s == r + f
           a == TruncDiv(s, U)
           b == TruncDiv(r, U)
<1>1. U \in Nat \ {0} /\ s \in Int
  BY ScaleAssumption
<1> HIDE DEF s, U
<1>2. a \in Int /\ U * a - s \in -(U - 1) .. (U - 1)
  BY <1>1, TruncDivLoss
<1>3. b \in Int /\ U * b <= r
  BY <1>1 DEF TruncDiv
<1> HIDE DEF a, b
<1>4. U * (a - b) = U * a - U * b /\ U * a \in Int /\ U * b \in Int
  BY <1>1, <1>2, <1>3
<1>5. a \in Int /\ b \in Int /\ U * (a - b) > f - U
  BY <1>1, <1>2, <1>3, <1>4 DEF s
<1>6. QED
  BY <1>5 DEF ToRawUsdcDelta, a, b, s, U

\* applyFill leaves no funding to settle, and the other users as they were.
LEMMA FundingSettled ==
    ASSUME NEW r, RegistryOK(r), NEW u \in Users, NEW m \in Markets, NEW d \in Int, NEW px \in Nat
    PROVE  /\ FillFunding(Filled(r, u, m, d, px), u, m) = 0
           /\ \A k \in Users : k # u => FillFunding(Filled(r, u, m, d, px), k, m) = FillFunding(r, k, m)
<1> DEFINE idx == r.marketIndexFunding[m]
           p == FilledPosition(r.positions[u][m], idx, d, px)
           F == Filled(r, u, m, d, px)
<1>1. /\ r.positions \in [Users -> [Markets -> PositionType]] /\ idx \in Int
      /\ r.positions[u][m] \in PositionType
  BY DEF RegistryOK, Registry
<1>2. /\ F.marketIndexFunding[m] = idx
      /\ F.positions = [r.positions EXCEPT ![u][m] = p]
  BY Zenon DEF Filled
<1>3. p.size \in Int /\ p.cumulativeFunding = idx
  BY <1>1 DEF FilledPosition, PositionType
<1>4. FundingCashflow(p, idx) = 0
  BY <1>1, <1>3, ScaleAssumption DEF FundingCashflow, TruncDiv
<1> HIDE DEF F, p
<1>5. F.positions[u][m] = p /\ \A k \in Users : k # u => F.positions[k] = r.positions[k]
  BY <1>1, <1>2
<1>6. QED
  BY <1>2, <1>4, <1>5 DEF FillFunding, F

-----------------------------------------------------------------------------
\* Fills come at odd and even turns.
LEMMA Parity ==
    ASSUME NEW k \in Nat \ {0}
    PROVE  k % 2 = 0 <=> (k - 1) % 2 # 0
OBVIOUS

\* An interval later, one more interval has elapsed.
LEMMA IntervalElapsed ==
    ASSUME NEW a \in Nat, NEW b \in Nat, NEW i \in Nat \ {0}, b >= a + i
    PROVE  a \div i \in Nat /\ b \div i \in Nat /\ b \div i >= a \div i + 1
<1> DEFINE q == a \div i
           p == b \div i
<1>1. q \in Int /\ p \in Int
  OBVIOUS
<1>2. i * q <= a /\ i * q > a - i /\ i * p > b - i /\ i * p <= b
  <2>1. i * q <= a /\ i * q > a - i
    OBVIOUS
  <2>2. i * p <= b /\ i * p > b - i
    OBVIOUS
  <2>3. QED
    BY <2>1, <2>2
<1> HIDE DEF q, p
<1>3. q >= 0
  <2> SUFFICES ASSUME q <= -1 PROVE FALSE
    BY <1>1
  <2>1. i * q <= i * (-1)
    BY <1>1
  <2>2. QED
    BY <1>1, <1>2, <2>1
<1>4. p >= q + 1
  <2> SUFFICES ASSUME p <= q PROVE FALSE
    BY <1>1
  <2>1. i * p <= i * q
    BY <1>1
  <2>2. QED
    BY <1>1, <1>2, <2>1
<1>5. QED
  BY <1>1, <1>3, <1>4 DEF q, p

\* Intervals elapse in order.
LEMMA IntervalMonotone ==
    ASSUME NEW a \in Nat, NEW b \in Nat, NEW i \in Nat \ {0}, a <= b
    PROVE  a \div i \in Nat /\ a \div i <= b \div i
<1> DEFINE q == a \div i
           p == b \div i
<1>1. q \in Nat /\ p \in Int
  OBVIOUS
<1>2. i * q <= a /\ i * p > b - i
  OBVIOUS
<1> HIDE DEF q, p
<1>3. q <= p
  <2> SUFFICES ASSUME p <= q - 1 PROVE FALSE
    BY <1>1
  <2>1. i * p <= i * (q - 1)
    BY <1>1
  <2>2. i * (q - 1) = i * q - i
    BY <1>1
  <2>3. QED
    BY <1>1, <1>2, <2>1, <2>2
<1>4. QED
  BY <1>1, <1>3 DEF q, p

-----------------------------------------------------------------------------
\* A margin grows with its ratio.
LEMMA MarginMonotone ==
    ASSUME NEW size \in Int, NEW mark \in Nat, NEW mm \in Nat, NEW im \in Nat, mm <= im
    PROVE  /\ Margin(size, mark, mm) \in Nat /\ Margin(size, mark, im) \in Nat
           /\ Margin(size, mark, mm) <= Margin(size, mark, im)
<1> DEFINE n == Notional(size, mark)
           a == n * mm
           b == n * im
<1>1. n \in Nat
  <2>1. Abs(size) * mark \in Nat
    BY DEF Abs
  <2>2. QED
    BY <2>1, ScaleAssumption DEF Notional
<1> HIDE DEF n
<1>2. a \in Nat /\ b \in Nat /\ a <= b
  BY <1>1
<1> HIDE DEF a, b
<1>3. a \div BPS \in Nat /\ b \div BPS \in Nat /\ a \div BPS <= b \div BPS
  BY <1>2, IntervalMonotone DEF BPS
<1>4. QED
  BY <1>3 DEF Margin, a, b, n

\* What a position is worth is a number.
LEMMA PnlInt ==
    ASSUME NEW p \in PositionType, NEW mark \in Nat
    PROVE  UnrealisedPnl(p, mark) \in Int
<1> DEFINE a == p.size * (mark - p.entryPriceX18)
<1>1. a \in Int
  BY DEF PositionType
<1> HIDE DEF a
<1>2. TruncDiv(a, X18) \in Int
  BY <1>1, TruncDivLoss, ScaleAssumption
<1>3. QED
  BY <1>2 DEF UnrealisedPnl, a

(***************************************************************************)
(* Equity that covers the initial margin of a market's position covers its *)
(* maintenance margin: healthFactor is one or more, although it divides    *)
(* truncated quantities.                                                   *)
(***************************************************************************)
LEMMA InitialMarginIsHealthy ==
    ASSUME NEW p \in PositionType, NEW balance \in Nat, NEW mark \in Nat,
           NEW mm \in Nat, NEW im \in Nat, mm <= im,
           p.size # 0 => balance * USDC_TO_X18 + UnrealisedPnl(p, mark) >= Margin(p.size, mark, im)
    PROVE  HealthFactor(p, balance, mark, mm) \in Nat /\ HealthFactor(p, balance, mark, mm) >= X18
<1> DEFINE e == balance * USDC_TO_X18 + UnrealisedPnl(p, mark)
           k == Margin(p.size, mark, mm)
           h == HealthFactor(p, balance, mark, mm)
<1>1. h = IF p.size = 0 \/ k = 0 THEN UINT_MAX ELSE IF e <= 0 THEN 0 ELSE (e * X18) \div k
  BY DEF HealthFactor
<1>2. UINT_MAX \in Nat /\ UINT_MAX >= X18 /\ X18 \in Nat \ {0}
  BY ScaleAssumption
<1>3. CASE p.size = 0 \/ k = 0
  BY <1>1, <1>2, <1>3
<1>4. CASE p.size # 0 /\ k # 0
  <2>1. e \in Int
    BY PnlInt, ScaleAssumption
  <2>2. k \in Nat \ {0} /\ k <= e
    <3>1. p.size \in Int
      BY DEF PositionType
    <3>2. k \in Nat /\ k <= Margin(p.size, mark, im) /\ Margin(p.size, mark, im) \in Nat
      BY <3>1, MarginMonotone, Zenon
    <3>3. QED
      BY <1>4, <2>1, <3>2
  <2> HIDE DEF e, k
  <2> DEFINE a == k * X18
             b == e * X18
  <2>3. a \in Nat /\ b \in Nat /\ a <= b
    BY <1>2, <2>1, <2>2
  <2>4. a \div k = X18
    BY <1>2, <2>2
  <2> HIDE DEF a, b
  <2>5. a \div k <= b \div k /\ b \div k \in Nat
    BY <2>2, <2>3, IntervalMonotone
  <2>6. h = b \div k
    BY <1>1, <1>4, <2>1, <2>2 DEF b
  <2>7. QED
    BY <2>4, <2>5, <2>6
<1>5. QED
  BY <1>3, <1>4

-----------------------------------------------------------------------------
(***************************************************************************)
(* The vault.                                                              *)
(***************************************************************************)
VaultInv == VaultTypeOK /\ CustodyCoversDeposits

\* A covered transfer between two accounts keeps token balances natural and
\* moves exactly the amount out of the sender.
LEMMA TransferType ==
    ASSUME NEW t \in [Accounts -> Nat], NEW a \in Accounts, NEW b \in Accounts,
           NEW n \in Nat, t[a] >= n
    PROVE  /\ Transfer(t, a, b, n) \in [Accounts -> Nat]
           /\ a # b => /\ Transfer(t, a, b, n)[a] = t[a] - n
                       /\ Transfer(t, a, b, n)[b] = t[b] + n
BY DEF Transfer

\* The storage operator behind every vault call.
LEMMA MovedType ==
    ASSUME NEW v \in VaultType, NEW u \in Users, NEW d \in Int, NEW s \in Int,
           v.balances[u] + d >= 0, v.totalDeposits + s >= 0
    PROVE  /\ Moved(v, u, d, s) \in VaultType
           /\ Moved(v, u, d, s).totalDeposits = v.totalDeposits + s
BY DEF Moved, VaultType

-----------------------------------------------------------------------------
\* deposit: the tokens that come in are the ones totalDeposits gains.
LEMMA DepositStep ==
    ASSUME VaultInv, NEW u \in Users, NEW n \in Amounts, Deposit(u, n)
    PROVE  VaultInv'
<1>1. n \in Nat /\ u \in Accounts /\ VAULT \in Accounts /\ u # VAULT
  BY VaultAssumption
<1>2. /\ usdc' \in [Accounts -> Nat]
      /\ usdc'[VAULT] = usdc[VAULT] + n
  BY <1>1, TransferType DEF Deposit, VaultInv, VaultTypeOK
<1>3. /\ vault' \in VaultType
      /\ vault'.totalDeposits = vault.totalDeposits + n
  BY <1>1, MovedType DEF Deposit, VaultInv, VaultTypeOK, VaultType
<1>4. QED
  BY <1>1, <1>2, <1>3 DEF VaultInv, VaultTypeOK, VaultType, CustodyCoversDeposits

\* withdraw: what leaves the vault leaves totalDeposits.
LEMMA WithdrawStep ==
    ASSUME VaultInv, NEW u \in Users, NEW n \in Amounts, NEW safe, Withdraw(u, n, safe)
    PROVE  VaultInv'
<1>1. n \in Nat /\ u \in Accounts /\ VAULT \in Accounts /\ u # VAULT
  BY VaultAssumption
<1>2. /\ usdc' \in [Accounts -> Nat]
      /\ usdc'[VAULT] = usdc[VAULT] - n
  BY <1>1, TransferType DEF Withdraw, VaultInv, VaultTypeOK
<1>3. /\ vault' \in VaultType
      /\ vault'.totalDeposits = vault.totalDeposits - n
  BY <1>1, MovedType DEF Withdraw, VaultInv, VaultTypeOK, VaultType
<1>4. QED
  BY <1>1, <1>2, <1>3 DEF VaultInv, VaultTypeOK, VaultType, CustodyCoversDeposits

\* applySettlement moves a balance, and neither the tokens nor the total.
LEMMA ApplySettlementStep ==
    ASSUME VaultInv, NEW u \in Users, NEW d \in Int, ApplySettlement(u, d)
    PROVE  VaultInv'
<1>1. vault' \in VaultType /\ vault'.totalDeposits = vault.totalDeposits
  BY MovedType DEF ApplySettlement, CanApplySettlement, SettlementApplied, VaultInv, VaultTypeOK,
     VaultType
<1>2. QED
  BY <1>1 DEF ApplySettlement, VaultInv, VaultTypeOK, CustodyCoversDeposits

(***************************************************************************)
(* seizeForLiquidation: both transfers out are covered by the one debit,   *)
(* which takes the same amount out of the balance and out of the total.    *)
(***************************************************************************)
LEMMA SeizedCovered ==
    ASSUME NEW v \in VaultType, NEW t \in [Accounts -> Nat], t[VAULT] >= v.totalDeposits,
           NEW u \in Users, NEW l \in Accounts \ {VAULT}, NEW f \in Accounts \ {VAULT},
           NEW b \in Nat, CanSeize(v, t, u)
    PROVE  /\ Seized(v, u) \in VaultType
           /\ SeizedTokens(v, t, u, l, f, b) \in [Accounts -> Nat]
           /\ SeizedTokens(v, t, u, l, f, b)[VAULT] >= Seized(v, u).totalDeposits
<1> DEFINE bal  == v.balances[u]
           paid == BonusPaid(v, u, b)
           mid  == Transfer(t, VAULT, l, paid)
           end  == SeizedTokens(v, t, u, l, f, b)
<1>1. /\ bal \in Nat /\ paid \in Nat /\ paid <= bal
      /\ t[VAULT] >= bal /\ v.totalDeposits >= bal
      /\ VAULT \in Accounts
  BY VaultAssumption DEF BonusPaid, VaultType, CanSeize
<1>2. mid \in [Accounts -> Nat] /\ mid[VAULT] = t[VAULT] - paid
  <2> HIDE DEF paid
  <2>1. t[VAULT] >= paid /\ l \in Accounts /\ VAULT # l
    BY <1>1
  <2>2. QED
    BY <1>1, <2>1, TransferType
<1>3. end \in [Accounts -> Nat] /\ end[VAULT] = t[VAULT] - bal
  <2> DEFINE rest == bal - paid
  <2>1. end = Transfer(mid, VAULT, f, rest)
    BY DEF SeizedTokens
  <2> HIDE DEF mid, paid, bal, end
  <2>2. rest \in Nat /\ mid[VAULT] >= rest /\ t[VAULT] \in Nat
    BY <1>1, <1>2
  <2>3. mid \in [Accounts -> Nat] /\ VAULT \in Accounts /\ f \in Accounts /\ VAULT # f
    BY <1>1, <1>2
  <2> HIDE DEF rest
  <2>4. end \in [Accounts -> Nat] /\ end[VAULT] = mid[VAULT] - rest
    BY <2>1, <2>2, <2>3, TransferType
  <2>5. QED
    BY <1>1, <1>2, <2>2, <2>4 DEF rest
<1>4. Seized(v, u) \in VaultType /\ Seized(v, u).totalDeposits = v.totalDeposits - bal
  BY <1>1, MovedType DEF Seized, VaultType
<1> HIDE DEF end
<1>5. end[VAULT] >= Seized(v, u).totalDeposits
  BY <1>1, <1>3, <1>4 DEF VaultType
<1>6. QED
  BY <1>3, <1>4, <1>5 DEF end

\* debitToExternal: the tokens paid out leave the balance and the total.
LEMMA DebitedCovered ==
    ASSUME NEW v \in VaultType, NEW t \in [Accounts -> Nat], t[VAULT] >= v.totalDeposits,
           NEW u \in Users, NEW r \in Accounts \ {VAULT}, NEW n \in Nat, CanDebit(v, t, u, n)
    PROVE  /\ Debited(v, u, n) \in VaultType
           /\ DebitedTokens(v, t, u, r, n) \in [Accounts -> Nat]
           /\ DebitedTokens(v, t, u, r, n)[VAULT] >= Debited(v, u, n).totalDeposits
<1> DEFINE paid == DebitPaid(v, u, n)
           end  == DebitedTokens(v, t, u, r, n)
<1>1. /\ paid \in Nat /\ paid <= v.balances[u]
      /\ t[VAULT] >= paid /\ v.totalDeposits >= paid
      /\ v.balances[u] \in Nat /\ v.totalDeposits \in Nat
      /\ VAULT \in Accounts
  BY VaultAssumption DEF DebitPaid, VaultType, CanDebit
<1>2. end = Transfer(t, VAULT, r, paid) /\ Debited(v, u, n) = Moved(v, u, -paid, -paid)
  BY DEF DebitedTokens, Debited
<1> HIDE DEF paid, end
<1>3. end \in [Accounts -> Nat] /\ end[VAULT] = t[VAULT] - paid
  BY <1>1, <1>2, TransferType
<1>4. Debited(v, u, n) \in VaultType /\ Debited(v, u, n).totalDeposits = v.totalDeposits - paid
  <2> DEFINE z == -paid
  <2>1. z \in Int /\ v.balances[u] + z >= 0 /\ v.totalDeposits + z = v.totalDeposits - paid
        /\ v.totalDeposits + z >= 0
    BY <1>1
  <2> HIDE DEF z
  <2>2. Moved(v, u, z, z) \in VaultType /\ Moved(v, u, z, z).totalDeposits = v.totalDeposits + z
    BY <2>1, MovedType
  <2>3. QED
    BY <1>2, <2>1, <2>2, Zenon DEF z
<1>5. end[VAULT] >= Debited(v, u, n).totalDeposits
  BY <1>1, <1>3, <1>4
<1>6. QED
  BY <1>3, <1>4, <1>5 DEF end

\* The two calls as actions of the vault.
LEMMA SeizeStep ==
    ASSUME VaultInv, NEW u \in Users, NEW l \in Accounts \ {VAULT}, NEW f \in Accounts \ {VAULT},
           NEW b \in Amounts, SeizeForLiquidation(u, l, f, b)
    PROVE  VaultInv'
<1>1. b \in Nat
  BY VaultAssumption
<1>2. QED
  BY <1>1, SeizedCovered, Zenon DEF SeizeForLiquidation, VaultInv, VaultTypeOK, CustodyCoversDeposits

\* See SeizeStep.
LEMMA DebitStep ==
    ASSUME VaultInv, NEW u \in Users, NEW r \in Accounts \ {VAULT}, NEW n \in Amounts,
           DebitToExternal(u, r, n)
    PROVE  VaultInv'
<1>1. n \in Nat
  BY VaultAssumption
<1>2. QED
  BY <1>1, DebitedCovered DEF DebitToExternal, VaultInv, VaultTypeOK, CustodyCoversDeposits

\* Tokens sent straight to the vault only widen the cover.
LEMMA DonateStep ==
    ASSUME VaultInv, NEW a \in Accounts, NEW n \in Amounts, Donate(a, n)
    PROVE  VaultInv'
BY TransferType, VaultAssumption
   DEF Donate, VaultInv, VaultTypeOK, VaultType, CustodyCoversDeposits

-----------------------------------------------------------------------------
(***************************************************************************)
(* Whatever deposits, withdrawals, settlements, seizures, debits and plain *)
(* token transfers happen, in any order: no vault or token balance goes    *)
(* negative, and the vault's tokens cover totalDeposits.                   *)
(***************************************************************************)
THEOREM VaultCustody == VaultSpec => [](VaultTypeOK /\ CustodyCoversDeposits)
<1>1. VaultInit => VaultInv
  BY VaultAssumption DEF VaultInit, VaultInv, VaultTypeOK, VaultType, CustodyCoversDeposits
<1>2. VaultInv /\ [VaultNext]_vaultVars => VaultInv'
  <2> SUFFICES ASSUME VaultInv, [VaultNext]_vaultVars
               PROVE  VaultInv'
    OBVIOUS
  <2>1. ASSUME NEW u \in Users, NEW n \in Amounts, Deposit(u, n)
        PROVE  VaultInv'
    BY <2>1, DepositStep
  <2>2. ASSUME NEW u \in Users, NEW n \in Amounts, NEW safe \in BOOLEAN, Withdraw(u, n, safe)
        PROVE  VaultInv'
    BY <2>2, WithdrawStep
  <2>3. ASSUME NEW u \in Users, NEW n \in Amounts, NEW s \in {-1, 1}, ApplySettlement(u, s * n)
        PROVE  VaultInv'
    <3>1. s * n \in Int
      BY VaultAssumption
    <3>2. QED
      BY <2>3, <3>1, ApplySettlementStep
  <2>4. ASSUME NEW u \in Users, NEW l \in Accounts \ {VAULT}, NEW f \in Accounts \ {VAULT},
               NEW b \in Amounts, SeizeForLiquidation(u, l, f, b)
        PROVE  VaultInv'
    BY <2>4, SeizeStep
  <2>5. ASSUME NEW u \in Users, NEW r \in Accounts \ {VAULT}, NEW n \in Amounts,
               DebitToExternal(u, r, n)
        PROVE  VaultInv'
    BY <2>5, DebitStep
  <2>6. ASSUME NEW a \in Accounts, NEW n \in Amounts, Donate(a, n)
        PROVE  VaultInv'
    BY <2>6, DonateStep
  <2>7. CASE UNCHANGED vaultVars
    BY <2>7 DEF vaultVars, VaultInv, VaultTypeOK, CustodyCoversDeposits
  <2>8. QED
    BY <2>1, <2>2, <2>3, <2>4, <2>5, <2>6, <2>7 DEF VaultNext
<1>3. QED
  BY <1>1, <1>2, PTL DEF VaultSpec, VaultInv
=============================================================================
