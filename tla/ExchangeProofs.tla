--------------------------- MODULE ExchangeProofs ---------------------------
(***************************************************************************)
(* What the exchange promises in every behaviour, for every number of      *)
(* users, markets, batches and victims and every scale, price and premium: *)
(* custody, the pace of funding, the queue of withdrawals, and that no     *)
(* value is made or lost.                                                  *)
(*                                                                         *)
(* ExchangeSteps shows that every transaction keeps the inductive          *)
(* invariant ExchangeOK /\ FundingPaced /\ NothingLost, given what sums    *)
(* over a finite set obey and that the naturals are well-ordered (Laws).   *)
(* Here the Laws are proved, once, from the library's definitions: a sum   *)
(* that broke one would break it on a least set, and the recursion         *)
(* equation of SumFunction rules that out.  The theorems at the end put    *)
(* the two together.                                                       *)
(***************************************************************************)
EXTENDS ExchangeSteps, FiniteSetTheorems, WellFoundedInduction

\* A non-empty set of naturals has a least element: the induction principle
\* behind every proof about loops.
LEMMA LeastNat ==
    ASSUME NEW T \in SUBSET Nat, T # {}
    PROVE  \E n \in T : \A k \in T : n <= k
<1>1. PICK n \in T : \A k \in T : <<k, n>> \notin OpToRel(<, Nat)
  BY NatLessThanWellFounded, WFMin, Zenon
<1>2. \A k \in T : ~(k < n)
  BY <1>1, Zenon DEF OpToRel
<1>3. QED
  BY <1>2

\* A non-empty family of subsets of a finite set has a minimal member.
LEMMA LeastSet ==
    ASSUME NEW S, IsFiniteSet(S), NEW T \in SUBSET SUBSET S, T # {}
    PROVE  \E s \in T : \A r \in T : r \subseteq s => r = s
<1>1. IsWellFoundedOn(StrictSubsetOrdering(S), FiniteSubsetsOf(S))
  BY FS_StrictSubsetOrderingWellFounded
<1>2. T \subseteq FiniteSubsetsOf(S)
  BY FS_FiniteSubsetsOfFinite
<1>3. PICK s \in T : \A r \in T : <<r, s>> \notin StrictSubsetOrdering(S)
  BY <1>1, <1>2, WFMin
<1> QED
  BY <1>3, Zenon DEF StrictSubsetOrdering

-----------------------------------------------------------------------------
\* The element SumFunction takes next.
Any(s) == CHOOSE i \in s : TRUE

\* The recursion equation of SumFunction, on sets of up to k elements.
SumsTo(g, f, D, k) ==
    \A s \in SUBSET D : Cardinality(s) <= k =>
        g[s] = IF s = {} THEN 0 ELSE f[Any(s)] + g[s \ {Any(s)}]

\* The same as the definition of a recursive function.
IsSum(g, f, D) ==
    g = [s \in SUBSET D |-> IF s = {} THEN 0 ELSE f[Any(s)] + g[s \ {Any(s)}]]

\* The recursive function behind SumFunction exists.
LEMMA SumExists ==
    ASSUME NEW D, IsFiniteSet(D), NEW f
    PROVE  \E g : IsSum(g, f, D)
<1> DEFINE P(k) == \E g : SumsTo(g, f, D, k)
           T == {k \in Nat : ~P(k)}
<1>0. \A s \in SUBSET D : Cardinality(s) \in Nat /\ (Cardinality(s) = 0 <=> s = {})
  BY FS_Subset, FS_CardinalityType, FS_EmptySet
<1>e. \A s \in SUBSET D : s # {} => Any(s) \in s /\ Cardinality(s \ {Any(s)}) = Cardinality(s) - 1
  <2> TAKE s \in SUBSET D
  <2> HAVE s # {}
  <2>1. Any(s) \in s
    BY DEF Any
  <2>2. IsFiniteSet(s)
    BY FS_Subset
  <2> HIDE DEF P, T
  <2> QED
    BY <2>1, <2>2, FS_RemoveElement, Zenon
<1>1. P(0)
  <2>1. SumsTo([s \in SUBSET D |-> 0], f, D, 0)
    BY <1>0 DEF SumsTo
  <2> QED
    BY <2>1
<1>2. ASSUME NEW k \in Nat, P(k) PROVE P(k + 1)
  <2>1. PICK g : SumsTo(g, f, D, k)
    BY <1>2
  <2> DEFINE h == [s \in SUBSET D |-> IF s = {} THEN 0 ELSE f[Any(s)] + g[s \ {Any(s)}]]
  <2>2. ASSUME NEW s \in SUBSET D, Cardinality(s) <= k PROVE h[s] = g[s]
    BY <2>1, <2>2 DEF SumsTo
  <2>3. ASSUME NEW s \in SUBSET D, Cardinality(s) <= k + 1, s # {} PROVE h[s \ {Any(s)}] = g[s \ {Any(s)}]
    <3>1. s \ {Any(s)} \in SUBSET D /\ Cardinality(s \ {Any(s)}) <= k
      BY <1>0, <1>e, <2>3
    <3> HIDE DEF h
    <3> QED
      BY <2>2, <3>1
  <2>4. SumsTo(h, f, D, k + 1)
    BY <2>3, Zenon DEF SumsTo
  <2> QED
    BY <2>4
<1>3. T = {}
  <2> SUFFICES ASSUME T # {} PROVE FALSE
    OBVIOUS
  <2>1. PICK k \in T : \A j \in T : k <= j
    BY LeastNat, Zenon
  <2>2. k # 0
    BY <1>1
  <2>3. k - 1 \in Nat /\ k - 1 \notin T
    BY <2>1, <2>2
  <2>4. P(k - 1)
    BY <2>3
  <2>5. P(k)
    BY <1>2, <2>3, <2>4
  <2> QED
    BY <2>5
<1>4. PICK g : SumsTo(g, f, D, Cardinality(D))
  BY <1>3, <1>0
<1>5. \A s \in SUBSET D : Cardinality(s) <= Cardinality(D)
  BY FS_Subset
<1> DEFINE G == [s \in SUBSET D |-> g[s]]
<1>6. IsSum(G, f, D)
  BY <1>4, <1>5, Zenon DEF SumsTo, IsSum, Any
<1> QED
  BY <1>6

\* SumFunction(f) is that function at the whole domain.
LEMMA SumUnfolds ==
    ASSUME NEW D, IsFiniteSet(D), NEW f, DOMAIN f = D
    PROVE  \E g : IsSum(g, f, D) /\ SumFunction(f) = g[D]
<1> DEFINE g == CHOOSE h : IsSum(h, f, D)
<1>1. IsSum(g, f, D)
  BY SumExists, Zenon
<1>2. SumFunction(f) = g[D]
  BY Zenon DEF SumFunction, SumFunctionOnSet, FoldFunctionOnSet, MapThenFoldSet, IsSum, Any
<1> QED
  BY <1>1, <1>2, Zenon
\* A finite sum of integers is an integer.
LEMMA SumInt ==
    ASSUME NEW D, IsFiniteSet(D), NEW f \in [D -> Int]
    PROVE  SumFunction(f) \in Int
<1>1. PICK g : IsSum(g, f, D) /\ SumFunction(f) = g[D]
  BY SumUnfolds, Zenon
<1> DEFINE T == {s \in SUBSET D : g[s] \notin Int}
<1>2. T = {}
  <2> SUFFICES ASSUME T # {} PROVE FALSE
    BY Zenon
  <2>0. T \in SUBSET SUBSET D
    OBVIOUS
  <2>1. PICK s \in T : \A r \in T : r \subseteq s => r = s
    <3> HIDE DEF T
    <3>1. QED
      BY <2>0, LeastSet
  <2>2. s # {}
    BY <1>1 DEF IsSum
  <2>3. Any(s) \in s
    BY <2>2 DEF Any
  <2>4. s \ {Any(s)} \in SUBSET D /\ s \ {Any(s)} \notin T
    BY <2>1, <2>3
  <2>5. g[s] = f[Any(s)] + g[s \ {Any(s)}]
    BY <1>1, <2>2, Zenon DEF IsSum
  <2> QED
    BY <2>3, <2>4, <2>5
<1> QED
  BY <1>1, <1>2

(***************************************************************************)
(* The sum is linear: when every summand moves by c times another, as the  *)
(* positions of a market do when its funding index moves by a premium, so  *)
(* does the sum.                                                           *)
(***************************************************************************)
LEMMA SumLinear ==
    ASSUME NEW D, IsFiniteSet(D), NEW f \in [D -> Int], NEW z \in [D -> Int], NEW h \in [D -> Int],
           NEW c \in Int, \A i \in D : h[i] = f[i] + c * z[i]
    PROVE  SumFunction(h) = SumFunction(f) + c * SumFunction(z)
<1>1. PICK gf : IsSum(gf, f, D) /\ SumFunction(f) = gf[D]
  BY SumUnfolds
<1>2. PICK gz : IsSum(gz, z, D) /\ SumFunction(z) = gz[D]
  BY SumUnfolds
<1>3. PICK gh : IsSum(gh, h, D) /\ SumFunction(h) = gh[D]
  BY SumUnfolds
<1> DEFINE OK(s) == gf[s] \in Int /\ gz[s] \in Int /\ gh[s] = gf[s] + c * gz[s]
           T == {s \in SUBSET D : ~OK(s)}
<1>4. T = {}
  <2> SUFFICES ASSUME T # {} PROVE FALSE
    OBVIOUS
  <2>0. T \in SUBSET SUBSET D
    OBVIOUS
  <2>1. PICK s \in T : \A r \in T : r \subseteq s => r = s
    <3> HIDE DEF T
    <3>1. QED
      BY <2>0, LeastSet
  <2>2. s # {}
    BY <1>1, <1>2, <1>3 DEF IsSum
  <2>3. Any(s) \in s
    BY <2>2, Zenon DEF Any
  <2> DEFINE i == Any(s)
             r == s \ {i}
  <2>4. r \in SUBSET D /\ r \notin T /\ i \in D
    BY <2>1, <2>3, Zenon
  <2>5. gf[s] = f[i] + gf[r] /\ gz[s] = z[i] + gz[r] /\ gh[s] = h[i] + gh[r]
    BY <1>1, <1>2, <1>3, <2>2, Zenon DEF IsSum
  <2>6. OK(r)
    BY <2>4, Zenon
  <2>7. h[i] = f[i] + c * z[i] /\ f[i] \in Int /\ z[i] \in Int
    BY <2>4, Zenon
  <2> HIDE DEF i, r
  <2>8. c * (z[i] + gz[r]) = c * z[i] + c * gz[r]
    BY <2>6, <2>7
  <2>9. OK(s)
    BY <2>5, <2>6, <2>7, <2>8
  <2> QED
    BY <2>9
<1>5. OK(D)
  BY <1>4, Zenon
<1> QED
  BY <1>1, <1>2, <1>3, <1>5, Zenon

\* A sum with one summand that is not zero is that summand.
LEMMA SumPoint ==
    ASSUME NEW D, IsFiniteSet(D), NEW f \in [D -> Int], NEW a \in D,
           \A i \in D : i # a => f[i] = 0
    PROVE  SumFunction(f) = f[a]
<1>1. PICK g : IsSum(g, f, D) /\ SumFunction(f) = g[D]
  BY SumUnfolds
<1> DEFINE OK(s) == g[s] = IF a \in s THEN f[a] ELSE 0
           T == {s \in SUBSET D : ~OK(s)}
<1>2. T = {}
  <2> SUFFICES ASSUME T # {} PROVE FALSE
    OBVIOUS
  <2>0. T \in SUBSET SUBSET D
    OBVIOUS
  <2>1. PICK s \in T : \A r \in T : r \subseteq s => r = s
    <3> HIDE DEF T
    <3>1. QED
      BY <2>0, LeastSet
  <2>2. s # {}
    BY <1>1 DEF IsSum
  <2>3. Any(s) \in s
    BY <2>2 DEF Any
  <2>4. s \ {Any(s)} \in SUBSET D /\ s \ {Any(s)} \notin T
    BY <2>1, <2>3
  <2>5. g[s] = f[Any(s)] + g[s \ {Any(s)}]
    BY <1>1, <2>2, Zenon DEF IsSum
  <2> QED
    BY <2>3, <2>4, <2>5
<1> QED
  BY <1>1, <1>2

\* Nothing adds up to nothing.
LEMMA SumZero ==
    ASSUME NEW D, IsFiniteSet(D), NEW f \in [D -> Int], \A i \in D : f[i] = 0
    PROVE  SumFunction(f) = 0
<1>1. \A i \in D : f[i] = f[i] + 1 * f[i]
  OBVIOUS
<1>2. SumFunction(f) = SumFunction(f) + 1 * SumFunction(f)
  BY <1>1, SumLinear
<1>3. SumFunction(f) \in Int
  BY SumInt
<1> DEFINE s == SumFunction(f)
<1>4. s = s + s
  BY <1>2, <1>3
<1>5. s \in Int
  BY <1>3
<1> HIDE DEF s
<1>6. s = 0
  BY <1>4, <1>5
<1>7. QED
  BY <1>6 DEF s

(***************************************************************************)
(* When one summand changes, as the balance or the position of one user    *)
(* does, the sum changes by as much.                                       *)
(***************************************************************************)
LEMMA SumChange ==
    ASSUME NEW D, IsFiniteSet(D), NEW f \in [D -> Int], NEW h \in [D -> Int], NEW a \in D,
           \A i \in D : i # a => h[i] = f[i]
    PROVE  SumFunction(h) = SumFunction(f) + (h[a] - f[a])
<1> DEFINE z == [i \in D |-> h[i] - f[i]]
<1>1. z \in [D -> Int] /\ (\A i \in D : i # a => z[i] = 0) /\ z[a] = h[a] - f[a]
  OBVIOUS
<1>2. \A i \in D : h[i] = f[i] + 1 * z[i]
  OBVIOUS
<1> HIDE DEF z
<1>3. SumFunction(h) = SumFunction(f) + 1 * SumFunction(z)
  BY <1>1, <1>2, SumLinear
<1>4. SumFunction(z) = z[a]
  BY <1>1, SumPoint
<1>5. z[a] \in Int
  BY <1>1, Zenon
<1> QED
  BY <1>1, <1>3, <1>4, <1>5

-----------------------------------------------------------------------------
\* The laws the lemmas of the steps take as a hypothesis hold.
LEMMA LawsHold == Laws
<1>1. SumsTyped
  BY SumInt DEF SumsTyped
<1>2. SumsLinear
  BY SumLinear, Zenon DEF SumsLinear
<1>3. SumsOfZero
  BY SumZero DEF SumsOfZero
<1>4. SumsChange
  BY SumChange DEF SumsChange
<1>5. WellOrdered
  BY LeastNat DEF WellOrdered
<1>6. QED
  BY <1>1, <1>2, <1>3, <1>4, <1>5 DEF Laws

\* The exchange's storages, and their funding indexes, in every behaviour.
LEMMA ExchangeInvariant == ExchangeSpec => [](ExchangeOK /\ FundingPaced)
<1>1. ExchangeInit => ExchangeOK /\ FundingPaced
  BY InitSound, LawsHold
<1>2. ExchangeOK /\ FundingPaced /\ [ExchangeNext]_exchangeVars => ExchangeOK' /\ FundingPaced'
  BY StepSound, LawsHold DEF Sound
<1>3. QED
  BY <1>1, <1>2, PTL DEF ExchangeSpec

(***************************************************************************)
(* Whatever batches, liquidations, deleveragings, fundings, deposits,      *)
(* withdrawals and administrative calls are sent, and in whatever order:   *)
(* the vault's tokens cover totalDeposits, and every user's market list is *)
(* exactly the user's open positions.  The contracts' own theorems say it  *)
(* of any caller; this one of the engines' transactions of several calls,  *)
(* which the code makes in a loop.                                         *)
(***************************************************************************)
THEOREM ExchangeCustody == ExchangeSpec => [](CustodyCoversDeposits /\ MarketListExact)
<1>1. ExchangeOK => CustodyCoversDeposits /\ MarketListExact
  BY VaultPart, RegistryOKIsInvariant, Zenon DEF ExchangeOK, WorldOK, World
<1>2. QED
  BY <1>1, ExchangeInvariant, PTL

(***************************************************************************)
(* However submissions are timed, the funding index of a market has moved  *)
(* by at most one premium of MAX_PREMIUM_ABS per elapsed interval, for     *)
(* every interval and every bound on premiums (applyFunding).              *)
(***************************************************************************)
THEOREM FundingBounded == ExchangeSpec => []FundingIndexBounded
<1>1. ExchangeOK /\ FundingPaced => FundingIndexBounded
  BY IndexWithinElapsed
<1>2. QED
  BY <1>1, ExchangeInvariant, PTL

\* A queued custody withdrawal is executed or cancelled, never changed: no
\* fill, liquidation or other call touches it (queueWithdraw, onFill).
THEOREM QueuedFixed == ExchangeSpec => QueuedWithdrawalIsFixed
<1>1. ExchangeOK /\ FundingPaced /\ [ExchangeNext]_exchangeVars
        => [cp.pending.amount # 0 => cp'.pending \in {cp.pending, NoPending}]_exchangeVars
  BY StepSound, LawsHold DEF Sound, PendingFixed
<1>2. QED
  BY <1>1, ExchangeInvariant, PTL DEF ExchangeSpec, QueuedWithdrawalIsFixed

(***************************************************************************)
(* Whatever victims one call of adl names, in whatever order and however   *)
(* often, each keeps its collateral: its balance falls by less than one    *)
(* raw USDC beyond the funding its position owed (_adlOne takes back only  *)
(* what the close realised).                                               *)
(***************************************************************************)
THEOREM AdlSparesCollateral == ExchangeSpec => AdlTakesOnlyProfit
<1>1. ASSUME ExchangeOK, NEW c \in AdlCalls, Adl(c.market, c.victims),
             NEW u \in {v.user : v \in Range(c.victims)}
      PROVE  USDC_TO_X18 * (vault.balances'[u] - vault.balances[u])
                 > FillFunding(registry, u, c.market) - USDC_TO_X18
  <2> DEFINE m == c.market
             vs == c.victims
             n == Len(vs)
  <2>1. m \in Markets /\ vs \in Seq(VictimType)
    BY ExchangeAssumption, Zenon
  <2>2. Adl(m, vs)
    BY <1>1
  <2>3. PICK j \in DOMAIN vs : u = vs[j].user
    BY <1>1, Zenon DEF Range
  <2> HIDE DEF m, vs
  <2>4. n \in Nat /\ n = Len(vs) /\ j \in 1 .. n
    BY <2>1
  <2> HIDE DEF n
  <2>5. WorldOK(World) /\ price \in [Markets -> Prices \cup {NoPrice}]
    BY <1>1 DEF ExchangeOK
  <2>6. price[m] \in Nat /\ \E w : AdlStates(w, m, vs, n)
    BY <2>1, <2>2, <2>4, <2>5, LawsHold, AdlTrace, Zenon
  <2>7. PICK w : AdlStates(w, m, vs, n)
    BY <2>6, Zenon
  <2>8. Commit(w[n]) /\ (w[n].ok => Spared(World, w[n], u, m))
    BY <2>1, <2>3, <2>4, <2>5, <2>6, <2>7, LawsHold, AdlSpares, Zenon DEF AdlStates
  <2>9. Spared(World, w[n], u, m) /\ vault' = w[n].vault
    BY <2>8, Zenon DEF Commit
  <2>10. QED
    BY <2>9, Zenon DEF Spared, World, m
<1>2. ExchangeOK => [\A c \in AdlCalls : Adl(c.market, c.victims) =>
                        \A u \in {v.user : v \in Range(c.victims)} :
                            USDC_TO_X18 * (vault.balances'[u] - vault.balances[u])
                                > FillFunding(registry, u, c.market) - USDC_TO_X18]_exchangeVars
  BY <1>1, Zenon
<1>3. QED
  BY <1>2, ExchangeInvariant, PTL DEF ExchangeSpec, AdlTakesOnlyProfit

-----------------------------------------------------------------------------
\* A withdrawal of a user whose only position is in market m leaves the user
\* above the maintenance margin there (isWithdrawSafe, healthFactor).
LEMMA WithdrawKeepsMargin ==
    ASSUME ExchangeOK, MarketsValid, NEW u \in Users, NEW a \in Amounts, UserWithdraw(u, a),
           NEW m \in Markets, price[m] # NoPrice,
           \A k \in Markets : registry.positions[u][k].size # 0 => k = m
    PROVE  ~ Liquidatable(u, m)'
<1>1. SumsOfOne
  <2> SUFFICES ASSUME NEW i, NEW f \in [{i} -> Int] PROVE SumFunction(f) = f[i]
    BY Zenon DEF SumsOfOne
  <2>1. IsFiniteSet({i}) /\ i \in {i} /\ \A j \in {i} : j # i => f[j] = 0
    BY FS_Singleton, Zenon
  <2>2. QED
    BY <2>1, SumPoint, Zenon
<1>2. /\ RegistryOK(registry) /\ vault \in VaultType
      /\ price \in [Markets -> Prices \cup {NoPrice}]
  BY Zenon DEF ExchangeOK, WorldOK, WorldType, World
<1>3. QED
  BY <1>1, <1>2, WithdrawOfOneMarket, Zenon

\* The user holds no position outside market m.
OnlyMarket(u, m) == \A k \in Markets : registry.positions[u][k].size # 0 => k = m

(***************************************************************************)
(* With any number of markets, prices and parameters, and whatever         *)
(* happened before: a user whose only position is in one market is not     *)
(* liquidatable there, at the same price, after a withdrawal               *)
(* (isWithdrawSafe against liquidate).                                     *)
(***************************************************************************)
THEOREM WithdrawalLeavesMargin ==
    ExchangeSpec => [][\A u \in Users, a \in Amounts : UserWithdraw(u, a) =>
                          \A m \in Markets : price[m] # NoPrice /\ OnlyMarket(u, m)
                              => ~ Liquidatable(u, m)']_exchangeVars
<1>1. ExchangeOK /\ MarketsValid =>
        [\A u \in Users, a \in Amounts : UserWithdraw(u, a) =>
            \A m \in Markets : price[m] # NoPrice /\ OnlyMarket(u, m)
                => ~ Liquidatable(u, m)']_exchangeVars
  BY WithdrawKeepsMargin, Zenon DEF OnlyMarket
<1>2. QED
  BY <1>1, ExchangeInvariant, MarketsStayValid, PTL

\* On an exchange with one market, no withdrawal makes its user liquidatable.
THEOREM WithdrawalsLeaveMargin ==
    (\A m, k \in Markets : m = k) => (ExchangeSpec => WithdrawLeavesMargin)
<1> SUFFICES ASSUME \A m, k \in Markets : m = k
             PROVE  ExchangeSpec => WithdrawLeavesMargin
  OBVIOUS
<1>1. ExchangeOK /\ MarketsValid =>
        [\A u \in Users, a \in Amounts : UserWithdraw(u, a) =>
            \A m \in Markets : price[m] # NoPrice => ~ Liquidatable(u, m)']_exchangeVars
  BY WithdrawKeepsMargin, Zenon
<1>2. QED
  BY <1>1, ExchangeInvariant, MarketsStayValid, PTL DEF WithdrawLeavesMargin

(***************************************************************************)
(* If every batch pairs its fills, no value is made or lost, whatever      *)
(* prices, premiums, sizes, victims and liquidations: balances, open       *)
(* positions with their funding and the part nobody holds add up to what   *)
(* was deposited and charged, up to the dust that the truncations of each  *)
(* fill can leave (applyFill, _settleFunding, _toRawUsdcDelta,             *)
(* seizeForLiquidation, debitToExternal, applyFunding).                    *)
(***************************************************************************)
THEOREM ValueConserved == BatchesPaired => (ExchangeSpec => []ClaimsEqualDeposits)
<1> SUFFICES ASSUME BatchesPaired PROVE ExchangeSpec => []ClaimsEqualDeposits
  OBVIOUS
<1> DEFINE Inv == ExchangeOK /\ FundingPaced /\ NothingLost
<1>1. ExchangeInit => Inv
  BY InitSound, LawsHold
<1>2. Inv /\ [ExchangeNext]_exchangeVars => Inv'
  BY StepSound, LawsHold DEF Sound
<1>3. Inv => ClaimsEqualDeposits
  BY Zenon DEF NothingLost, Whole, ClaimsEqualDeposits, World
<1>4. QED
  BY <1>1, <1>2, <1>3, PTL DEF ExchangeSpec
=============================================================================
