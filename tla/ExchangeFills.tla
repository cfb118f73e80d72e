---------------------------- MODULE ExchangeFills ----------------------------
(***************************************************************************)
(* What single writes of the exchange's transactions do to the storages    *)
(* and to the value they add up to: a fill with its settlement, the        *)
(* counterparty's booking of what a trader leaves, a payment out of the    *)
(* vault.  For every number of users and markets, every scale and price.   *)
(***************************************************************************)
EXTENDS Exchange, ContractProofs

-----------------------------------------------------------------------------
(***************************************************************************)
(* What is known of the operators of the libraries: sums of integers over  *)
(* a finite set, and the order of the naturals.  ExchangeProofs proves     *)
(* these laws; the lemmas below take them as a hypothesis so that the      *)
(* library's theorems do not have to be carried through every step.        *)
(***************************************************************************)
SumsTyped == \A D : IsFiniteSet(D) => \A f \in [D -> Int] : SumFunction(f) \in Int

SumsLinear ==
    \A D : IsFiniteSet(D) =>
        \A f, z, h \in [D -> Int], c \in Int :
            (\A i \in D : h[i] = f[i] + c * z[i])
                => SumFunction(h) = SumFunction(f) + c * SumFunction(z)

SumsOfZero ==
    \A D : IsFiniteSet(D) =>
        \A f \in [D -> Int] : (\A i \in D : f[i] = 0) => SumFunction(f) = 0

SumsChange ==
    \A D : IsFiniteSet(D) =>
        \A f, h \in [D -> Int], a \in D :
            (\A i \in D : i # a => h[i] = f[i])
                => SumFunction(h) = SumFunction(f) + (h[a] - f[a])

WellOrdered == \A T \in SUBSET Nat : T # {} => \E n \in T : \A k \in T : n <= k

Laws == SumsTyped /\ SumsLinear /\ SumsOfZero /\ SumsChange /\ WellOrdered

\* Induction up to n, for a set of naturals given as a value.
LEMMA UpTo ==
    ASSUME Laws, NEW T, NEW n \in Nat, 0 \in T,
           \A k \in 1 .. n : k - 1 \in T => k \in T
    PROVE  \A k \in 0 .. n : k \in T
<1> DEFINE bad == {k \in 0 .. n : k \notin T}
<1> SUFFICES ASSUME bad # {} PROVE FALSE
  OBVIOUS
<1>1. bad \in SUBSET Nat
  OBVIOUS
<1>2. PICK k \in bad : \A j \in bad : k <= j
  <2> HIDE DEF bad
  <2>1. QED
    BY <1>1 DEF Laws, WellOrdered
<1>3. k \in 1 .. n /\ k - 1 \in 0 .. n /\ k - 1 \notin bad
  BY <1>2
<1>4. QED
  BY <1>3

-----------------------------------------------------------------------------
(***************************************************************************)
(* What a loop of a transaction computes, turn by turn.  applyBatch and    *)
(* adl loop over their arguments, which is a fold in Exchange; the proofs  *)
(* need the storages between two turns.  c tells the loops apart: empty    *)
(* for a batch of fills, <<m>> for victims of market m.                    *)
(***************************************************************************)
Turn(c, w, e) == IF c = <<>> THEN SettleFill(w, e) ELSE AdlOne(w, c[1], e.user, e.closeSize)

\* A loop is unfolded from its last element: the greatest index.
LEMMA LastOfInterval ==
    ASSUME NEW n \in Nat, n > 0, NEW s \in SUBSET (1 .. n), n \in s
    PROVE  Max(s) = n
<1>1. \A y \in s : n >= y
  OBVIOUS
<1>2. \A x \in s : (\A y \in s : x >= y) => x = n
  OBVIOUS
<1>3. QED
  BY <1>1, <1>2, Zenon DEF Max

-----------------------------------------------------------------------------
\* The recursion equation of a loop, on the indices up to k.
Unfolds(g, c, seq, base, k) ==
    \A s \in SUBSET (1 .. k) :
        g[s] = IF s = {} THEN base ELSE Turn(c, g[s \ {Max(s)}], seq[Max(s)])

\* The same as the definition of a recursive function.
IsFold(g, c, seq, base, n) ==
    g = [s \in SUBSET (1 .. n) |->
            IF s = {} THEN base ELSE Turn(c, g[s \ {Max(s)}], seq[Max(s)])]

\* The recursive function behind a loop exists.
LEMMA PrefixFold ==
    ASSUME Laws, NEW c, NEW seq, NEW base, NEW n \in Nat
    PROVE  \E g : IsFold(g, c, seq, base, n)
<1> DEFINE P(k) == \E g : Unfolds(g, c, seq, base, k)
           T == {k \in Nat : ~P(k)}
<1>1. P(0)
  <2>1. Unfolds([s \in {{}} |-> base], c, seq, base, 0)
    BY DEF Unfolds
  <2>2. QED
    BY <2>1
<1>2. ASSUME NEW k \in Nat, P(k)
      PROVE  P(k + 1)
  <2>1. PICK g : Unfolds(g, c, seq, base, k)
    BY <1>2
  <2> DEFINE h == [s \in SUBSET (1 .. k + 1) |->
                      IF k + 1 \in s THEN Turn(c, g[s \ {k + 1}], seq[k + 1]) ELSE g[s]]
  <2>2. ASSUME NEW s \in SUBSET (1 .. k + 1)
        PROVE  h[s] = IF s = {} THEN base ELSE Turn(c, h[s \ {Max(s)}], seq[Max(s)])
    <3>1. CASE k + 1 \in s
      <4>1. Max(s) = k + 1
        BY <3>1, LastOfInterval
      <4>2. s \ {k + 1} \in SUBSET (1 .. k + 1) /\ k + 1 \notin s \ {k + 1}
        OBVIOUS
      <4>3. h[s \ {k + 1}] = g[s \ {k + 1}]
        BY <4>2
      <4>4. QED
        BY <3>1, <4>1, <4>3
    <3>2. CASE k + 1 \notin s
      <4>1. s \in SUBSET (1 .. k)
        BY <3>2
      <4>2. h[s] = g[s] /\ (h[s \ {Max(s)}] = g[s \ {Max(s)}])
        BY <3>2, Zenon
      <4>3. QED
        BY <4>1, <4>2, <2>1, Zenon DEF Unfolds
    <3>3. QED
      BY <3>1, <3>2
  <2>3. Unfolds(h, c, seq, base, k + 1)
    BY <2>2, Zenon DEF Unfolds
  <2>4. QED
    BY <2>3
<1>3. T = {}
  <2> SUFFICES ASSUME T # {} PROVE FALSE
    OBVIOUS
  <2>1. PICK k \in T : \A j \in T : k <= j
    BY Zenon DEF Laws, WellOrdered
  <2>2. k # 0
    BY <1>1
  <2>3. k - 1 \in Nat /\ k - 1 \notin T
    BY <2>1, <2>2
  <2>4. P(k - 1)
    BY <2>3
  <2>5. P(k)
    BY <1>2, <2>3, <2>4
  <2>6. QED
    BY <2>5
<1>4. PICK g : Unfolds(g, c, seq, base, n)
  BY <1>3
<1> DEFINE G == [s \in SUBSET (1 .. n) |-> g[s]]
<1>5. IsFold(G, c, seq, base, n)
  BY <1>4, Zenon DEF Unfolds, IsFold
<1>6. QED
  BY <1>5

-----------------------------------------------------------------------------
\* The storages a loop over seq goes through: w[k] after k turns, w[n] what
\* the fold g computes.
Traces(w, g, c, base, seq, n) ==
    /\ w[0] = base
    /\ \A k \in 1 .. n : w[k] = Turn(c, w[k - 1], seq[k])
    /\ w[n] = g[1 .. n]

\* A loop goes through storages of which each is one turn from the one
\* before, and ends in the last: what every proof about applyBatch and adl
\* starts from.
LEMMA LoopUnfolds ==
    ASSUME NEW c, NEW seq, NEW base, NEW n \in Nat, NEW g, IsFold(g, c, seq, base, n)
    PROVE  \E w : Traces(w, g, c, base, seq, n)
<1> DEFINE w == [k \in 0 .. n |-> g[1 .. k]]
<1>1. w[0] = base
  BY DEF IsFold
<1>2. ASSUME NEW k \in 1 .. n
      PROVE  w[k] = Turn(c, w[k - 1], seq[k])
  <2>1. Max(1 .. k) = k
    BY LastOfInterval
  <2>2. (1 .. k) \ {k} = 1 .. (k - 1)
    OBVIOUS
  <2>3. w[k] = g[1 .. k] /\ w[k - 1] = g[1 .. (k - 1)]
    OBVIOUS
  <2>4. k \in 1 .. k /\ 1 .. k \in SUBSET (1 .. n)
    OBVIOUS
  <2> HIDE DEF w
  <2>5. 1 .. k \in SUBSET (1 .. n) /\ 1 .. k # {}
    BY <2>4, Zenon
  <2>6. g[1 .. k] = Turn(c, g[(1 .. k) \ {Max(1 .. k)}], seq[Max(1 .. k)])
    BY <2>5, Zenon DEF IsFold
  <2>7. QED
    BY <2>1, <2>2, <2>3, <2>6, Zenon
<1>3. w[n] = g[1 .. n]
  OBVIOUS
<1>4. QED
  BY <1>1, <1>2, <1>3, Zenon DEF Traces

-----------------------------------------------------------------------------
LedgerType == [house : [Markets -> [size : Int, cash : Int]], fees : Int, dust : Nat]

CounterpartyType ==
    [position : [Markets -> Int], realisedPnl : [Markets -> Int], marketCap : [Markets -> Nat],
     pending : [amount : Nat, eta : Nat]]

WorldType ==
    [ok : BOOLEAN, registry : Registry, vault : VaultType, usdc : [Accounts -> Nat],
     cp : CounterpartyType, ledger : LedgerType]

\* The storages between two calls of a transaction: well-formed, the market
\* lists exact, and the vault's tokens covering its deposits.
WorldOK(w) ==
    /\ w \in WorldType
    /\ RegistryOK(w.registry)
    /\ w.usdc[VAULT] >= w.vault.totalDeposits

\* Everybody's position in a market, the one nobody holds included.
NetSize(w, m) ==
    SumFunction([u \in Users |-> w.registry.positions[u][m].size]) + w.ledger.house[m].size

-----------------------------------------------------------------------------
\* Sums range over finitely many users and markets.
LEMMA FiniteParties == IsFiniteSet(Users) /\ IsFiniteSet(Markets)
BY ExchangeAssumption

\* The values the sums add up are integers.
LEMMA ValueTypes ==
    ASSUME Laws, NEW r, RegistryOK(r)
    PROVE  /\ \A u \in Users, m \in Markets : PositionValue(r, u, m) \in Int
           /\ \A m \in Markets : MarketValue(r, m) \in Int
           /\ OpenValue(r) \in Int
           /\ \A m \in Markets : SumFunction([u \in Users |-> r.positions[u][m].size]) \in Int
<1>1. \A u \in Users, m \in Markets :
        /\ r.positions[u][m] \in PositionType
        /\ r.marketIndexFunding[m] \in Int
  BY DEF RegistryOK, Registry
<1>2. \A u \in Users, m \in Markets : PositionValue(r, u, m) \in Int
  BY <1>1 DEF PositionValue, PositionType
<1>3. ASSUME NEW m \in Markets
      PROVE  MarketValue(r, m) \in Int
  <2>1. [u \in Users |-> PositionValue(r, u, m)] \in [Users -> Int]
    BY <1>2
  <2>2. QED
    BY <2>1, FiniteParties DEF Laws, SumsTyped, MarketValue
<1>4. OpenValue(r) \in Int
  <2>1. [m \in Markets |-> MarketValue(r, m)] \in [Markets -> Int]
    BY <1>3
  <2>2. QED
    BY <2>1, FiniteParties DEF Laws, SumsTyped, OpenValue
<1>5. ASSUME NEW m \in Markets
      PROVE  SumFunction([u \in Users |-> r.positions[u][m].size]) \in Int
  <2>1. [u \in Users |-> r.positions[u][m].size] \in [Users -> Int]
    BY <1>1 DEF PositionType
  <2>2. QED
    BY <2>1, FiniteParties DEF Laws, SumsTyped
<1>6. QED
  BY <1>2, <1>3, <1>4, <1>5

(***************************************************************************)
(* A fill took the registry from r to f: one position moved, the open      *)
(* value moved by that position's and the market's total size by the fill. *)
(***************************************************************************)
FillMoves(r, f, u, m, d, px) ==
    /\ f.positions[u][m] = FilledPosition(r.positions[u][m], r.marketIndexFunding[m], d, px)
    /\ f.marketIndexFunding = r.marketIndexFunding
    /\ OpenValue(f) = OpenValue(r) + (PositionValue(f, u, m) - PositionValue(r, u, m))
    /\ \A k \in Markets :
          SumFunction([v \in Users |-> f.positions[v][k].size])
              = SumFunction([v \in Users |-> r.positions[v][k].size])
                  + (IF k = m THEN d ELSE 0)

\* applyFill moves the sums over positions as FillMoves says.
LEMMA FilledSums ==
    ASSUME Laws, NEW r, RegistryOK(r),
           NEW u \in Users, NEW m \in Markets, NEW d \in Int, NEW px \in Nat
    PROVE  FillMoves(r, Filled(r, u, m, d, px), u, m, d, px)
<1> DEFINE f == Filled(r, u, m, d, px)
<1>1. RegistryOK(f)
  BY FilledOK
<1>2. /\ f.positions[u][m] = FilledPosition(r.positions[u][m], r.marketIndexFunding[m], d, px)
      /\ \A v \in Users, k \in Markets :
            v # u \/ k # m => f.positions[v][k] = r.positions[v][k]
      /\ f.marketIndexFunding = r.marketIndexFunding
  BY Zenon DEF Filled, RegistryOK, Registry
<1>3. f.positions[u][m].size = r.positions[u][m].size + d
  BY <1>2, FilledPositionType DEF RegistryOK, Registry
<1> HIDE DEF f
<1>4. \A v \in Users, k \in Markets :
        v # u \/ k # m => PositionValue(f, v, k) = PositionValue(r, v, k)
  BY <1>2, Zenon DEF PositionValue
<1>5. MarketValue(f, m) = MarketValue(r, m) + (PositionValue(f, u, m) - PositionValue(r, u, m))
  <2> DEFINE old == [v \in Users |-> PositionValue(r, v, m)]
             new == [v \in Users |-> PositionValue(f, v, m)]
  <2>1. old \in [Users -> Int] /\ new \in [Users -> Int]
    BY <1>1, ValueTypes
  <2>2. \A v \in Users : v # u => new[v] = old[v]
    BY <1>4
  <2>3. old[u] = PositionValue(r, u, m) /\ new[u] = PositionValue(f, u, m)
    OBVIOUS
  <2>4. MarketValue(r, m) = SumFunction(old) /\ MarketValue(f, m) = SumFunction(new)
    BY DEF MarketValue
  <2> HIDE DEF old, new
  <2>5. SumFunction(new) = SumFunction(old) + (new[u] - old[u])
    BY <2>1, <2>2, FiniteParties DEF Laws, SumsChange
  <2>6. QED
    BY <2>3, <2>4, <2>5
<1>6. ASSUME NEW k \in Markets, k # m
      PROVE  MarketValue(f, k) = MarketValue(r, k)
  <2>1. [v \in Users |-> PositionValue(f, v, k)] = [v \in Users |-> PositionValue(r, v, k)]
    BY <1>4, <1>6
  <2>2. QED
    BY <2>1, Zenon DEF MarketValue
<1>7. OpenValue(f) = OpenValue(r) + (PositionValue(f, u, m) - PositionValue(r, u, m))
  <2> DEFINE old == [k \in Markets |-> MarketValue(r, k)]
             new == [k \in Markets |-> MarketValue(f, k)]
  <2>1. old \in [Markets -> Int] /\ new \in [Markets -> Int]
    BY <1>1, ValueTypes
  <2>2. \A k \in Markets : k # m => new[k] = old[k]
    BY <1>6
  <2>3. old[m] = MarketValue(r, m) /\ new[m] = MarketValue(f, m)
    OBVIOUS
  <2>4. OpenValue(r) = SumFunction(old) /\ OpenValue(f) = SumFunction(new)
    BY DEF OpenValue
  <2> HIDE DEF old, new
  <2>5. SumFunction(new) = SumFunction(old) + (new[m] - old[m])
    BY <2>1, <2>2, FiniteParties DEF Laws, SumsChange
  <2>6. /\ MarketValue(r, m) \in Int /\ MarketValue(f, m) \in Int
        /\ PositionValue(f, u, m) \in Int /\ PositionValue(r, u, m) \in Int
    BY <1>1, ValueTypes
  <2>7. QED
    BY <1>5, <2>3, <2>4, <2>5, <2>6
<1>8. ASSUME NEW k \in Markets
      PROVE  SumFunction([v \in Users |-> f.positions[v][k].size])
                = SumFunction([v \in Users |-> r.positions[v][k].size])
                    + (IF k = m THEN d ELSE 0)
  <2> DEFINE old == [v \in Users |-> r.positions[v][k].size]
             new == [v \in Users |-> f.positions[v][k].size]
  <2>1. old \in [Users -> Int] /\ new \in [Users -> Int]
    <3>1. \A v \in Users : r.positions[v][k] \in PositionType /\ f.positions[v][k] \in PositionType
      BY <1>1 DEF RegistryOK, Registry
    <3>2. QED
      BY <3>1, Zenon DEF PositionType
  <2>2. \A v \in Users : v # u => new[v] = old[v]
    BY <1>2
  <2>3. new[u] - old[u] = IF k = m THEN d ELSE 0
    BY <1>2, <1>3, <2>1
  <2> HIDE DEF old, new
  <2>4. SumFunction(new) = SumFunction(old) + (new[u] - old[u])
    BY <2>1, <2>2, FiniteParties DEF Laws, SumsChange
  <2>5. QED
    BY <2>3, <2>4, Zenon DEF old, new
<1>9. QED
  BY <1>2, <1>7, <1>8, Zenon DEF f, FillMoves

\* The parts of the imbalance are integers.
LEMMA ImbalanceTypes ==
    ASSUME Laws, NEW w, WorldOK(w)
    PROVE  /\ SumFunction(w.vault.balances) \in Int
           /\ HouseCash(w.ledger) \in Int
           /\ Imbalance(w) \in Int
           /\ \A m \in Markets : NetSize(w, m) \in Int
<1>1. w.vault.balances \in [Users -> Int] /\ w.vault.totalDeposits \in Int
  BY DEF WorldOK, WorldType, VaultType
<1>2. SumFunction(w.vault.balances) \in Int
  BY <1>1, FiniteParties DEF Laws, SumsTyped
<1>3. \A m \in Markets : w.ledger.house[m].size \in Int /\ w.ledger.house[m].cash \in Int
  BY DEF WorldOK, WorldType, LedgerType
<1>4. HouseCash(w.ledger) \in Int
  <2>1. [m \in Markets |-> w.ledger.house[m].cash] \in [Markets -> Int]
    BY <1>3
  <2>2. QED
    BY <2>1, FiniteParties DEF Laws, SumsTyped, HouseCash
<1>5. w.ledger.fees \in Int
  BY DEF WorldOK, WorldType, LedgerType
<1>6. OpenValue(w.registry) \in Int
      /\ \A m \in Markets : SumFunction([u \in Users |-> w.registry.positions[u][m].size]) \in Int
  BY ValueTypes, Zenon DEF WorldOK
<1>7. Imbalance(w) \in Int
  BY <1>1, <1>2, <1>4, <1>5, <1>6, ScaleAssumption DEF Imbalance
<1>8. ASSUME NEW m \in Markets
      PROVE  NetSize(w, m) \in Int
  <2> DEFINE open == SumFunction([u \in Users |-> w.registry.positions[u][m].size])
             held == w.ledger.house[m].size
  <2>1. open \in Int /\ held \in Int
    BY <1>3, <1>6, Zenon
  <2>2. NetSize(w, m) = open + held
    BY Zenon DEF NetSize
  <2> HIDE DEF open, held
  <2>3. QED
    BY <2>1, <2>2
<1>9. QED
  BY <1>2, <1>4, <1>7, <1>8, Zenon

(***************************************************************************)
(* One or several calls took the storages from w to s: the total size of   *)
(* market m grew by d, and the imbalance fell by `paid`, up to the dust    *)
(* booked.  No call touches a funding index or a queued withdrawal.        *)
(***************************************************************************)
Moves(w, s, m, d, paid) ==
    LET D == s.ledger.dust - w.ledger.dust
    IN  /\ w.ok /\ WorldOK(s)
        /\ s.cp.pending = w.cp.pending
        /\ s.registry.marketIndexFunding = w.registry.marketIndexFunding
        /\ D \in Nat
        /\ Imbalance(s) - Imbalance(w) + paid \in -D .. D
        /\ \A k \in Markets : NetSize(s, k) = NetSize(w, k) + (IF k = m THEN d ELSE 0)

(***************************************************************************)
(* applyFill and applySettlement in one transaction: what the imbalance    *)
(* loses is what was paid for the fill, up to the dust that was booked.    *)
(***************************************************************************)
LEMMA FillAndSettleStep ==
    ASSUME Laws, NEW w, WorldOK(w),
           NEW u \in Users, NEW m \in Markets, NEW d \in Int, NEW px \in Nat, NEW fee \in Int,
           FillAndSettle(w, u, m, d, px, fee).ok
    PROVE  /\ Moves(w, FillAndSettle(w, u, m, d, px, fee), m, d, d * px)
           /\ FillAndSettle(w, u, m, d, px, fee).cp = w.cp
<1> DEFINE s     == FillAndSettle(w, u, m, d, px, fee)
           p     == w.registry.positions[u][m]
           idx   == w.registry.marketIndexFunding[m]
           delta == ToRawUsdcDelta(RealisedPnl(p, d, px) + FundingCashflow(p, idx) + fee)
           r     == Filled(w.registry, u, m, d, px)
           K     == FillDust(p, d)
<1>1. /\ w.ok /\ d # 0
      /\ CanApplySettlement(w.vault, u, delta)
      /\ s = [w EXCEPT !.registry = r,
                       !.vault = SettlementApplied(w.vault, u, delta),
                       !.ledger = Charged(w.ledger, fee, K)]
  BY Zenon DEF FillAndSettle, FillRealised, FillFunding, FillArgsOK, WorldOK, WorldType
<1>2. p \in PositionType /\ idx \in Int /\ d \in Int \ {0}
  <2>1. w.registry \in Registry
    BY Zenon DEF WorldOK, RegistryOK
  <2>2. p \in PositionType /\ idx \in Int
    BY <2>1 DEF Registry
  <2>3. QED
    BY <1>1, <2>2, Zenon
<1>3. RegistryOK(r)
  BY FilledOK DEF WorldOK
<1>4. LET f   == FilledPosition(p, idx, d, px)
          old == -p.size * (p.entryPriceX18 + idx - p.cumulativeFunding)
          new == -f.size * (f.entryPriceX18 + idx - f.cumulativeFunding)
      IN  /\ delta \in Int /\ K \in Nat
          /\ X18 * (USDC_TO_X18 * delta - fee) + (new - old) + d * px \in -K .. K
  <2> HIDE DEF p, idx
  <2>1. QED
    BY <1>2, FillConserves, Zenon DEF delta, K
<1>5. /\ r.positions[u][m] = FilledPosition(p, idx, d, px)
      /\ r.marketIndexFunding = w.registry.marketIndexFunding
      /\ OpenValue(r) = OpenValue(w.registry) + (PositionValue(r, u, m) - PositionValue(w.registry, u, m))
      /\ \A k \in Markets :
            SumFunction([v \in Users |-> r.positions[v][k].size])
                = SumFunction([v \in Users |-> w.registry.positions[v][k].size])
                    + (IF k = m THEN d ELSE 0)
  <2>1. RegistryOK(w.registry)
    BY Zenon DEF WorldOK
  <2>2. FillMoves(w.registry, r, u, m, d, px)
    BY <2>1, FilledSums, Zenon
  <2> HIDE DEF r
  <2>3. QED
    BY <2>2, Zenon DEF FillMoves
<1>6. /\ delta \in Int /\ K \in Nat
      /\ X18 * (USDC_TO_X18 * delta - fee) + (PositionValue(r, u, m) - PositionValue(w.registry, u, m))
            + d * px \in -K .. K
  <2> HIDE DEF r, delta, K
  <2>1. QED
    BY <1>4, <1>5, Zenon DEF PositionValue
<1> HIDE DEF delta, r, p, K, idx, s
<1>7. /\ w.vault \in VaultType /\ w.ledger \in LedgerType /\ w \in WorldType
      /\ w.ledger.fees \in Int /\ w.ledger.dust \in Nat
      /\ w.usdc \in [Accounts -> Nat]
  BY Zenon DEF WorldOK, WorldType, LedgerType
<1>8. /\ s.ok = w.ok /\ s.usdc = w.usdc /\ s.cp = w.cp /\ s.registry = r
      /\ s.vault = SettlementApplied(w.vault, u, delta)
      /\ s.ledger = Charged(w.ledger, fee, K)
  BY <1>1, <1>7, Zenon DEF WorldType
<1>9. /\ s.vault \in VaultType
      /\ s.vault.totalDeposits = w.vault.totalDeposits
      /\ s.vault.balances = [w.vault.balances EXCEPT ![u] = @ + delta]
  <2>1. Moved(w.vault, u, delta, 0) \in VaultType
        /\ Moved(w.vault, u, delta, 0).totalDeposits = w.vault.totalDeposits + 0
    <3>1. w.vault.balances[u] + delta >= 0
      BY <1>1, Zenon DEF CanApplySettlement
    <3>2. w.vault.totalDeposits + 0 >= 0
      BY <1>7 DEF VaultType
    <3>3. delta \in Int /\ 0 \in Int
      BY <1>6
    <3>4. QED
      BY <1>7, <3>1, <3>2, <3>3, MovedType
  <2>2. QED
    BY <1>7, <1>8, <2>1 DEF SettlementApplied, Moved, VaultType
<1>10. /\ s.ledger \in LedgerType
       /\ s.ledger.house = w.ledger.house
       /\ s.ledger.fees = w.ledger.fees + fee
       /\ s.ledger.dust = w.ledger.dust + K
  BY <1>6, <1>7, <1>8 DEF Charged, LedgerType
<1>11. WorldOK(s)
  <2>1. s \in WorldType
    BY <1>1, <1>3, <1>7, <1>9, <1>10, Zenon DEF WorldType, RegistryOK
  <2>2. QED
    BY <1>3, <1>8, <1>9, <2>1, Zenon DEF WorldOK
<1>12. SumFunction(s.vault.balances) = SumFunction(w.vault.balances) + delta
  <2> DEFINE old == w.vault.balances
             new == s.vault.balances
  <2>1. old \in [Users -> Int] /\ new \in [Users -> Int] /\ new[u] - old[u] = delta
        /\ \A v \in Users : v # u => new[v] = old[v]
    BY <1>6, <1>7, <1>9 DEF VaultType
  <2> HIDE DEF old, new
  <2>2. SumFunction(new) = SumFunction(old) + (new[u] - old[u])
    BY <2>1, FiniteParties DEF Laws, SumsChange
  <2>3. QED
    BY <2>1, <2>2 DEF old, new
<1>13. HouseCash(s.ledger) = HouseCash(w.ledger)
  BY <1>10 DEF HouseCash
<1>14. Imbalance(s) - Imbalance(w)
         = X18 * (USDC_TO_X18 * delta - fee)
             + (PositionValue(r, u, m) - PositionValue(w.registry, u, m))
  <2> DEFINE b == SumFunction(w.vault.balances)
             t == w.vault.totalDeposits
             fs == w.ledger.fees
             o == OpenValue(w.registry)
             h == HouseCash(w.ledger)
             pv == PositionValue(r, u, m) - PositionValue(w.registry, u, m)
  <2>1. b \in Int /\ t \in Int /\ fs \in Int /\ o \in Int /\ h \in Int /\ pv \in Int
    BY <1>3, <1>7, ImbalanceTypes, ValueTypes DEF WorldOK, VaultType
  <2>2. Imbalance(w) = X18 * (USDC_TO_X18 * (b - t) - fs) + o + h
    BY DEF Imbalance
  <2>3. Imbalance(s) = X18 * (USDC_TO_X18 * ((b + delta) - t) - (fs + fee)) + (o + pv) + h
    BY <1>5, <1>8, <1>9, <1>10, <1>12, <1>13, Zenon DEF Imbalance
  <2> HIDE DEF b, t, fs, o, h, pv
  <2>4. USDC_TO_X18 * ((b + delta) - t) - (fs + fee)
          = (USDC_TO_X18 * (b - t) - fs) + (USDC_TO_X18 * delta - fee)
    BY <1>6, <2>1, ScaleAssumption
  <2> DEFINE y == USDC_TO_X18 * (b - t) - fs
             z == USDC_TO_X18 * delta - fee
  <2>5. y \in Int /\ z \in Int
    BY <1>6, <2>1, ScaleAssumption
  <2>6. Imbalance(w) = X18 * y + o + h /\ Imbalance(s) = X18 * (y + z) + (o + pv) + h
    BY <2>2, <2>3, <2>4
  <2> HIDE DEF y, z
  <2>7. X18 * (y + z) = X18 * y + X18 * z /\ X18 * y \in Int /\ X18 * z \in Int
    BY <2>5, ScaleAssumption
  <2>8. Imbalance(s) - Imbalance(w) = X18 * z + pv
    BY <2>1, <2>6, <2>7
  <2>9. QED
    BY <2>8 DEF z, pv
<1>15. \A k \in Markets : NetSize(s, k) = NetSize(w, k) + (IF k = m THEN d ELSE 0)
  <2> TAKE k \in Markets
  <2> DEFINE a == SumFunction([v \in Users |-> w.registry.positions[v][k].size])
             h == w.ledger.house[k].size
             i == IF k = m THEN d ELSE 0
  <2>1. NetSize(w, k) = a + h
    BY DEF NetSize
  <2>2. NetSize(s, k) = (a + i) + h
    BY <1>5, <1>8, <1>10, Zenon DEF NetSize
  <2>3. a \in Int /\ h \in Int /\ i \in Int
    <3>1. a \in Int
      BY ValueTypes, Zenon DEF WorldOK
    <3>2. h \in Int
      BY <1>7 DEF LedgerType
    <3>3. QED
      BY <3>1, <3>2
  <2> HIDE DEF a, h, i
  <2>4. NetSize(s, k) = NetSize(w, k) + i
    BY <2>1, <2>2, <2>3
  <2>5. QED
    BY <2>4 DEF i
<1>16. s.ledger.dust - w.ledger.dust = K
  BY <1>6, <1>7, <1>10
<1>17. QED
  <2>1. Moves(w, s, m, d, d * px)
    BY <1>1, <1>5, <1>6, <1>8, <1>11, <1>14, <1>15, <1>16, Zenon DEF Moves
  <2>2. QED
    BY <1>8, <2>1, Zenon DEF s

\* A fill that reverts leaves well-formed storages behind it, too.
LEMMA FillAndSettleOK ==
    ASSUME Laws, NEW w, WorldOK(w),
           NEW u \in Users, NEW m \in Markets, NEW d \in Int, NEW px \in Nat, NEW fee \in Int
    PROVE  WorldOK(FillAndSettle(w, u, m, d, px, fee))
<1> DEFINE s == FillAndSettle(w, u, m, d, px, fee)
<1>1. CASE s.ok
  BY <1>1, FillAndSettleStep, Zenon DEF Moves
<1>2. CASE ~s.ok
  <2>1. s = [w EXCEPT !.ok = FALSE]
    BY <1>2 DEF FillAndSettle, WorldOK, WorldType
  <2> HIDE DEF s
  <2>2. QED
    BY <2>1, Zenon DEF s, WorldOK, WorldType
<1>3. QED
  BY <1>1, <1>2

-----------------------------------------------------------------------------
\* What the ledger books for the position nobody holds.
LEMMA HouseTakesSums ==
    ASSUME Laws, NEW l \in LedgerType, NEW m \in Markets, NEW size \in Int, NEW cash \in Int
    PROVE  LET h == HouseTakes(l, m, size, cash)
           IN  /\ h \in LedgerType
               /\ h.fees = l.fees /\ h.dust = l.dust
               /\ HouseCash(h) = HouseCash(l) + cash
               /\ \A k \in Markets : h.house[k].size = l.house[k].size + (IF k = m THEN size ELSE 0)
<1> DEFINE h == HouseTakes(l, m, size, cash)
           e == [size |-> l.house[m].size + size, cash |-> l.house[m].cash + cash]
<1>1. h = [house |-> [l.house EXCEPT ![m] = e], fees |-> l.fees, dust |-> l.dust]
  BY Zenon DEF HouseTakes
<1>2. /\ h \in LedgerType
      /\ h.fees = l.fees /\ h.dust = l.dust
      /\ h.house[m] = e /\ \A k \in Markets : k # m => h.house[k] = l.house[k]
  BY <1>1 DEF LedgerType
<1>3. HouseCash(h) = HouseCash(l) + cash
  <2> DEFINE old == [k \in Markets |-> l.house[k].cash]
             new == [k \in Markets |-> h.house[k].cash]
  <2>1. /\ old \in [Markets -> Int] /\ new \in [Markets -> Int]
        /\ new[m] - old[m] = cash
        /\ \A k \in Markets : k # m => new[k] = old[k]
    BY <1>2 DEF LedgerType
  <2>2. HouseCash(l) = SumFunction(old) /\ HouseCash(h) = SumFunction(new)
    BY Zenon DEF HouseCash
  <2> HIDE DEF old, new, h
  <2>3. SumFunction(new) = SumFunction(old) + (new[m] - old[m])
    BY <2>1, FiniteParties DEF Laws, SumsChange
  <2>4. QED
    BY <2>1, <2>2, <2>3
<1>4. \A k \in Markets : h.house[k].size = l.house[k].size + (IF k = m THEN size ELSE 0)
  BY <1>2 DEF LedgerType
<1>5. QED
  BY <1>2, <1>3, <1>4, Zenon

\* A close at the mark is booked: the cash that the fill's other side would
\* have paid, and its size.
LEMMA TakenOverStep ==
    ASSUME Laws, NEW w, WorldOK(w), NEW m \in Markets, NEW d \in Int, NEW px \in Nat
    PROVE  LET s == TakenOver(w, m, d, px)
           IN  /\ s.ok = w.ok /\ WorldOK(s)
               /\ s.cp = w.cp /\ s.vault = w.vault /\ s.usdc = w.usdc /\ s.registry = w.registry
               /\ s.ledger.dust = w.ledger.dust
               /\ Imbalance(s) = Imbalance(w) + d * px
               /\ \A k \in Markets : NetSize(s, k) = NetSize(w, k) - (IF k = m THEN d ELSE 0)
<1> DEFINE s == TakenOver(w, m, d, px)
           l == HouseTakes(w.ledger, m, -d, d * px)
<1>1. w.ledger \in LedgerType /\ -d \in Int /\ d * px \in Int /\ w \in WorldType
  BY DEF WorldOK, WorldType
<1>2. /\ l \in LedgerType
      /\ l.fees = w.ledger.fees /\ l.dust = w.ledger.dust
      /\ HouseCash(l) = HouseCash(w.ledger) + d * px
      /\ \A k \in Markets : l.house[k].size = w.ledger.house[k].size + (IF k = m THEN -d ELSE 0)
  <2> DEFINE size == -d
             cash == d * px
  <2>1. size \in Int /\ cash \in Int /\ l = HouseTakes(w.ledger, m, size, cash)
    BY <1>1
  <2> HIDE DEF size, cash, l
  <2>2. /\ l \in LedgerType
        /\ l.fees = w.ledger.fees /\ l.dust = w.ledger.dust
        /\ HouseCash(l) = HouseCash(w.ledger) + cash
        /\ \A k \in Markets : l.house[k].size = w.ledger.house[k].size + (IF k = m THEN size ELSE 0)
    BY <1>1, <2>1, HouseTakesSums
  <2>3. QED
    BY <2>2, Zenon DEF size, cash
<1>3. s = [w EXCEPT !.ledger = l]
  BY <1>1 DEF TakenOver, WorldType
<1> HIDE DEF l, s
<1>4. /\ s.ok = w.ok /\ s.cp = w.cp /\ s.vault = w.vault /\ s.usdc = w.usdc
      /\ s.registry = w.registry /\ s.ledger = l /\ s \in WorldType
  BY <1>1, <1>2, <1>3 DEF WorldType
<1>5. WorldOK(s)
  BY <1>4, Zenon DEF WorldOK
<1>6. Imbalance(s) = Imbalance(w) + d * px
  <2> DEFINE y == X18 * (USDC_TO_X18 * (SumFunction(w.vault.balances) - w.vault.totalDeposits)
                            - w.ledger.fees) + OpenValue(w.registry)
             h == HouseCash(w.ledger)
  <2>1. Imbalance(w) = y + h
    BY DEF Imbalance
  <2>2. Imbalance(s) = y + (h + d * px)
    BY <1>2, <1>4, Zenon DEF Imbalance
  <2>3. y \in Int /\ h \in Int
    BY <1>1, ImbalanceTypes, ValueTypes, ScaleAssumption DEF WorldOK, WorldType, VaultType, LedgerType
  <2> HIDE DEF y, h
  <2>4. QED
    BY <1>1, <2>1, <2>2, <2>3
<1>7. \A k \in Markets : NetSize(s, k) = NetSize(w, k) - (IF k = m THEN d ELSE 0)
  <2> TAKE k \in Markets
  <2> DEFINE a == SumFunction([v \in Users |-> w.registry.positions[v][k].size])
             h == w.ledger.house[k].size
  <2>1. NetSize(w, k) = a + h /\ NetSize(s, k) = a + (h + (IF k = m THEN -d ELSE 0))
    BY <1>2, <1>4, Zenon DEF NetSize
  <2>2. a \in Int /\ h \in Int
    BY <1>1, ValueTypes DEF WorldOK, LedgerType
  <2> HIDE DEF a, h
  <2>3. QED
    BY <2>1, <2>2
<1>8. QED
  BY <1>2, <1>4, <1>5, <1>6, <1>7, Zenon DEF s

\* What the balances promise beyond what was deposited.
Unbacked(v) == SumFunction(v.balances) - v.totalDeposits

\* A vault call that takes as much out of a balance as out of the total.
LEMMA MovedSums ==
    ASSUME Laws, NEW v \in VaultType, NEW u \in Users, NEW d \in Int, Moved(v, u, d, d) \in VaultType
    PROVE  Unbacked(Moved(v, u, d, d)) = Unbacked(v)
<1> DEFINE old == v.balances
           new == Moved(v, u, d, d).balances
<1>1. /\ old \in [Users -> Int] /\ new \in [Users -> Int]
      /\ new[u] - old[u] = d
      /\ \A i \in Users : i # u => new[i] = old[i]
      /\ Moved(v, u, d, d).totalDeposits = v.totalDeposits + d
      /\ v.totalDeposits \in Int
  BY DEF Moved, VaultType
<1> HIDE DEF old, new
<1>2. SumFunction(new) = SumFunction(old) + (new[u] - old[u])
  BY <1>1, FiniteParties DEF Laws, SumsChange
<1>3. SumFunction(old) \in Int
  BY <1>1, FiniteParties DEF Laws, SumsTyped
<1>4. SumFunction(new) - Moved(v, u, d, d).totalDeposits = SumFunction(old) - v.totalDeposits
  BY <1>1, <1>2, <1>3
<1>5. QED
  BY <1>4 DEF old, new, Unbacked

\* Such a call leaves the imbalance alone.
LEMMA PaidOutStep ==
    ASSUME NEW w, WorldOK(w), NEW s \in WorldType,
           s.registry = w.registry, s.ledger = w.ledger,
           s.usdc[VAULT] >= s.vault.totalDeposits, Unbacked(s.vault) = Unbacked(w.vault)
    PROVE  /\ WorldOK(s)
           /\ Imbalance(s) = Imbalance(w)
           /\ \A k \in Markets : NetSize(s, k) = NetSize(w, k)
<1>1. WorldOK(s)
  BY DEF WorldOK
<1>2. Imbalance(s) = Imbalance(w)
  BY DEF Imbalance, Unbacked
<1>3. \A k \in Markets : NetSize(s, k) = NetSize(w, k)
  BY DEF NetSize
<1>4. QED
  BY <1>1, <1>2, <1>3, Zenon

-----------------------------------------------------------------------------
\* The bonus and the clawed-back profit are amounts.
LEMMA BonusNat ==
    ASSUME MarketsTypeOK, price \in [Markets -> Prices \cup {NoPrice}],
           NEW m \in Markets, IsMarketActive(m), price[m] # NoPrice, NEW size \in Int
    PROVE  price[m] \in Nat /\ BonusUSDC(m, size) \in Nat
<1>1. price[m] \in Nat
  BY ExchangeAssumption, Zenon
<1>2. markets[m].liqBonusBps \in Nat
  BY MarketAssumption DEF MarketsTypeOK, IsMarketActive, IsListed, MarketParams
<1>3. Notional(size, price[m]) \in Nat
  <2> DEFINE a == Abs(size) * price[m]
  <2>1. a \in Nat
    BY <1>1 DEF Abs
  <2> HIDE DEF a
  <2>2. a \div X18 \in Nat
    BY <2>1, ScaleAssumption
  <2>3. QED
    BY <2>2 DEF a, Notional
<1>4. Margin(size, price[m], markets[m].liqBonusBps) \in Nat
  <2> DEFINE a == Notional(size, price[m]) * markets[m].liqBonusBps
  <2>1. a \in Nat
    BY <1>2, <1>3
  <2> HIDE DEF a
  <2>2. a \div BPS \in Nat
    BY <2>1 DEF BPS
  <2>3. QED
    BY <2>2 DEF a, Margin
<1>5. QED
  BY <1>1, <1>4, ScaleAssumption DEF BonusUSDC

\* See BonusNat: a profitable close has profit to give back (_adlOne).
LEMMA ClawBackNat ==
    ASSUME NEW r, RegistryOK(r), NEW u \in Users, NEW m \in Markets, NEW d \in Int,
           price[m] \in Nat,
           r.positions[u][m].size # 0, d # 0, ~SameSide(r.positions[u][m].size, d),
           Profitable(r.positions[u][m], price[m])
    PROVE  FillRealised(r, u, m, d, price[m]) \in Nat /\ ClawBack(r, u, m, d) \in Nat
<1> DEFINE p == r.positions[u][m]
           c == ClosedSize(p, d)
           px == price[m]
           a == c * (px - p.entryPriceX18)
           b == TruncDiv(a, X18)
<1>1. p \in PositionType /\ px \in Nat /\ p.size # 0 /\ ~SameSide(p.size, d) /\ Profitable(p, px)
  BY DEF RegistryOK, Registry
<1> HIDE DEF p, px
<1>2. p.size \in Int /\ p.entryPriceX18 \in Nat
  BY <1>1 DEF PositionType
<1>3. a \in Nat
  <2>1. CASE p.size > 0
    <3>1. c \in Nat /\ px - p.entryPriceX18 \in Nat
      BY <1>1, <1>2, <2>1 DEF ClosedSize, SameSide, Abs, Profitable
    <3> HIDE DEF c
    <3>2. QED
      BY <3>1
  <2>2. CASE p.size < 0
    <3>1. -c \in Nat /\ p.entryPriceX18 - px \in Nat /\ c \in Int
      BY <1>1, <1>2, <2>2 DEF ClosedSize, SameSide, Abs, Profitable
    <3> HIDE DEF c
    <3>2. (-c) * (p.entryPriceX18 - px) = a
      BY <1>1, <1>2, <3>1
    <3>3. QED
      BY <3>1, <3>2
  <2>3. QED
    BY <1>1, <1>2, <2>1, <2>2
<1> HIDE DEF a
<1>4. b \in Nat
  BY <1>3, ScaleAssumption DEF TruncDiv
<1> HIDE DEF b
<1>5. TruncDiv(b, USDC_TO_X18) \in Nat
  BY <1>4, ScaleAssumption DEF TruncDiv
<1>6. QED
  BY <1>4, <1>5, Zenon DEF ClawBack, ToRawUsdcDelta, FillRealised, RealisedPnl, a, b, p, px

\* The oracle's answers are prices.
LEMMA PriceNat ==
    ASSUME price \in [Markets -> Prices \cup {NoPrice}], NEW m \in Markets, price[m] # NoPrice
    PROVE  price[m] \in Nat
BY ExchangeAssumption, Zenon

(***************************************************************************)
(* applyFunding moves the value of every position of the market by its     *)
(* size times the premium, so their sum by the market's total size.        *)
(***************************************************************************)
LEMMA FundingSums ==
    ASSUME Laws, NEW r, RegistryOK(r), NEW m \in Markets, NEW pr \in Int
    PROVE  LET t == FundingUpdated(r, m, r.marketIndexFunding[m] + pr)
               S == SumFunction([u \in Users |-> r.positions[u][m].size])
           IN  /\ RegistryOK(t) /\ t.positions = r.positions
               /\ OpenValue(t) = OpenValue(r) - pr * S
<1> DEFINE idx == r.marketIndexFunding[m] + pr
           t == FundingUpdated(r, m, idx)
           z == [u \in Users |-> r.positions[u][m].size]
           c == -pr
<1>1. /\ r \in Registry /\ r.marketIndexFunding[m] \in Int /\ idx \in Int
      /\ \A u \in Users, k \in Markets : r.positions[u][k] \in PositionType
  BY DEF RegistryOK, Registry
<1>2. /\ t.positions = r.positions /\ t.userMarkets = r.userMarkets
      /\ t.indexPlusOne = r.indexPlusOne /\ t \in Registry
      /\ t.marketIndexFunding[m] = idx
      /\ \A k \in Markets : k # m => t.marketIndexFunding[k] = r.marketIndexFunding[k]
  BY <1>1, Zenon DEF FundingUpdated, Registry
<1> HIDE DEF t
<1>3. RegistryOK(t)
  BY <1>2, Zenon DEF RegistryOK
<1>4. z \in [Users -> Int] /\ c \in Int
  BY <1>1 DEF PositionType
<1>5. MarketValue(t, m) = MarketValue(r, m) + c * SumFunction(z)
  <2> DEFINE f == [u \in Users |-> PositionValue(r, u, m)]
             h == [u \in Users |-> PositionValue(t, u, m)]
  <2>1. f \in [Users -> Int] /\ h \in [Users -> Int]
    BY <1>3, ValueTypes
  <2>2. ASSUME NEW u \in Users PROVE h[u] = f[u] + c * z[u]
    <3> DEFINE p == r.positions[u][m]
    <3>1. p.size \in Int /\ p.entryPriceX18 \in Int /\ p.cumulativeFunding \in Int
      BY <1>1 DEF PositionType
    <3>2. /\ f[u] = -p.size * (p.entryPriceX18 + r.marketIndexFunding[m] - p.cumulativeFunding)
          /\ h[u] = -p.size * (p.entryPriceX18 + idx - p.cumulativeFunding)
          /\ z[u] = p.size
      BY <1>2, Zenon DEF PositionValue
    <3> HIDE DEF p, f, h, z
    <3>3. QED
      BY <1>1, <3>1, <3>2
  <2> HIDE DEF f, h, z, c
  <2>3. SumFunction(h) = SumFunction(f) + c * SumFunction(z)
    BY <1>4, <2>1, <2>2, FiniteParties DEF Laws, SumsLinear
  <2>4. QED
    BY <2>3 DEF MarketValue, f, h
<1>6. \A k \in Markets : k # m => MarketValue(t, k) = MarketValue(r, k)
  BY <1>2, Zenon DEF MarketValue, PositionValue
<1>7. OpenValue(t) = OpenValue(r) + (MarketValue(t, m) - MarketValue(r, m))
  <2> DEFINE f == [k \in Markets |-> MarketValue(r, k)]
             h == [k \in Markets |-> MarketValue(t, k)]
  <2>1. /\ f \in [Markets -> Int] /\ h \in [Markets -> Int]
        /\ \A k \in Markets : k # m => h[k] = f[k]
        /\ h[m] = MarketValue(t, m) /\ f[m] = MarketValue(r, m)
    BY <1>3, <1>6, ValueTypes, Zenon
  <2>2. OpenValue(r) = SumFunction(f) /\ OpenValue(t) = SumFunction(h)
    BY DEF OpenValue
  <2> HIDE DEF f, h
  <2>3. SumFunction(h) = SumFunction(f) + (h[m] - f[m])
    BY <2>1, FiniteParties DEF Laws, SumsChange
  <2>4. QED
    BY <2>1, <2>2, <2>3
<1>8. OpenValue(t) = OpenValue(r) - pr * SumFunction(z)
  <2> DEFINE S == SumFunction(z)
  <2>1. S \in Int /\ MarketValue(r, m) \in Int /\ OpenValue(r) \in Int
    BY ValueTypes
  <2>2. MarketValue(t, m) = MarketValue(r, m) + (-pr) * S
    BY <1>5
  <2> HIDE DEF S, z
  <2>3. (-pr) * S = -(pr * S)
    BY <2>1
  <2>4. OpenValue(t) = OpenValue(r) - pr * S
    BY <1>7, <2>1, <2>2, <2>3
  <2>5. QED
    BY <2>4 DEF S
<1>9. QED
  BY <1>2, <1>3, <1>8, Zenon DEF t

-----------------------------------------------------------------------------
\* Every listed market has parameters that _validate accepted.
MarketsValid == MarketsTypeOK /\ \A m \in Markets : IsListed(m) => ValidParams(markets[m])

\* listMarket and updateMarket validate, deactivateMarket touches no ratio,
\* and no other transaction writes the registry of markets.
LEMMA MarketsStayValid == ExchangeSpec => []MarketsValid
<1>1. ExchangeInit => MarketsValid
  BY ExchangeAssumption DEF ExchangeInit, MarketsValid, MarketsTypeOK, IsListed
<1>2. MarketsValid /\ [ExchangeNext]_exchangeVars => MarketsValid'
  <2> SUFFICES ASSUME MarketsValid, [ExchangeNext]_exchangeVars
               PROVE  MarketsValid'
    BY Zenon
  <2>1. CASE UNCHANGED markets
    BY <2>1, Zenon DEF MarketsValid, MarketsTypeOK, IsListed
  <2>2. CASE MarketsNext
    <3>1. PICK m \in Markets :
              \/ \E params \in ParamChoices : ListMarket(m, params) \/ UpdateMarket(m, params)
              \/ DeactivateMarket(m)
      BY <2>2, Zenon DEF MarketsNext
    <3>2. MarketsTypeOK'
      BY <2>2, MarketsTyped DEF MarketsValid
    <3>3. CASE \E params \in ParamChoices : ListMarket(m, params) \/ UpdateMarket(m, params)
      BY <3>2, <3>3, Zenon DEF ListMarket, UpdateMarket, MarketsValid, MarketsTypeOK, IsListed
    <3>4. CASE DeactivateMarket(m)
      <4>1. /\ \A k \in Markets : k # m => markets'[k] = markets[k]
            /\ markets[m] \in MarketParams /\ markets'[m] = [markets[m] EXCEPT !.active = FALSE]
        BY <3>4 DEF DeactivateMarket, IsListed, MarketsValid, MarketsTypeOK
      <4>2. ValidParams(markets[m])
        BY <3>4 DEF DeactivateMarket, MarketsValid
      <4>3. ValidParams(markets'[m])
        BY <4>1, <4>2, Zenon DEF ValidParams, MarketParams
      <4>4. QED
        BY <3>2, <4>1, <4>3, Zenon DEF MarketsValid, IsListed
    <3>5. QED
      BY <3>1, <3>3, <3>4, Zenon
  <2>3. UNCHANGED markets \/ MarketsNext
    <3>1. CASE UNCHANGED exchangeVars
      BY <3>1 DEF exchangeVars, chain
    <3>2. CASE TraderNext \/ FundNext
      BY <3>2, Zenon DEF TraderNext, FundNext, UserDeposit, UserWithdraw, FundDeposit, FundWithdraw, chain
    <3>3. CASE SettlementNext
      BY <3>3, Zenon DEF SettlementNext, ApplyBatch, SetOperator, SetFillHook
    <3>4. CASE RiskNext
      BY <3>4, Zenon DEF RiskNext, Liquidate, Adl, ApplyFunding, chain
    <3>5. CASE CounterpartyNext \/ ListingNext
      BY <3>5, Zenon DEF CounterpartyNext, ListingNext
    <3>6. CASE EnvironmentNext
      BY <3>6, Zenon DEF EnvironmentNext, OracleAnswers, Tick
    <3>7. QED
      BY <3>1, <3>2, <3>3, <3>4, <3>5, <3>6, Zenon DEF ExchangeNext
  <2>4. QED
    BY <2>1, <2>2, <2>3, Zenon
<1>3. QED
  BY <1>1, <1>2, PTL DEF ExchangeSpec

\* isWithdrawSafe walks the list of the user's markets.  If the user has a
\* position in one market only, the walk sees that one, once.
LEMMA OnlyEntry ==
    ASSUME RegistryOK(registry), NEW u \in Users, NEW m \in Markets,
           registry.positions[u][m].size # 0,
           \A k \in Markets : registry.positions[u][k].size # 0 => k = m
    PROVE  \E i : OpenEntries(u) = {i} /\ registry.userMarkets[u][i] = m /\ registry.userMarkets[u] # <<>>
<1> DEFINE list == registry.userMarkets[u]
           index == registry.indexPlusOne[u]
           open == [k \in Markets |-> registry.positions[u][k].size # 0]
           held(k) == registry.positions[u][k].size # 0
           i == index[m]
<1>1. list \in Seq(Markets) /\ index \in [Markets -> Nat] /\ Exact(list, index, open)
  BY Zenon DEF RegistryOK, Registry
<1>2. open[m] /\ \A k \in Markets : held(k) => k = m
  BY Zenon
<1>3. OpenEntries(u) = {j \in DOMAIN list : held(list[j])} /\ held(m)
  BY Zenon DEF OpenEntries, UserPosition
<1> HIDE DEF list, index, open, held
<1>4. i \in 1 .. Len(list) /\ list[i] = m
  BY <1>1, <1>2 DEF Exact
<1>5. DOMAIN list = 1 .. Len(list) /\ \A j \in 1 .. Len(list) : list[j] \in Markets /\ index[list[j]] = j
  BY <1>1 DEF Exact
<1>6. \A j \in DOMAIN list : held(list[j]) => j = i
  BY <1>2, <1>5, Zenon
<1> HIDE DEF i
<1>7. OpenEntries(u) = {i}
  BY <1>3, <1>4, <1>5, <1>6
<1>8. list # <<>>
  BY <1>1, <1>4
<1>9. QED
  BY <1>4, <1>7, <1>8, Zenon DEF list

\* A sum of one summand is that summand.
SumsOfOne == \A i : \A f \in [{i} -> Int] : SumFunction(f) = f[i]

(***************************************************************************)
(* A user with a position in one market only is not liquidatable after a   *)
(* withdrawal: isWithdrawSafe asked for the initial margin that is more    *)
(* than the maintenance margin healthFactor asks for.                      *)
(***************************************************************************)
LEMMA WithdrawOfOneMarket ==
    ASSUME SumsOfOne, RegistryOK(registry), vault \in VaultType,
           price \in [Markets -> Prices \cup {NoPrice}], MarketsValid,
           NEW u \in Users, NEW a \in Amounts, UserWithdraw(u, a),
           NEW m \in Markets, price[m] # NoPrice,
           \A k \in Markets : registry.positions[u][k].size # 0 => k = m
    PROVE  ~ Liquidatable(u, m)'
<1> SUFFICES ASSUME Liquidatable(u, m)' PROVE FALSE
  BY Zenon
<1> DEFINE p == registry.positions[u][m]
           b == vault.balances[u] - a
           im == markets[m].imRatioBps
           mm == markets[m].mmRatioBps
<1>1. /\ registry' = registry /\ markets' = markets /\ price' = price
      /\ vault' = Moved(vault, u, -a, -a) /\ vault.balances[u] >= a /\ IsWithdrawSafe(u, a)
  BY Zenon DEF UserWithdraw, Withdraw, chain
<1>2. a \in Nat /\ vault \in VaultType /\ p \in PositionType /\ price[m] \in Nat
  <2>1. price[m] \in Nat
    BY PriceNat, Zenon
  <2>2. a \in Nat
    BY VaultAssumption, Zenon
  <2>3. vault \in VaultType /\ p \in PositionType
    BY DEF RegistryOK, Registry
  <2>4. QED
    BY <2>1, <2>2, <2>3, Zenon
<1>3. b \in Nat /\ vault'.balances[u] = b
  BY <1>1, <1>2 DEF Moved, VaultType
<1>4. mm \in Nat /\ im \in Nat /\ mm <= im
  <2>1. IsListed(m)
    BY <1>1, Zenon DEF Liquidatable, IsMarketActive, IsListed
  <2>2. markets[m] \in MarketParams /\ ValidParams(markets[m])
    BY <2>1 DEF MarketsValid, MarketsTypeOK, IsListed
  <2>3. QED
    BY <2>2 DEF ValidParams, MarketParams
<1>5. HealthFactor(p, b, price[m], mm) < X18
  BY <1>1, <1>3, Zenon DEF Liquidatable, Health
<1>6. ASSUME p.size # 0
      PROVE  b * USDC_TO_X18 + UnrealisedPnl(p, price[m]) >= Margin(p.size, price[m], im)
  <2>1. PICK i : OpenEntries(u) = {i} /\ registry.userMarkets[u][i] = m /\ registry.userMarkets[u] # <<>>
    BY <1>6, OnlyEntry, Zenon
  <2> DEFINE f == [j \in {i} |-> UnrealisedPnl(UserPosition(u, j), price[registry.userMarkets[u][j]])]
             g == [j \in {i} |-> Margin(UserPosition(u, j).size, price[registry.userMarkets[u][j]],
                                        markets[registry.userMarkets[u][j]].imRatioBps)]
  <2>2. f[i] = UnrealisedPnl(p, price[m]) /\ g[i] = Margin(p.size, price[m], im)
    BY <2>1, Zenon DEF UserPosition
  <2>3. Equity(u, b) = b * USDC_TO_X18 + SumFunction(f) /\ RequiredMargin(u) = SumFunction(g)
    BY <2>1, Zenon DEF Equity, RequiredMargin
  <2>4. Equity(u, b) >= RequiredMargin(u)
    BY <1>1, <2>1, Zenon DEF IsWithdrawSafe
  <2>5. f[i] \in Int /\ g[i] \in Int
    <3>1. p.size \in Int
      BY <1>2, Zenon DEF PositionType
    <3>2. UnrealisedPnl(p, price[m]) \in Int
      BY <1>2, PnlInt, Zenon
    <3>3. Margin(p.size, price[m], im) \in Nat
      BY <1>2, <1>4, <3>1, MarginMonotone, Zenon
    <3> HIDE DEF f, g
    <3>4. QED
      BY <2>2, <3>2, <3>3
  <2>6. f \in [{i} -> Int] /\ g \in [{i} -> Int]
    BY <2>5, Zenon
  <2> HIDE DEF f, g
  <2>7. SumFunction(f) = f[i] /\ SumFunction(g) = g[i]
    BY <2>6, Zenon DEF SumsOfOne
  <2>8. QED
    BY <2>2, <2>3, <2>4, <2>7
<1>7. HealthFactor(p, b, price[m], mm) \in Nat /\ HealthFactor(p, b, price[m], mm) >= X18
  BY <1>2, <1>3, <1>4, <1>6, InitialMarginIsHealthy, Zenon
<1>8. QED
  BY <1>5, <1>7, ScaleAssumption

=============================================================================
