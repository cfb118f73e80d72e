---------------------------- MODULE ExchangeCalls ----------------------------
(***************************************************************************)
(* The calls the exchange's transactions are made of (a fill of a batch, a *)
(* seizure, a payment from the fund, a liquidation, one victim of adl) and *)
(* the loops over them: what each keeps of the storages, for every number  *)
(* of users, markets and calls.                                            *)
(***************************************************************************)
EXTENDS ExchangeFills

-----------------------------------------------------------------------------
\* A turn of applyBatch's loop: the fill, its settlement and the hook, which
\* touches the counterparty's mirror only.
LEMMA SettleFillStep ==
    ASSUME Laws, NEW w, WorldOK(w), NEW f \in FillType, SettleFill(w, f).ok
    PROVE  Moves(w, SettleFill(w, f), f.market, f.sizeDelta, f.sizeDelta * f.price)
<1> DEFINE u == f.user
           m == f.market
           d == f.sizeDelta
           px == f.price
           s == FillAndSettle(w, u, m, d, px, f.fee)
           g == FillRealised(w.registry, u, m, d, px)
           c == OnFill(s.cp, u, m, d, g)
           e == SettleFill(w, f)
<1>1. u \in Users /\ m \in Markets /\ d \in Int /\ px \in Nat /\ f.fee \in Int
  BY DEF FillType
<1>2. s.ok
  BY DEF SettleFill
<1>3. e = IF ~s.ok \/ ~settlement.hook THEN s
          ELSE IF CanOnFill(s.cp, u, m, d) THEN [s EXCEPT !.cp = c]
          ELSE [s EXCEPT !.ok = FALSE]
  BY DEF SettleFill
<1> HIDE DEF u, m, d, px, c, e
<1>4. Moves(w, s, m, d, d * px)
  BY <1>1, <1>2, FillAndSettleStep
<1> HIDE DEF s
<1>5. s \in WorldType /\ WorldOK(s)
  BY <1>4 DEF Moves, WorldOK
<1>6. CASE e = s
  BY <1>4, <1>6 DEF e, m, d, px
<1>7. CASE e = [s EXCEPT !.cp = c]
  <2>1. g \in Int
    <3> DEFINE p == w.registry.positions[u][m]
    <3>1. p \in PositionType
      BY <1>1, Zenon DEF WorldOK, RegistryOK, Registry
    <3> HIDE DEF p
    <3>2. p.size \in Int /\ p.entryPriceX18 \in Nat
      BY <3>1 DEF PositionType
    <3> DEFINE a == ClosedSize(p, d)
               b == px - p.entryPriceX18
    <3>3. a \in Int /\ b \in Int
      BY <1>1, <3>2 DEF ClosedSize
    <3>4. g = TruncDiv(a * b, X18)
      BY DEF p, FillRealised, RealisedPnl
    <3> HIDE DEF a, b, g
    <3>5. a * b \in Int
      BY <3>3
    <3>6. TruncDiv(a * b, X18) \in Int
      BY <3>5, TruncDivLoss, ScaleAssumption
    <3>7. QED
      BY <3>4, <3>6
  <2> HIDE DEF g
  <2>2. s.cp \in CounterpartyType
    BY <1>5 DEF WorldType
  <2>3. c \in CounterpartyType /\ c.pending = s.cp.pending
    BY <1>1, <2>1, <2>2 DEF c, OnFill, CounterpartyType
  <2>4. /\ e.ok = s.ok /\ e.registry = s.registry /\ e.vault = s.vault /\ e.usdc = s.usdc
        /\ e.ledger = s.ledger /\ e.cp = c /\ e \in WorldType
    BY <1>5, <1>7, <2>3 DEF WorldType
  <2>5. WorldOK(e)
    BY <1>5, <2>4 DEF WorldOK
  <2>6. Imbalance(e) = Imbalance(s) /\ \A k \in Markets : NetSize(e, k) = NetSize(s, k)
    BY <2>4 DEF Imbalance, NetSize
  <2>7. Moves(w, e, m, d, d * px)
    BY <1>4, <2>3, <2>4, <2>5, <2>6 DEF Moves
  <2>8. QED
    BY <2>7 DEF e, m, d, px
<1>8. e = s \/ e = [s EXCEPT !.cp = c]
  <2>1. [s EXCEPT !.ok = FALSE].ok = FALSE
    BY <1>5 DEF WorldType
  <2>2. e.ok
    BY DEF e
  <2>3. QED
    BY <1>3, <2>1, <2>2
<1>9. QED
  BY <1>6, <1>7, <1>8

\* seizeForLiquidation as the last call of liquidate.
LEMMA SeizeAllStep ==
    ASSUME Laws, NEW w, WorldOK(w), NEW u \in Users, NEW k \in Keepers, NEW bonus \in Nat,
           NEW m \in Markets, SeizeAll(w, u, k, bonus).ok
    PROVE  Moves(w, SeizeAll(w, u, k, bonus), m, 0, 0)
<1> DEFINE v == Seized(w.vault, u)
           t == SeizedTokens(w.vault, w.usdc, u, k, FUND, bonus)
           s == SeizeAll(w, u, k, bonus)
<1>1. w \in WorldType /\ w.vault \in VaultType /\ w.usdc \in [Accounts -> Nat]
      /\ w.usdc[VAULT] >= w.vault.totalDeposits /\ w.ledger.dust \in Nat
  BY DEF WorldOK, WorldType, LedgerType
<1>2. w.ok /\ CanSeize(w.vault, w.usdc, u) /\ s = [w EXCEPT !.vault = v, !.usdc = t]
  BY <1>1 DEF SeizeAll, WorldType
<1>3. k \in Accounts \ {VAULT} /\ FUND \in Accounts \ {VAULT}
  BY ExchangeAssumption
<1>4. v \in VaultType /\ t \in [Accounts -> Nat] /\ t[VAULT] >= v.totalDeposits
  BY <1>1, <1>2, <1>3, SeizedCovered, Zenon
<1>5. Unbacked(v) = Unbacked(w.vault)
  <2> DEFINE d == -w.vault.balances[u]
  <2>1. d \in Int /\ v = Moved(w.vault, u, d, d)
    BY <1>1 DEF Seized, VaultType
  <2> HIDE DEF d, v
  <2>2. QED
    BY <1>1, <1>4, <2>1, MovedSums
<1> HIDE DEF v, t
<1>6. /\ WorldOK(s) /\ s.cp = w.cp /\ s.registry = w.registry /\ s.ledger = w.ledger
      /\ Imbalance(s) = Imbalance(w)
      /\ \A j \in Markets : NetSize(s, j) = NetSize(w, j)
  <2> HIDE DEF s
  <2>1. /\ s \in WorldType /\ s.vault = v /\ s.usdc = t
        /\ s.cp = w.cp /\ s.registry = w.registry /\ s.ledger = w.ledger
    BY <1>1, <1>2, <1>4, Zenon DEF WorldType
  <2>2. QED
    BY <1>4, <1>5, <2>1, PaidOutStep
<1>7. Imbalance(w) \in Int /\ \A j \in Markets : NetSize(w, j) \in Int
  BY ImbalanceTypes
<1>8. QED
  BY <1>1, <1>2, <1>6, <1>7 DEF Moves

\* debitToExternal as the last call of _adlOne.
LEMMA DebitToFundStep ==
    ASSUME Laws, NEW w, WorldOK(w), NEW u \in Users, NEW n \in Nat,
           NEW m \in Markets, DebitToFund(w, u, n).ok
    PROVE  Moves(w, DebitToFund(w, u, n), m, 0, 0)
<1> DEFINE v == Debited(w.vault, u, n)
           t == DebitedTokens(w.vault, w.usdc, u, FUND, n)
           s == DebitToFund(w, u, n)
<1>1. w \in WorldType /\ w.vault \in VaultType /\ w.usdc \in [Accounts -> Nat]
      /\ w.usdc[VAULT] >= w.vault.totalDeposits /\ w.ledger.dust \in Nat
  BY DEF WorldOK, WorldType, LedgerType
<1>2. w.ok /\ CanDebit(w.vault, w.usdc, u, n) /\ s = [w EXCEPT !.vault = v, !.usdc = t]
  BY <1>1 DEF DebitToFund, WorldType
<1>3. FUND \in Accounts \ {VAULT}
  BY ExchangeAssumption
<1>4. v \in VaultType /\ t \in [Accounts -> Nat] /\ t[VAULT] >= v.totalDeposits
  BY <1>1, <1>2, <1>3, DebitedCovered
<1>5. Unbacked(v) = Unbacked(w.vault)
  <2> DEFINE d == -DebitPaid(w.vault, u, n)
  <2>1. d \in Int /\ v = Moved(w.vault, u, d, d)
    BY <1>1 DEF Debited, DebitPaid, VaultType
  <2> HIDE DEF d, v
  <2>2. QED
    BY <1>1, <1>4, <2>1, MovedSums
<1> HIDE DEF v, t
<1>6. /\ WorldOK(s) /\ s.cp = w.cp /\ s.registry = w.registry /\ s.ledger = w.ledger
      /\ Imbalance(s) = Imbalance(w)
      /\ \A j \in Markets : NetSize(s, j) = NetSize(w, j)
  <2> HIDE DEF s
  <2>1. /\ s \in WorldType /\ s.vault = v /\ s.usdc = t
        /\ s.cp = w.cp /\ s.registry = w.registry /\ s.ledger = w.ledger
    BY <1>1, <1>2, <1>4, Zenon DEF WorldType
  <2>2. QED
    BY <1>4, <1>5, <2>1, PaidOutStep
<1>7. Imbalance(w) \in Int /\ \A j \in Markets : NetSize(w, j) \in Int
  BY ImbalanceTypes
<1>8. QED
  BY <1>1, <1>2, <1>6, <1>7 DEF Moves

-----------------------------------------------------------------------------
\* Calls one after the other.
LEMMA MovesTwice ==
    ASSUME Laws, NEW w, NEW s, NEW t, NEW m, NEW d \in Int, NEW e \in Int,
           NEW paid \in Int, NEW more \in Int,
           WorldOK(w), Moves(w, s, m, d, paid), Moves(s, t, m, e, more)
    PROVE  Moves(w, t, m, d + e, paid + more)
<1>1. WorldOK(s) /\ WorldOK(t)
  BY DEF Moves
<1>2. /\ Imbalance(w) \in Int /\ Imbalance(s) \in Int /\ Imbalance(t) \in Int
      /\ \A k \in Markets : NetSize(w, k) \in Int
  BY <1>1, ImbalanceTypes
<1>3. w.ledger.dust \in Nat /\ s.ledger.dust \in Nat /\ t.ledger.dust \in Nat
  BY <1>1 DEF WorldOK, WorldType, LedgerType
<1> DEFINE D == s.ledger.dust - w.ledger.dust
           E == t.ledger.dust - s.ledger.dust
           F == t.ledger.dust - w.ledger.dust
<1>4. D \in Nat /\ E \in Nat /\ F \in Nat /\ F = D + E
  BY <1>3 DEF Moves
<1>5. /\ Imbalance(s) - Imbalance(w) + paid \in -D .. D
      /\ Imbalance(t) - Imbalance(s) + more \in -E .. E
  BY DEF Moves
<1> HIDE DEF D, E, F
<1>6. Imbalance(t) - Imbalance(w) + (paid + more) \in -F .. F
  BY <1>2, <1>4, <1>5
<1>7. \A k \in Markets : NetSize(t, k) = NetSize(w, k) + (IF k = m THEN d + e ELSE 0)
  <2>1. \A k \in Markets : /\ NetSize(s, k) = NetSize(w, k) + (IF k = m THEN d ELSE 0)
                           /\ NetSize(t, k) = NetSize(s, k) + (IF k = m THEN e ELSE 0)
    BY DEF Moves
  <2>2. QED
    BY <1>2, <2>1
<1>8. /\ w.ok /\ t.cp.pending = w.cp.pending
      /\ t.registry.marketIndexFunding = w.registry.marketIndexFunding
  BY DEF Moves
<1>9. QED
  BY <1>1, <1>4, <1>6, <1>7, <1>8, Zenon DEF Moves, F

\* Before the first call, and where no call moves anything.
LEMMA MovesNone ==
    ASSUME Laws, NEW w, WorldOK(w), w.ok, NEW m
    PROVE  Moves(w, w, m, 0, 0)
<1> DEFINE i == Imbalance(w)
           D == w.ledger.dust
<1>1. i \in Int /\ (\A k \in Markets : NetSize(w, k) \in Int) /\ D \in Nat
  BY ImbalanceTypes, Zenon DEF WorldOK, WorldType, LedgerType
<1> HIDE DEF i, D
<1>2. /\ D - D \in Nat /\ i - i + 0 \in -(D - D) .. (D - D)
      /\ \A k \in Markets : NetSize(w, k) = NetSize(w, k) + (IF k = m THEN 0 ELSE 0)
  BY <1>1
<1>3. QED
  BY <1>2, Zenon DEF Moves, i, D

\* See MovesNone.
LEMMA MovesNoneTwice ==
    ASSUME Laws, NEW w, NEW s, NEW t, NEW m,
           WorldOK(w), Moves(w, s, m, 0, 0), Moves(s, t, m, 0, 0)
    PROVE  Moves(w, t, m, 0, 0)
<1>1. Moves(w, t, m, 0 + 0, 0 + 0)
  BY MovesTwice
<1>2. QED
  BY <1>1

\* A close that reverts leaves well-formed storages behind it, too.
LEMMA CloseOK ==
    ASSUME Laws, NEW w, WorldOK(w), NEW u \in Users, NEW m \in Markets, NEW d \in Int, NEW px \in Nat
    PROVE  LET s == FillAndSettle(w, u, m, d, px, 0)
               t == TakenOver(s, m, d, px)
           IN  t \in WorldType /\ WorldOK(t) /\ t.ok = s.ok
<1> DEFINE s == FillAndSettle(w, u, m, d, px, 0)
<1>1. WorldOK(s)
  BY FillAndSettleOK
<1> HIDE DEF s
<1>2. WorldOK(TakenOver(s, m, d, px)) /\ TakenOver(s, m, d, px).ok = s.ok
  BY <1>1, TakenOverStep
<1>3. QED
  BY <1>2, Zenon DEF s, WorldOK

(***************************************************************************)
(* A close at the mark (_closeAndSettle, _adlOne): what its other side     *)
(* would have paid and held is booked as nobody's, so nothing is lost.     *)
(***************************************************************************)
LEMMA CloseStep ==
    ASSUME Laws, NEW w, WorldOK(w), NEW u \in Users, NEW m \in Markets, NEW d \in Int, NEW px \in Nat,
           TakenOver(FillAndSettle(w, u, m, d, px, 0), m, d, px).ok
    PROVE  Moves(w, TakenOver(FillAndSettle(w, u, m, d, px, 0), m, d, px), m, 0, 0)
<1> DEFINE s == FillAndSettle(w, u, m, d, px, 0)
           t == TakenOver(s, m, d, px)
<1>1. s.ok
  BY CloseOK
<1>2. Moves(w, s, m, d, d * px)
  BY <1>1, FillAndSettleStep
<1> HIDE DEF s
<1>3. WorldOK(s)
  BY <1>2 DEF Moves
<1>4. /\ WorldOK(t) /\ t.cp = s.cp /\ t.registry = s.registry
      /\ t.ledger.dust = s.ledger.dust
      /\ Imbalance(t) = Imbalance(s) + d * px
      /\ \A k \in Markets : NetSize(t, k) = NetSize(s, k) - (IF k = m THEN d ELSE 0)
  BY <1>3, TakenOverStep
<1>5. /\ d * px \in Int /\ -(d * px) \in Int /\ -d \in Int /\ s.ledger.dust \in Nat
      /\ Imbalance(s) \in Int /\ \A k \in Markets : NetSize(s, k) \in Int
  BY <1>3, ImbalanceTypes DEF WorldOK, WorldType, LedgerType
<1> HIDE DEF t
<1>6. Moves(s, t, m, -d, -(d * px))
  BY <1>1, <1>4, <1>5 DEF Moves
<1>7. Moves(w, t, m, d + (-d), d * px + (-(d * px)))
  BY <1>2, <1>5, <1>6, MovesTwice
<1>8. d + (-d) = 0 /\ d * px + (-(d * px)) = 0
  BY <1>5
<1>9. Moves(w, t, m, 0, 0)
  BY <1>7, <1>8
<1>10. QED
  BY <1>9 DEF s, t

-----------------------------------------------------------------------------
\* liquidate: close at the mark, settle, seize; nothing is made or lost.
LEMMA LiquidatedStep ==
    ASSUME Laws, WorldOK(World), MarketsTypeOK, price \in [Markets -> Prices \cup {NoPrice}],
           NEW u \in Users, NEW m \in Markets, NEW k \in Keepers,
           IsMarketActive(m), price[m] # NoPrice, Liquidated(u, m, k).ok
    PROVE  Moves(World, Liquidated(u, m, k), m, 0, 0)
<1> DEFINE w == World
           size == registry.positions[u][m].size
           px == price[m]
           t == TakenOver(FillAndSettle(w, u, m, -size, px, 0), m, -size, px)
           bonus == BonusUSDC(m, size)
           e == SeizeAll(t, u, k, bonus)
<1>1. size \in Int /\ -size \in Int
  <2>1. registry \in Registry
    BY Zenon DEF WorldOK, RegistryOK, World
  <2>2. QED
    BY <2>1 DEF Registry, PositionType
<1>2. px \in Nat /\ bonus \in Nat
  <2> HIDE DEF size
  <2>1. QED
    BY <1>1, BonusNat
<1>3. Liquidated(u, m, k) = e
  BY Zenon DEF Liquidated
<1> HIDE DEF w, size, px, bonus
<1>4. t.ok
  <2>1. CASE t.ok = TRUE
    BY <2>1
  <2>2. CASE e = [t EXCEPT !.ok = FALSE]
    <3>1. t \in WorldType
      BY <1>1, <1>2, CloseOK, Zenon DEF w
    <3> HIDE DEF t
    <3>2. e.ok = FALSE
      BY <2>2, <3>1 DEF WorldType
    <3>3. QED
      BY <1>3, <3>2
  <2>3. QED
    BY <2>1, <2>2 DEF SeizeAll
<1>5. Moves(w, t, m, 0, 0)
  BY <1>1, <1>2, <1>4, CloseStep DEF w
<1> HIDE DEF t
<1>6. Moves(t, e, m, 0, 0)
  <2>1. WorldOK(t)
    BY <1>5, Zenon DEF Moves
  <2>2. QED
    BY <1>2, <1>3, <2>1, SeizeAllStep, Zenon
<1>7. Moves(w, e, m, 0, 0)
  BY <1>5, <1>6, MovesNoneTwice, Zenon DEF w
<1>8. QED
  BY <1>3, <1>7 DEF w

\* _adlOne: close at the mark, settle, claw back; nothing is made or lost.
LEMMA AdlOneStep ==
    ASSUME Laws, NEW w, WorldOK(w), NEW u \in Users, NEW m \in Markets, NEW d \in Int,
           price[m] \in Nat, AdlOne(w, m, u, d).ok
    PROVE  Moves(w, AdlOne(w, m, u, d), m, 0, 0)
<1> DEFINE p == w.registry.positions[u][m]
           px == price[m]
           t == TakenOver(FillAndSettle(w, u, m, d, px, 0), m, d, px)
           n == ClawBack(w.registry, u, m, d)
           e == DebitToFund(t, u, n)
<1>1. /\ p.size # 0 /\ d # 0 /\ ~SameSide(p.size, d) /\ Profitable(p, px)
      /\ AdlOne(w, m, u, d) = e
  BY Zenon DEF AdlOne, WorldOK, WorldType
<1>2. n \in Nat
  BY <1>1, ClawBackNat, Zenon DEF WorldOK
<1>3. t \in WorldType
  BY CloseOK, Zenon
<1> HIDE DEF n
<1>4. t.ok
  <2>1. CASE e = [t EXCEPT !.ok = FALSE]
    <3> HIDE DEF t
    <3>1. e.ok = FALSE
      BY <1>3, <2>1 DEF WorldType
    <3>2. QED
      BY <1>1, <3>1, Zenon
  <2>2. CASE t.ok
    BY <2>2
  <2>3. QED
    BY <2>1, <2>2 DEF DebitToFund
<1>5. Moves(w, t, m, 0, 0)
  BY <1>4, CloseStep
<1> HIDE DEF t
<1>6. Moves(t, e, m, 0, 0)
  <2>1. WorldOK(t)
    BY <1>5, Zenon DEF Moves
  <2>2. QED
    BY <1>1, <1>2, <2>1, DebitToFundStep, Zenon
<1>7. Moves(w, e, m, 0, 0)
  BY <1>5, <1>6, MovesNoneTwice, Zenon
<1>8. QED
  BY <1>1, <1>7, Zenon

-----------------------------------------------------------------------------
(***************************************************************************)
(* The loops of applyBatch and adl: a turn may revert the transaction, and *)
(* leaves well-formed storages if it does not.                             *)
(***************************************************************************)
\* A turn that is not reverted follows turns that were not.
LEMMA SettleFillOK ==
    ASSUME Laws, NEW w, WorldOK(w), NEW f \in FillType
    PROVE  WorldOK(SettleFill(w, f))
<1> DEFINE s == FillAndSettle(w, f.user, f.market, f.sizeDelta, f.price, f.fee)
           e == SettleFill(w, f)
<1>1. CASE e.ok
  BY <1>1, SettleFillStep DEF Moves
<1>2. CASE ~e.ok
  <2>1. WorldOK(s)
    BY FillAndSettleOK DEF FillType
  <2>2. e = s \/ e = [s EXCEPT !.ok = FALSE]
    <3> HIDE DEF s
    <3> DEFINE c == OnFill(s.cp, f.user, f.market, f.sizeDelta,
                           FillRealised(w.registry, f.user, f.market, f.sizeDelta, f.price))
    <3>1. e = IF ~s.ok \/ ~settlement.hook THEN s
              ELSE IF CanOnFill(s.cp, f.user, f.market, f.sizeDelta) THEN [s EXCEPT !.cp = c]
              ELSE [s EXCEPT !.ok = FALSE]
      BY DEF SettleFill, s
    <3> HIDE DEF c, e
    <3>2. [s EXCEPT !.cp = c].ok = s.ok
      BY <2>1 DEF WorldOK, WorldType
    <3>3. QED
      BY <1>2, <3>1, <3>2
  <2> HIDE DEF s
  <2>3. QED
    BY <2>1, <2>2, Zenon DEF WorldOK, WorldType
<1>3. QED
  BY <1>1, <1>2

\* See SettleFillOK.
LEMMA AdlOneOK ==
    ASSUME Laws, NEW w, WorldOK(w), NEW u \in Users, NEW m \in Markets, NEW d \in Int, price[m] \in Nat
    PROVE  WorldOK(AdlOne(w, m, u, d))
<1> DEFINE t == TakenOver(FillAndSettle(w, u, m, d, price[m], 0), m, d, price[m])
           n == ClawBack(w.registry, u, m, d)
           e == AdlOne(w, m, u, d)
<1>1. CASE e.ok
  BY <1>1, AdlOneStep, Zenon DEF Moves
<1>2. CASE ~e.ok
  <2>1. WorldOK(t)
    BY CloseOK, Zenon
  <2>2. e = [w EXCEPT !.ok = FALSE] \/ e = DebitToFund(t, u, n)
    BY Zenon DEF AdlOne
  <2> HIDE DEF t, e, n
  <2>3. e = [w EXCEPT !.ok = FALSE] \/ e = [t EXCEPT !.ok = FALSE]
    <3>1. CASE e = DebitToFund(t, u, n)
      <4> DEFINE v == Debited(t.vault, u, n)
                 y == DebitedTokens(t.vault, t.usdc, u, FUND, n)
      <4>1. e = [t EXCEPT !.ok = FALSE] \/ (t.ok /\ e = [t EXCEPT !.vault = v, !.usdc = y])
        BY <2>1, <3>1 DEF DebitToFund, WorldOK, WorldType
      <4> HIDE DEF v, y
      <4>2. [t EXCEPT !.vault = v, !.usdc = y].ok = t.ok
        BY <2>1 DEF WorldOK, WorldType
      <4>3. QED
        BY <1>2, <4>1, <4>2, Zenon
    <3>2. QED
      BY <2>2, <3>1
  <2>4. WorldOK(e)
    BY <2>1, <2>3, Zenon DEF WorldOK, WorldType
  <2>5. QED
    BY <2>4 DEF e
<1>3. QED
  BY <1>1, <1>2

\* Where nothing moves, the market does not matter.
LEMMA MovesAnywhere ==
    ASSUME NEW w, NEW s, NEW m, NEW k, Moves(w, s, m, 0, 0)
    PROVE  Moves(w, s, k, 0, 0)
BY Zenon DEF Moves

-----------------------------------------------------------------------------
\* The funding a position has accrued is a number.
LEMMA FillFundingInt ==
    ASSUME NEW w, WorldOK(w), NEW u \in Users, NEW m \in Markets
    PROVE  FillFunding(w.registry, u, m) \in Int
<1> DEFINE p == w.registry.positions[u][m]
           idx == w.registry.marketIndexFunding[m]
           a == (idx - p.cumulativeFunding) * p.size
<1>1. p \in PositionType /\ idx \in Int
  BY Zenon DEF WorldOK, RegistryOK, Registry
<1>2. a \in Int
  <2> HIDE DEF p, idx
  <2>1. p.size \in Int /\ p.cumulativeFunding \in Int
    BY <1>1 DEF PositionType
  <2>2. QED
    BY <1>1, <2>1
<1> HIDE DEF a
<1>3. -TruncDiv(a, X18) \in Int
  BY <1>2, TruncDivLoss, ScaleAssumption
<1>4. QED
  BY <1>3, Zenon DEF FillFunding, FundingCashflow, a

(***************************************************************************)
(* What _adlOne does to its victim's balance: credited realised PnL and    *)
(* funding, debited at most the realised PnL; nobody else's moves.         *)
(***************************************************************************)
AdlPays(w, e, u, m, d) ==
    LET r == FillRealised(w.registry, u, m, d, price[m])
        f == FillFunding(w.registry, u, m)
    IN  /\ r \in Nat /\ f \in Int
        /\ e.registry = Filled(w.registry, u, m, d, price[m])
        /\ e.vault.balances[u] >= w.vault.balances[u] + (ToRawUsdcDelta(r + f) - ToRawUsdcDelta(r))
        /\ \A k \in Users : k # u => e.vault.balances[k] = w.vault.balances[k]

\* _adlOne moves its victim's balance as AdlPays says.
LEMMA AdlOneBalances ==
    ASSUME NEW w, WorldOK(w), NEW u \in Users, NEW m \in Markets, NEW d \in Int,
           price[m] \in Nat, AdlOne(w, m, u, d).ok
    PROVE  AdlPays(w, AdlOne(w, m, u, d), u, m, d)
<1> DEFINE p == w.registry.positions[u][m]
           px == price[m]
           r == FillRealised(w.registry, u, m, d, px)
           f == FillFunding(w.registry, u, m)
           c == ToRawUsdcDelta(r + f)
           n == ToRawUsdcDelta(r)
           s == FillAndSettle(w, u, m, d, px, 0)
           t == TakenOver(s, m, d, px)
           e == DebitToFund(t, u, n)
<1>1. /\ p.size # 0 /\ d # 0 /\ ~SameSide(p.size, d) /\ Profitable(p, px)
      /\ AdlOne(w, m, u, d) = e
  BY Zenon DEF AdlOne, ClawBack, WorldOK, WorldType
<1>2. r \in Nat /\ n \in Nat
  BY <1>1, ClawBackNat, Zenon DEF WorldOK, ClawBack
<1>3. f \in Int
  BY FillFundingInt
<1> HIDE DEF r, f
<1>4. c \in Int /\ c = ToRawUsdcDelta(r + f + 0)
  <2>1. r + f + 0 = r + f
    BY <1>2, <1>3
  <2>2. c \in Int
    BY <1>2, <1>3, TwoConversions, Zenon
  <2>3. QED
    BY <2>1, <2>2, Zenon
<1> HIDE DEF n, c
<1>5. t.ok
  <2> HIDE DEF t
  <2>1. QED
    BY <1>1 DEF DebitToFund
<1>6. /\ t.registry = Filled(w.registry, u, m, d, px)
      /\ t.vault = SettlementApplied(w.vault, u, c)
      /\ CanApplySettlement(w.vault, u, c)
  BY <1>4, <1>5, Zenon DEF TakenOver, FillAndSettle, r, f, WorldOK, WorldType
<1>7. /\ e.registry = t.registry
      /\ e.vault = Debited(t.vault, u, n)
  <2> HIDE DEF t
  <2>1. QED
    BY <1>1 DEF DebitToFund
<1> HIDE DEF e, t
<1>8. /\ e.vault.balances[u] >= w.vault.balances[u] + (c - n)
      /\ \A k \in Users : k # u => e.vault.balances[k] = w.vault.balances[k]
  <2> DEFINE B == w.vault.balances
             y == DebitPaid(t.vault, u, n)
  <2>1. B \in [Users -> Nat]
    BY DEF WorldOK, WorldType, VaultType
  <2>2. t.vault.balances = [B EXCEPT ![u] = B[u] + c]
    BY <1>6 DEF SettlementApplied, Moved
  <2>3. e.vault.balances = [t.vault.balances EXCEPT ![u] = t.vault.balances[u] + (-y)]
    BY <1>7 DEF Debited, Moved
  <2>4. y = IF t.vault.balances[u] < n THEN t.vault.balances[u] ELSE n
    BY DEF DebitPaid
  <2> HIDE DEF B, y
  <2>5. t.vault.balances[u] = B[u] + c /\ B[u] \in Nat
    BY <2>1, <2>2
  <2>6. y \in Int /\ y <= n
    BY <1>2, <1>4, <2>4, <2>5
  <2>7. e.vault.balances[u] = (B[u] + c) + (-y)
    BY <2>1, <2>2, <2>3, <2>5
  <2>8. \A k \in Users : k # u => e.vault.balances[k] = B[k]
    BY <2>1, <2>2, <2>3
  <2>9. (B[u] + c) + (-y) >= B[u] + (c - n)
    BY <1>2, <1>4, <2>5, <2>6
  <2>10. QED
    BY <2>7, <2>8, <2>9, Zenon DEF B
<1>9. QED
  BY <1>1, <1>2, <1>3, <1>6, <1>7, <1>8, Zenon DEF AdlPays, c, n, r, f

(***************************************************************************)
(* Between two turns of adl's loop a user has not been named yet, or has:  *)
(* then the funding is settled, and what the balance lost since storages b *)
(* is less than one unit more than the funding.                            *)
(***************************************************************************)
Unnamed(b, s, u, m) ==
    /\ s.vault.balances[u] = b.vault.balances[u]
    /\ FillFunding(s.registry, u, m) = FillFunding(b.registry, u, m)

Spared(b, s, u, m) ==
    /\ FillFunding(s.registry, u, m) = 0
    /\ USDC_TO_X18 * (s.vault.balances[u] - b.vault.balances[u])
            > FillFunding(b.registry, u, m) - USDC_TO_X18

\* One turn: the victim is spared, also when named again, and nobody else
\* is touched.
LEMMA AdlTurnSpares ==
    ASSUME Laws, NEW b, WorldOK(b), NEW w, WorldOK(w), NEW u \in Users, NEW m \in Markets, NEW d \in Int,
           price[m] \in Nat, AdlOne(w, m, u, d).ok
    PROVE  LET e == AdlOne(w, m, u, d)
           IN  /\ Unnamed(b, w, u, m) \/ Spared(b, w, u, m) => Spared(b, e, u, m)
               /\ \A k \in Users : k # u =>
                     /\ Unnamed(b, w, k, m) => Unnamed(b, e, k, m)
                     /\ Spared(b, w, k, m) => Spared(b, e, k, m)
<1> DEFINE e == AdlOne(w, m, u, d)
           r == FillRealised(w.registry, u, m, d, price[m])
           f == FillFunding(w.registry, u, m)
           g == FillFunding(b.registry, u, m)
           D == ToRawUsdcDelta(r + f) - ToRawUsdcDelta(r)
           old == b.vault.balances[u]
           mid == w.vault.balances[u]
           new == e.vault.balances[u]
<1>1. /\ r \in Nat /\ f \in Int
      /\ e.registry = Filled(w.registry, u, m, d, price[m])
      /\ new >= mid + D
      /\ \A k \in Users : k # u => e.vault.balances[k] = w.vault.balances[k]
  <2>1. AdlPays(w, e, u, m, d)
    BY AdlOneBalances, Zenon
  <2> HIDE DEF e
  <2>2. QED
    BY <2>1, Zenon DEF AdlPays
<1>2. /\ FillFunding(e.registry, u, m) = 0
      /\ \A k \in Users : k # u => FillFunding(e.registry, k, m) = FillFunding(w.registry, k, m)
  <2> HIDE DEF e
  <2>1. RegistryOK(w.registry)
    BY Zenon DEF WorldOK
  <2> DEFINE x == Filled(w.registry, u, m, d, price[m])
  <2>2. /\ FillFunding(x, u, m) = 0
        /\ \A k \in Users : k # u => FillFunding(x, k, m) = FillFunding(w.registry, k, m)
    BY <2>1, FundingSettled
  <2>3. e.registry = x
    BY <1>1, Zenon
  <2> HIDE DEF x
  <2>4. QED
    BY <2>2, <2>3, Zenon
<1> HIDE DEF r, f
<1>3. D \in Int /\ USDC_TO_X18 * D > f - USDC_TO_X18 /\ (f = 0 => D = 0)
  <2> DEFINE a == ToRawUsdcDelta(r + f)
             c == ToRawUsdcDelta(r)
  <2>1. a \in Int /\ c \in Int /\ USDC_TO_X18 * (a - c) > f - USDC_TO_X18
    BY <1>1, TwoConversions, Zenon
  <2>2. f = 0 => r + f = r
    BY <1>1
  <2>3. f = 0 => a = c
    BY <2>2, Zenon
  <2> HIDE DEF a, c
  <2>4. QED
    BY <2>1, <2>3 DEF a, c
<1>4. old \in Nat /\ mid \in Nat /\ new \in Nat
  <2>1. WorldOK(e)
    BY AdlOneOK
  <2> HIDE DEF e
  <2>2. b.vault \in VaultType /\ w.vault \in VaultType /\ e.vault \in VaultType
    BY <2>1, Zenon DEF WorldOK, WorldType
  <2>3. QED
    BY <2>2, Zenon DEF VaultType
<1> HIDE DEF e, D, g, old, mid, new
<1>5. ASSUME Unnamed(b, w, u, m) \/ Spared(b, w, u, m)
      PROVE  USDC_TO_X18 * (new - old) > g - USDC_TO_X18
  <2> DEFINE U == USDC_TO_X18
  <2>1. U \in Nat \ {0} /\ U * D > f - U /\ new - mid - D \in Nat
    BY <1>1, <1>3, <1>4, ScaleAssumption
  <2> HIDE DEF U
  <2>2. U * D \in Int /\ U * (new - old) \in Int /\ U * (mid - old) \in Int
    BY <1>3, <1>4, <2>1
  <2>3. CASE Unnamed(b, w, u, m)
    <3>1. mid = old /\ f = g
      BY <2>3, Zenon DEF Unnamed, mid, old, f, g
    <3>2. U * (new - old) >= U * D
      BY <1>3, <1>4, <2>1, <3>1
    <3>3. QED
      BY <1>1, <2>1, <2>2, <3>1, <3>2 DEF U
  <2>4. CASE Spared(b, w, u, m)
    <3>1. f = 0 /\ U * (mid - old) > g - U
      BY <2>4, Zenon DEF Spared, mid, old, f, g, U
    <3>2. D = 0 /\ new >= mid
      BY <1>1, <1>3, <1>4, <3>1
    <3>3. U * (new - old) >= U * (mid - old)
      BY <1>4, <2>1, <3>2
    <3>4. g \in Int
      BY FillFundingInt, Zenon DEF g
    <3>5. QED
      BY <2>1, <2>2, <3>1, <3>3, <3>4 DEF U
  <2>5. QED
    BY <1>5, <2>3, <2>4
<1>6. Unnamed(b, w, u, m) \/ Spared(b, w, u, m) => Spared(b, e, u, m)
  BY <1>2, <1>5, Zenon DEF Spared, new, old, g
<1>7. ASSUME NEW k \in Users, k # u
      PROVE  /\ Unnamed(b, w, k, m) => Unnamed(b, e, k, m)
             /\ Spared(b, w, k, m) => Spared(b, e, k, m)
  <2>1. e.vault.balances[k] = w.vault.balances[k] /\ FillFunding(e.registry, k, m) = FillFunding(w.registry, k, m)
    BY <1>1, <1>2, <1>7, Zenon
  <2>2. QED
    BY <2>1, Zenon DEF Unnamed, Spared
<1>8. QED
  BY <1>6, <1>7, Zenon DEF e

\* The whole loop: every victim named in it is spared.
LEMMA AdlSpares ==
    ASSUME Laws, WorldOK(World), NEW m \in Markets, price[m] \in Nat,
           NEW vs \in Seq(VictimType), NEW n \in Nat, n = Len(vs),
           NEW w, w[0] = World,
           \A k \in 1 .. n : w[k] = AdlOne(w[k - 1], m, vs[k].user, vs[k].closeSize)
    PROVE  w[n].ok => \A j \in 1 .. n : Spared(World, w[n], vs[j].user, m)
<1> DEFINE b == World
           Done(k) == /\ \A u \in Users : Unnamed(b, w[k], u, m) \/ Spared(b, w[k], u, m)
                      /\ \A j \in 1 .. k : Spared(b, w[k], vs[j].user, m)
           T == {k \in 0 .. n : WorldOK(w[k]) /\ (w[k].ok => Done(k))}
<1>1. 0 \in T
  BY DEF Unnamed
<1>2. ASSUME NEW k \in 1 .. n, k - 1 \in T
      PROVE  k \in T
  <2> DEFINE y == w[k - 1]
             z == w[k]
             v == vs[k].user
  <2>1. v \in Users /\ vs[k].closeSize \in Int /\ k \in 0 .. n
    <3> HIDE DEF T
    <3>1. vs[k] \in VictimType /\ k \in 0 .. n
      OBVIOUS
    <3>2. QED
      BY <3>1 DEF VictimType
  <2>2. z = AdlOne(y, m, v, vs[k].closeSize)
    OBVIOUS
  <2>3. WorldOK(y) /\ (y.ok => Done(k - 1))
    BY <1>2
  <2>4. WorldOK(b)
    OBVIOUS
  <2> HIDE DEF b, Done, T
  <2>5. WorldOK(z)
    BY <2>1, <2>2, <2>3, AdlOneOK, Zenon
  <2>6. ASSUME z.ok PROVE Done(k)
    <3>1. y.ok
      <4> HIDE DEF y, z
      <4>1. Moves(y, z, m, 0, 0)
        BY <2>1, <2>2, <2>3, <2>6, AdlOneStep, Zenon
      <4>2. QED
        BY <4>1, Zenon DEF Moves
    <3>2. /\ \A u \in Users : Unnamed(b, y, u, m) \/ Spared(b, y, u, m)
          /\ \A j \in 1 .. (k - 1) : Spared(b, y, vs[j].user, m)
      BY <2>3, <3>1, Zenon DEF Done
    <3>3. /\ Spared(b, z, v, m)
          /\ \A u \in Users : u # v =>
                /\ Unnamed(b, y, u, m) => Unnamed(b, z, u, m)
                /\ Spared(b, y, u, m) => Spared(b, z, u, m)
      <4> HIDE DEF y, z
      <4>1. QED
        BY <2>1, <2>2, <2>3, <2>4, <2>6, <3>2, AdlTurnSpares, Zenon
    <3>4. \A j \in 1 .. k : vs[j].user \in Users /\ (j = k \/ j \in 1 .. (k - 1))
      <4>1. \A j \in 1 .. k : vs[j] \in VictimType /\ (j = k \/ j \in 1 .. (k - 1))
        OBVIOUS
      <4>2. QED
        BY <4>1, Zenon DEF VictimType
    <3> HIDE DEF y, z
    <3>5. \A u \in Users : Unnamed(b, z, u, m) \/ Spared(b, z, u, m)
      BY <3>2, <3>3, Zenon
    <3>6. \A j \in 1 .. k : Spared(b, z, vs[j].user, m)
      BY <3>2, <3>3, <3>4, Zenon
    <3>7. QED
      BY <3>5, <3>6, Zenon DEF Done, z
  <2>7. QED
    BY <2>1, <2>5, <2>6, Zenon DEF T
<1> HIDE DEF T, Done
<1>3. \A k \in 0 .. n : k \in T
  BY <1>1, <1>2, UpTo, Zenon
<1>4. n \in 0 .. n
  OBVIOUS
<1>5. QED
  BY <1>3, <1>4, Zenon DEF T, Done

-----------------------------------------------------------------------------
\* The turns of adl's loop, whatever victims it names: nothing is made or lost.
LEMMA AdlTurns ==
    ASSUME Laws, WorldOK(World), NEW m \in Markets, price[m] \in Nat,
           NEW vs \in Seq(VictimType), NEW n \in Nat, n = Len(vs),
           NEW w, w[0] = World,
           \A k \in 1 .. n : w[k] = AdlOne(w[k - 1], m, vs[k].user, vs[k].closeSize)
    PROVE  w[n].ok => Moves(World, w[n], m, 0, 0)
<1> DEFINE b == World
           T == {k \in 0 .. n : WorldOK(w[k]) /\ (w[k].ok => Moves(b, w[k], m, 0, 0))}
<1>1. 0 \in T
  <2>1. World.ok
    BY Zenon DEF World
  <2>2. b.ok /\ WorldOK(b) /\ w[0] = b /\ 0 \in 0 .. n
    BY <2>1
  <2> HIDE DEF b
  <2>3. Moves(b, b, m, 0, 0)
    BY <2>2, MovesNone, Zenon
  <2>4. QED
    BY <2>2, <2>3, Zenon
<1>2. ASSUME NEW k \in 1 .. n, k - 1 \in T
      PROVE  k \in T
  <2> DEFINE y == w[k - 1]
             z == w[k]
  <2>1. vs[k].user \in Users /\ vs[k].closeSize \in Int /\ k \in 0 .. n
    <3> HIDE DEF T
    <3>1. vs[k] \in VictimType /\ k \in 0 .. n
      OBVIOUS
    <3>2. QED
      BY <3>1 DEF VictimType
  <2>2. z = AdlOne(y, m, vs[k].user, vs[k].closeSize)
    OBVIOUS
  <2>3. WorldOK(y) /\ (y.ok => Moves(b, y, m, 0, 0))
    BY <1>2
  <2>4. WorldOK(b)
    OBVIOUS
  <2> HIDE DEF y, z, b
  <2>5. WorldOK(z)
    BY <2>1, <2>2, <2>3, AdlOneOK, Zenon
  <2>6. ASSUME z.ok PROVE Moves(b, z, m, 0, 0)
    <3>1. Moves(y, z, m, 0, 0)
      BY <2>1, <2>2, <2>3, <2>6, AdlOneStep, Zenon
    <3>2. Moves(b, y, m, 0, 0)
      BY <2>3, <3>1, Zenon DEF Moves
    <3>3. QED
      BY <2>4, <3>1, <3>2, MovesNoneTwice, Zenon
  <2>7. QED
    BY <2>1, <2>5, <2>6, Zenon DEF z
<1> HIDE DEF T, b
<1>3. \A k \in 0 .. n : k \in T
  BY <1>1, <1>2, UpTo, Zenon
<1>4. n \in 0 .. n
  OBVIOUS
<1>5. QED
  BY <1>3, <1>4 DEF T, b

\* No call touches a funding index or a queued withdrawal.
Kept(w, s) ==
    /\ s.cp.pending = w.cp.pending
    /\ s.registry.marketIndexFunding = w.registry.marketIndexFunding

\* After k of the paired fills: what is missing after an odd number of turns
\* is the other side of the last fill.
Half(w, s, fs, k, m) ==
    IF k % 2 = 0 THEN Moves(w, s, m, 0, 0)
    ELSE Moves(w, s, fs[k].market, fs[k].sizeDelta, fs[k].sizeDelta * fs[k].price)

\* The storages after k turns of applyBatch's loop, the batch paired or not.
Turned(w, s, fs, k, m) ==
    WorldOK(s) /\ (s.ok => Kept(w, s) /\ (Paired(fs) => Half(w, s, fs, k, m)))

\* One turn of applyBatch's loop.
LEMMA BatchTurn ==
    ASSUME Laws, NEW b, WorldOK(b), NEW fs \in Seq(FillType), NEW k \in 1 .. Len(fs), NEW m,
           NEW y, NEW z, z = SettleFill(y, fs[k]), Turned(b, y, fs, k - 1, m)
    PROVE  Turned(b, z, fs, k, m)
<1> DEFINE f == fs[k]
           g == fs[k - 1]
           d == g.sizeDelta
           e == f.sizeDelta
           paid == d * g.price
           more == e * f.price
<1>1. f \in FillType /\ k \in Nat \ {0}
  OBVIOUS
<1>2. f.market \in Markets /\ e \in Int /\ f.price \in Nat /\ more \in Int
  <2> HIDE DEF f
  <2>1. QED
    BY <1>1 DEF FillType
<1>3. WorldOK(y)
  BY DEF Turned
<1>4. WorldOK(z)
  BY <1>1, <1>3, SettleFillOK
<1>5. SUFFICES ASSUME z.ok PROVE Kept(b, z) /\ (Paired(fs) => Half(b, z, fs, k, m))
  BY <1>4 DEF Turned
<1>6. Moves(y, z, f.market, e, more)
  BY <1>1, <1>3, <1>5, SettleFillStep, Zenon
<1>7. Kept(b, y) /\ (Paired(fs) => Half(b, y, fs, k - 1, m))
  BY <1>6, Zenon DEF Turned, Moves
<1>8. Kept(b, z)
  BY <1>6, <1>7, Zenon DEF Moves, Kept
<1>9. ASSUME Paired(fs), k % 2 = 0 PROVE Half(b, z, fs, k, m)
  <2>1. (k - 1) % 2 # 0
    BY <1>1, <1>9, Parity
  <2>2. k - 1 \in 1 .. Len(fs)
    BY <1>9
  <2>3. g \in FillType
    BY <2>2
  <2>4. f.market = g.market /\ f.price = g.price /\ e = -d
    <3>1. \A j \in DOMAIN fs : j % 2 = 0 =>
             /\ fs[j].market = fs[j - 1].market
             /\ fs[j].price = fs[j - 1].price
             /\ fs[j].sizeDelta = -fs[j - 1].sizeDelta
      BY <1>9, Zenon DEF Paired
    <3>2. k \in DOMAIN fs
      OBVIOUS
    <3>3. QED
      BY <1>9, <3>1, <3>2, Zenon
  <2>5. Moves(b, y, g.market, d, paid)
    BY <1>7, <1>9, <2>1, Zenon DEF Half
  <2>6. d \in Int /\ g.price \in Nat
    <3> HIDE DEF g
    <3>1. QED
      BY <2>3 DEF FillType
  <2> HIDE DEF f, g, d, e
  <2>7. paid \in Int /\ d + e = 0 /\ paid + more = 0
    BY <2>4, <2>6
  <2> HIDE DEF paid, more
  <2>8. Moves(b, z, g.market, d + e, paid + more)
    BY <1>2, <1>6, <2>4, <2>5, <2>6, <2>7, MovesTwice, Zenon
  <2>9. Moves(b, z, m, 0, 0)
    BY <2>7, <2>8, MovesAnywhere
  <2>10. QED
    BY <1>9, <2>9, Zenon DEF Half
<1>10. ASSUME Paired(fs), k % 2 # 0 PROVE Half(b, z, fs, k, m)
  <2>1. (k - 1) % 2 = 0
    BY <1>1, <1>10, Parity
  <2>2. Moves(b, y, m, 0, 0)
    BY <1>7, <1>10, <2>1, Zenon DEF Half
  <2>3. Moves(b, y, f.market, 0, 0)
    BY <2>2, MovesAnywhere
  <2> HIDE DEF f, e, more
  <2>4. Moves(b, z, f.market, 0 + e, 0 + more)
    BY <1>2, <1>6, <2>3, MovesTwice
  <2>5. Moves(b, z, f.market, e, more)
    BY <1>2, <2>4
  <2>6. QED
    BY <1>10, <2>5, Zenon DEF Half, f, e, more
<1>11. QED
  BY <1>8, <1>9, <1>10

\* The turns of applyBatch's loop.
LEMMA BatchTurns ==
    ASSUME Laws, WorldOK(World), NEW fs \in Seq(FillType), NEW n \in Nat, n = Len(fs),
           NEW w, w[0] = World,
           \A k \in 1 .. n : w[k] = SettleFill(w[k - 1], fs[k]), NEW m
    PROVE  w[n].ok => /\ WorldOK(w[n]) /\ Kept(World, w[n])
                      /\ Paired(fs) => Moves(World, w[n], m, 0, 0)
<1> DEFINE b == World
           T == {k \in 0 .. n : Turned(b, w[k], fs, k, m)}
<1>1. 0 \in T
  <2>1. World.ok
    BY Zenon DEF World
  <2>2. b.ok /\ WorldOK(b) /\ w[0] = b /\ 0 \in 0 .. n
    BY <2>1
  <2> HIDE DEF b
  <2>3. Moves(b, b, m, 0, 0)
    BY <2>2, MovesNone, Zenon
  <2>4. QED
    BY <2>2, <2>3 DEF Turned, Kept, Half
<1>2. ASSUME NEW k \in 1 .. n, k - 1 \in T
      PROVE  k \in T
  <2>1. Turned(b, w[k - 1], fs, k - 1, m)
    BY <1>2
  <2>2. w[k] = SettleFill(w[k - 1], fs[k]) /\ k \in 1 .. Len(fs) /\ k \in 0 .. n
    OBVIOUS
  <2>3. Turned(b, w[k], fs, k, m)
    BY <2>1, <2>2, BatchTurn
  <2>4. QED
    BY <2>2, <2>3
<1> HIDE DEF T, b
<1>3. \A k \in 0 .. n : k \in T
  BY <1>1, <1>2, UpTo, Zenon
<1>4. Turned(b, w[n], fs, n, m)
  BY <1>3 DEF T
<1>5. Paired(fs) => n % 2 = 0
  BY DEF Paired
<1>6. QED
  BY <1>4, <1>5, Zenon DEF Turned, Half, b

=============================================================================
