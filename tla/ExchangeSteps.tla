---------------------------- MODULE ExchangeSteps ----------------------------
(***************************************************************************)
(* The transactions of the exchange: every one of them, whatever its       *)
(* arguments and wherever it reverts, keeps the inductive invariant.       *)
(***************************************************************************)
EXTENDS ExchangeCalls

-----------------------------------------------------------------------------
(***************************************************************************)
(* The inductive invariant.  CustodyCoversDeposits and MarketListExact are *)
(* in WorldOK.  A bound on the funding index must speak of the last        *)
(* funding: the clock moves on by itself, and what applyFunding checks is  *)
(* the distance to lastFundingAt.  That nothing is lost needs the sizes of *)
(* every market to sum to zero with the part nobody holds: funding moves   *)
(* the value of a market by its total size.                                *)
(***************************************************************************)
ExchangeOK ==
    /\ WorldOK(World)
    /\ MarketsTypeOK
    /\ price \in [Markets -> Prices \cup {NoPrice}]
    /\ now \in Nat \ {0}

IndexPaced(idx, at) ==
    /\ at <= now
    /\ IF at = 0 THEN idx = 0
       ELSE Abs(idx) <= MAX_PREMIUM_ABS * (1 + (at - 1) \div FUNDING_INTERVAL)

FundingPaced ==
    /\ lastFundingAt \in [Markets -> Nat]
    /\ \A m \in Markets : IndexPaced(registry.marketIndexFunding[m], lastFundingAt[m])

Whole(w) == Abs(Imbalance(w)) <= w.ledger.dust /\ \A m \in Markets : NetSize(w, m) = 0

NothingLost == Whole(World)

PendingFixed == cp.pending.amount # 0 => cp'.pending \in {cp.pending, NoPending}

\* What every step of the exchange is shown to do.
Sound ==
    /\ ExchangeOK' /\ FundingPaced' /\ PendingFixed
    /\ BatchesPaired /\ NothingLost => NothingLost'

\* The storages after a transaction are those its calls left.
LEMMA CommitWorld ==
    ASSUME NEW s, Commit(s), WorldOK(s)
    PROVE  World' = s
<1>1. s \in WorldType /\ s.ok = TRUE
  BY DEF Commit, WorldOK, WorldType
<1>2. World' = [ok |-> TRUE, registry |-> s.registry, vault |-> s.vault, usdc |-> s.usdc,
                cp |-> s.cp, ledger |-> s.ledger]
  BY DEF Commit, World
<1>3. QED
  BY <1>1, <1>2, Zenon DEF WorldType

\* Calls that conserve value keep the exchange whole.
LEMMA MovesWhole ==
    ASSUME Laws, NEW w, NEW s, NEW m, WorldOK(w), Moves(w, s, m, 0, 0), Whole(w)
    PROVE  Whole(s)
<1>1. WorldOK(s)
  BY DEF Moves
<1>2. /\ Imbalance(w) \in Int /\ Imbalance(s) \in Int
      /\ w.ledger.dust \in Nat /\ s.ledger.dust \in Nat
  BY <1>1, ImbalanceTypes DEF WorldOK, WorldType, LedgerType
<1>3. Abs(Imbalance(s)) <= s.ledger.dust
  BY <1>2 DEF Whole, Moves, Abs
<1>4. \A k \in Markets : NetSize(s, k) = 0
  BY DEF Whole, Moves
<1>5. QED
  BY <1>3, <1>4 DEF Whole

\* applyBatch, liquidate and adl.
LEMMA TransactionSound ==
    ASSUME Laws, ExchangeOK, FundingPaced, NEW s, NEW m, Commit(s), WorldOK(s), Kept(World, s),
           BatchesPaired => Moves(World, s, m, 0, 0),
           UNCHANGED <<markets, price, lastFundingAt, now>>
    PROVE  Sound
<1>1. World' = s
  BY CommitWorld
<1>2. ExchangeOK'
  BY <1>1 DEF ExchangeOK, MarketsTypeOK
<1>3. registry'.marketIndexFunding = registry.marketIndexFunding /\ cp'.pending = cp.pending
  BY DEF Commit, Kept, World
<1>4. FundingPaced'
  BY <1>3 DEF FundingPaced, IndexPaced
<1>5. BatchesPaired /\ NothingLost => NothingLost'
  BY <1>1, MovesWhole DEF ExchangeOK, NothingLost
<1>6. QED
  BY <1>2, <1>3, <1>4, <1>5 DEF Sound, PendingFixed

\* Steps of the owner, the oracle and the clock that touch no contract's
\* money: markets are listed, prices change, time passes.
LEMMA QuietSound ==
    ASSUME ExchangeOK, FundingPaced, UNCHANGED <<registry, vault, usdc, cp, ledger, lastFundingAt>>,
           MarketsTypeOK', price' \in [Markets -> Prices \cup {NoPrice}],
           now' \in Nat, now <= now'
    PROVE  Sound
<1>1. World' = World
  BY DEF World
<1>2. ExchangeOK'
  BY <1>1 DEF ExchangeOK
<1>3. FundingPaced'
  BY DEF FundingPaced, IndexPaced, ExchangeOK
<1>4. NothingLost' = NothingLost
  BY <1>1 DEF NothingLost
<1>5. QED
  BY <1>2, <1>3, <1>4 DEF Sound, PendingFixed

\* Steps that move tokens, and deposits with them.
LEMMA TokensSound ==
    ASSUME ExchangeOK, FundingPaced,
           vault' \in VaultType, usdc' \in [Accounts -> Nat], cp' \in CounterpartyType,
           CustodyCoversDeposits', Unbacked(vault') = Unbacked(vault), PendingFixed,
           UNCHANGED <<registry, ledger, markets, price, lastFundingAt, now>>
    PROVE  Sound
<1> DEFINE w == World
           s == World'
<1>1. w \in WorldType /\ WorldOK(w)
  BY DEF ExchangeOK, WorldOK
<1>2. /\ s.ok = TRUE /\ s.registry = w.registry /\ s.ledger = w.ledger /\ s.vault = vault'
      /\ s.usdc = usdc' /\ s.cp = cp' /\ w.vault = vault
      /\ s = [ok |-> TRUE, registry |-> w.registry, vault |-> vault', usdc |-> usdc',
              cp |-> cp', ledger |-> w.ledger]
  BY DEF World
<1> HIDE DEF w, s
<1>3. s \in WorldType
  BY <1>1, <1>2 DEF WorldType
<1>4. /\ WorldOK(s) /\ Imbalance(s) = Imbalance(w)
      /\ \A k \in Markets : NetSize(s, k) = NetSize(w, k)
  BY <1>1, <1>2, <1>3, PaidOutStep, Zenon DEF CustodyCoversDeposits
<1>5. ExchangeOK'
  BY <1>4 DEF ExchangeOK, MarketsTypeOK, s
<1>6. FundingPaced'
  BY DEF FundingPaced, IndexPaced
<1>7. NothingLost => NothingLost'
  BY <1>2, <1>4, Zenon DEF NothingLost, Whole, w, s
<1>8. QED
  BY <1>5, <1>6, <1>7 DEF Sound

-----------------------------------------------------------------------------
\* What the vault and the tokens keep, as a state of the exchange.
LEMMA VaultPart ==
    ASSUME ExchangeOK
    PROVE  /\ VaultInv /\ vault \in VaultType /\ usdc \in [Accounts -> Nat]
           /\ CustodyCoversDeposits /\ cp \in CounterpartyType
BY Zenon DEF ExchangeOK, WorldOK, WorldType, World, VaultInv, VaultTypeOK, CustodyCoversDeposits

\* deposit and withdraw move a balance and the total alike.
LEMMA DepositSound ==
    ASSUME Laws, ExchangeOK, FundingPaced, NEW u \in Users, NEW n \in Amounts, Deposit(u, n),
           UNCHANGED <<registry, ledger, markets, price, lastFundingAt, now, cp>>
    PROVE  Sound
<1>1. VaultInv'
  BY VaultPart, DepositStep
<1>2. vault \in VaultType /\ n \in Int /\ Moved(vault, u, n, n) \in VaultType /\ vault' = Moved(vault, u, n, n)
  BY <1>1, VaultPart, VaultAssumption DEF VaultInv, VaultTypeOK, Deposit
<1>3. Unbacked(vault') = Unbacked(vault)
  BY <1>2, MovedSums
<1>4. QED
  BY <1>1, <1>3, VaultPart, TokensSound DEF VaultInv, VaultTypeOK, PendingFixed

\* See DepositSound.
LEMMA WithdrawSound ==
    ASSUME Laws, ExchangeOK, FundingPaced, NEW u \in Users, NEW n \in Amounts, NEW safe,
           Withdraw(u, n, safe),
           UNCHANGED <<registry, ledger, markets, price, lastFundingAt, now, cp>>
    PROVE  Sound
<1> DEFINE d == -n
<1>1. VaultInv'
  BY VaultPart, WithdrawStep
<1>2. vault \in VaultType /\ d \in Int /\ Moved(vault, u, d, d) \in VaultType /\ vault' = Moved(vault, u, d, d)
  BY <1>1, VaultPart, VaultAssumption DEF VaultInv, VaultTypeOK, Withdraw
<1> HIDE DEF d
<1>3. Unbacked(vault') = Unbacked(vault)
  BY <1>2, MovedSums
<1>4. QED
  BY <1>1, <1>3, VaultPart, TokensSound DEF VaultInv, VaultTypeOK, PendingFixed

\* The counterparty's and the fund's own transfers leave the vault alone, and
\* take no token from it.
LEMMA TransferSound ==
    ASSUME ExchangeOK, FundingPaced, NEW a \in Accounts \ {VAULT}, NEW b \in Accounts, NEW n \in Nat,
           usdc[a] >= n, usdc' = Transfer(usdc, a, b, n), cp' \in CounterpartyType, PendingFixed,
           UNCHANGED <<vault, registry, ledger, markets, price, lastFundingAt, now>>
    PROVE  Sound
<1>1. usdc \in [Accounts -> Nat] /\ usdc' \in [Accounts -> Nat] /\ VAULT \in Accounts
  BY VaultPart, TransferType, VaultAssumption
<1>2. usdc'[VAULT] >= usdc[VAULT]
  BY <1>1 DEF Transfer
<1>3. CustodyCoversDeposits'
  BY <1>1, <1>2, VaultPart DEF CustodyCoversDeposits, VaultType
<1>4. QED
  BY <1>1, <1>3, VaultPart, TokensSound

\* setCap, queueWithdraw and cancelWithdraw move no token.
LEMMA BookkeepingSound ==
    ASSUME ExchangeOK, FundingPaced, cp' \in CounterpartyType, PendingFixed,
           UNCHANGED <<vault, usdc, registry, ledger, markets, price, lastFundingAt, now>>
    PROVE  Sound
<1>1. CustodyCoversDeposits'
  BY VaultPart DEF CustodyCoversDeposits
<1>2. QED
  BY <1>1, VaultPart, TokensSound

\* Every call of the counterparty contract.
LEMMA CounterpartySound ==
    ASSUME Laws, ExchangeOK, FundingPaced, CounterpartyNext
    PROVE  Sound
<1> USE DEF CounterpartyNext
<1>1. cp \in CounterpartyType /\ now \in Nat /\ TIMELOCK \in Nat /\ CP \in Accounts \ {VAULT} /\ CP \in Users
  BY VaultPart, CounterpartyAssumption, VaultAssumption DEF ExchangeOK
<1>2. ASSUME NEW m \in Markets, NEW c \in Caps, SetCap(m, c) PROVE Sound
  <2>1. cp' \in CounterpartyType /\ cp'.pending = cp.pending
    BY <1>1, <1>2, CounterpartyAssumption, Zenon DEF SetCap, CounterpartyType
  <2>2. QED
    BY <1>2, <2>1, BookkeepingSound DEF SetCap, PendingFixed
<1>3. ASSUME NEW a \in Callers, NEW n \in Amounts, CustodyDeposit(a, n) PROVE Sound
  <2>1. a \in Accounts \ {VAULT} /\ n \in Nat
    BY VaultAssumption DEF Callers
  <2>2. QED
    BY <1>1, <1>3, <2>1, TransferSound, Zenon DEF CustodyDeposit, PendingFixed
<1>4. ASSUME NEW n \in Amounts, DepositToVault(n) PROVE Sound
  BY <1>1, <1>4, DepositSound DEF DepositToVault
<1>5. ASSUME NEW n \in Amounts, QueueWithdraw(n) PROVE Sound
  <2>1. n \in Nat
    BY VaultAssumption
  <2>2. cp' \in CounterpartyType
    BY <1>1, <1>5, <2>1 DEF QueueWithdraw, CounterpartyType
  <2>3. QED
    BY <1>5, <2>2, BookkeepingSound DEF QueueWithdraw, PendingFixed
<1>6. ASSUME CancelWithdraw PROVE Sound
  <2>1. cp' \in CounterpartyType /\ cp'.pending = NoPending
    BY <1>1, <1>6 DEF CancelWithdraw, CounterpartyType, NoPending
  <2>2. QED
    BY <1>6, <2>1, BookkeepingSound DEF CancelWithdraw, PendingFixed
<1>7. ASSUME NEW a \in Accounts, ExecuteWithdraw(a) PROVE Sound
  <2>1. cp' \in CounterpartyType /\ cp'.pending = NoPending /\ cp.pending.amount \in Nat
    BY <1>1, <1>7 DEF ExecuteWithdraw, CounterpartyType, NoPending
  <2>2. QED
    BY <1>1, <1>7, <2>1, TransferSound DEF ExecuteWithdraw, PendingFixed
<1>8. QED
  BY <1>2, <1>3, <1>4, <1>5, <1>6, <1>7

-----------------------------------------------------------------------------
\* applyFunding: one more premium for one more interval, and what the longs
\* pay the shorts and nobody's position receive.
LEMMA FundingSound ==
    ASSUME Laws, ExchangeOK, FundingPaced, NEW m \in Markets, NEW pr \in Premiums, ApplyFunding(m, pr)
    PROVE  Sound
<1> DEFINE w == World
           s == World'
           idx == registry.marketIndexFunding[m] + pr
           r == FundingUpdated(registry, m, idx)
           S == SumFunction([u \in Users |-> registry.positions[u][m].size])
           H == ledger.house[m].size
           cash == -H * pr
           l == HouseTakes(ledger, m, 0, cash)
<1>1. pr \in Int /\ MAX_PREMIUM_ABS \in Nat /\ FUNDING_INTERVAL \in Nat \ {0}
  BY ExchangeAssumption
<1>2. /\ WorldOK(w) /\ w \in WorldType /\ RegistryOK(registry) /\ registry \in Registry
      /\ ledger \in LedgerType /\ now \in Nat \ {0}
      /\ vault \in VaultType /\ usdc \in [Accounts -> Nat] /\ cp \in CounterpartyType
  BY Zenon DEF ExchangeOK, WorldOK, WorldType, World, RegistryOK
<1>3. registry.marketIndexFunding[m] \in Int /\ idx \in Int /\ H \in Int /\ cash \in Int /\ S \in Int
  <2>1. S \in Int
    BY <1>2, ValueTypes, Zenon
  <2>2. registry.marketIndexFunding[m] \in Int /\ H \in Int
    BY <1>2 DEF Registry, LedgerType
  <2> HIDE DEF S, H
  <2>3. idx \in Int /\ cash \in Int
    BY <1>1, <2>2
  <2>4. QED
    BY <2>1, <2>2, <2>3, Zenon
<1>4. RegistryOK(r) /\ r.positions = registry.positions /\ OpenValue(r) = OpenValue(registry) - pr * S
  BY <1>1, <1>2, FundingSums, Zenon
<1>5. /\ l \in LedgerType /\ l.fees = ledger.fees /\ l.dust = ledger.dust
      /\ HouseCash(l) = HouseCash(ledger) + cash
      /\ \A k \in Markets : l.house[k].size = ledger.house[k].size + (IF k = m THEN 0 ELSE 0)
  <2> HIDE DEF cash
  <2>1. QED
    BY <1>2, <1>3, HouseTakesSums
<1>6. s = [ok |-> TRUE, registry |-> r, vault |-> vault, usdc |-> usdc, cp |-> cp, ledger |-> l]
  BY Zenon DEF ApplyFunding, World
<1>7. FundingPaced'
  <2>1. /\ lastFundingAt \in [Markets -> Nat] /\ lastFundingAt' = [lastFundingAt EXCEPT ![m] = now]
        /\ registry'.marketIndexFunding = [registry.marketIndexFunding EXCEPT ![m] = idx]
        /\ registry.marketIndexFunding \in [Markets -> Int] /\ now' = now
    BY <1>2, Zenon DEF ApplyFunding, FundingPaced, FundingUpdated, Registry
  <2>2. lastFundingAt' \in [Markets -> Nat]
    BY <1>2, <2>1, Zenon
  <2>3. IndexPaced(idx, now)
    <3> DEFINE a == lastFundingAt[m]
               p == (now - 1) \div FUNDING_INTERVAL
               q == (a - 1) \div FUNDING_INTERVAL
    <3>1. a \in Nat /\ Abs(pr) <= MAX_PREMIUM_ABS /\ (a # 0 => now >= a + FUNDING_INTERVAL)
      BY <2>1, Zenon DEF ApplyFunding, FundingDue
    <3>2. IndexPaced(registry.marketIndexFunding[m], a)
      BY DEF FundingPaced
    <3>3. p \in Nat
      BY <1>1, <1>2
    <3>4. CASE a = 0
      <4>1. idx = pr
        BY <1>1, <3>2, <3>4 DEF IndexPaced
      <4> HIDE DEF p
      <4>2. MAX_PREMIUM_ABS <= MAX_PREMIUM_ABS * (1 + p)
        BY <1>1, <3>3
      <4>3. Abs(pr) \in Nat
        BY <1>1 DEF Abs
      <4>4. Abs(idx) <= MAX_PREMIUM_ABS * (1 + p)
        BY <1>1, <3>1, <3>3, <4>1, <4>2, <4>3
      <4>5. QED
        BY <1>2, <4>4 DEF IndexPaced, p
    <3>5. CASE a # 0
      <4>1. a - 1 \in Nat /\ now - 1 \in Nat /\ now - 1 >= (a - 1) + FUNDING_INTERVAL
        BY <1>1, <1>2, <3>1, <3>5
      <4>2. q \in Nat /\ p >= q + 1
        <5> DEFINE y == a - 1
                   z == now - 1
        <5>1. y \in Nat /\ z \in Nat /\ z >= y + FUNDING_INTERVAL
          BY <4>1
        <5> HIDE DEF y, z
        <5>2. y \div FUNDING_INTERVAL \in Nat /\ z \div FUNDING_INTERVAL >= y \div FUNDING_INTERVAL + 1
          BY <1>1, <5>1, IntervalElapsed
        <5>3. QED
          BY <5>2 DEF y, z
      <4>3. Abs(registry.marketIndexFunding[m]) <= MAX_PREMIUM_ABS * (1 + q)
        BY <3>2, <3>5 DEF IndexPaced
      <4> HIDE DEF p, q
      <4>4. Abs(idx) <= MAX_PREMIUM_ABS * (1 + q) + MAX_PREMIUM_ABS
        BY <1>1, <1>3, <3>1, <4>2, <4>3 DEF Abs
      <4>5. MAX_PREMIUM_ABS * (1 + q) + MAX_PREMIUM_ABS = MAX_PREMIUM_ABS * (2 + q)
        BY <1>1, <4>2
      <4>6. MAX_PREMIUM_ABS * (2 + q) <= MAX_PREMIUM_ABS * (1 + p)
        BY <1>1, <3>3, <4>2
      <4>7. Abs(idx) <= MAX_PREMIUM_ABS * (1 + p)
        <5> DEFINE A == MAX_PREMIUM_ABS * (2 + q)
                   B == MAX_PREMIUM_ABS * (1 + p)
        <5>1. A \in Int /\ B \in Int /\ Abs(idx) \in Int
          BY <1>1, <1>3, <3>3, <4>2 DEF Abs
        <5>2. Abs(idx) <= A /\ A <= B
          BY <4>4, <4>5, <4>6, Zenon
        <5> HIDE DEF A, B
        <5>3. Abs(idx) <= B
          BY <5>1, <5>2
        <5>4. QED
          BY <5>3 DEF B
      <4>8. QED
        BY <1>2, <4>7 DEF IndexPaced, p
    <3>6. QED
      BY <3>4, <3>5, Zenon
  <2> HIDE DEF idx
  <2>4. \A k \in Markets : IndexPaced(registry'.marketIndexFunding[k], lastFundingAt'[k])
    BY <2>1, <2>3, Zenon DEF FundingPaced
  <2>5. QED
    BY <2>1, <2>2, <2>4, Zenon DEF FundingPaced, IndexPaced
<1> HIDE DEF w, s, r, l, idx, S, H
<1>8. /\ s \in WorldType /\ s.registry = r /\ s.ledger = l /\ s.vault = vault /\ s.usdc = usdc
  BY <1>2, <1>4, <1>5, <1>6, Zenon DEF WorldType, RegistryOK
<1>9. w.registry = registry /\ w.ledger = ledger /\ w.vault = vault /\ w.usdc = usdc
  BY DEF World, w
<1>10. WorldOK(s)
  BY <1>2, <1>4, <1>8, <1>9, Zenon DEF WorldOK
<1>11. ExchangeOK'
  BY <1>10, Zenon DEF ExchangeOK, ApplyFunding, MarketsTypeOK, s
<1>12. ASSUME Whole(w) PROVE Whole(s)
  <2>1. \A k \in Markets : NetSize(s, k) = NetSize(w, k)
    <3> TAKE k \in Markets
    <3>1. s.ledger.house[k].size = w.ledger.house[k].size
      BY <1>2, <1>5, <1>8, <1>9 DEF LedgerType
    <3>2. s.registry.positions = w.registry.positions
      BY <1>4, <1>8, <1>9, Zenon
    <3>3. QED
      BY <3>1, <3>2, Zenon DEF NetSize
  <2>2. S + H = 0
    BY <1>9, <1>12, Zenon DEF Whole, NetSize, S, H
  <2>3. cash - pr * S = 0
    BY <1>1, <1>3, <2>2
  <2> DEFINE b == X18 * (USDC_TO_X18 * (SumFunction(vault.balances) - vault.totalDeposits) - ledger.fees)
             o == OpenValue(registry)
             h == HouseCash(ledger)
  <2>4. b \in Int /\ o \in Int /\ h \in Int
    <3>1. /\ SumFunction(vault.balances) \in Int /\ h \in Int /\ o \in Int
      BY <1>2, <1>9, ImbalanceTypes, ValueTypes, Zenon
    <3>2. vault.totalDeposits \in Int /\ ledger.fees \in Int
      BY <1>2 DEF VaultType, LedgerType
    <3> HIDE DEF o, h
    <3>3. b \in Int
      BY <3>1, <3>2, ScaleAssumption
    <3>4. QED
      BY <3>1, <3>3, Zenon
  <2>5. Imbalance(w) = b + o + h /\ Imbalance(s) = b + (o - pr * S) + (h + cash)
    BY <1>4, <1>5, <1>8, <1>9, Zenon DEF Imbalance
  <2> HIDE DEF b, o, h, cash
  <2>6. Imbalance(s) = Imbalance(w)
    <3> DEFINE y == pr * S
    <3>1. y \in Int /\ cash - y = 0 /\ Imbalance(s) = b + (o - y) + (h + cash)
      BY <1>1, <1>3, <2>3, <2>5
    <3> HIDE DEF y
    <3>2. QED
      BY <1>3, <2>4, <2>5, <3>1
  <2>7. QED
    BY <1>5, <1>8, <1>9, <1>12, <2>1, <2>6 DEF Whole
<1>13. cp' = cp
  BY Zenon DEF ApplyFunding
<1>14. QED
  BY <1>7, <1>11, <1>12, <1>13, Zenon DEF Sound, NothingLost, PendingFixed, w, s

-----------------------------------------------------------------------------
\* The exchange as it is deployed.
LEMMA InitSound ==
    ASSUME Laws, ExchangeInit
    PROVE  ExchangeOK /\ FundingPaced /\ NothingLost
<1>1. registry = EmptyRegistry /\ RegistryOK(registry)
  <2>1. EmptyRegistry \in Registry
    BY DEF EmptyRegistry, Registry, NoPosition, PositionType
  <2>2. TypeOK /\ MarketListExact => RegistryOK(registry)
    BY RegistryOKIsInvariant
  <2>3. MarketListExact
    <3>1. /\ \A u \in Users : registry.userMarkets[u] = << >>
          /\ \A u \in Users, m \in Markets :
                registry.indexPlusOne[u][m] = 0 /\ registry.positions[u][m].size = 0
      BY DEF ExchangeInit, EmptyRegistry, NoPosition
    <3>2. IndexPointsAtMarket
      BY <3>1 DEF IndexPointsAtMarket
    <3>3. EntryIsIndexed
      BY <3>1 DEF EntryIsIndexed
    <3>4. TrackedIffOpen
      BY <3>1 DEF TrackedIffOpen
    <3>5. QED
      BY <3>2, <3>3, <3>4 DEF MarketListExact
  <2>4. TypeOK
    BY <2>1, ExchangeAssumption DEF ExchangeInit, TypeOK, MarketsTypeOK
  <2>5. QED
    BY <2>2, <2>3, <2>4 DEF ExchangeInit
<1>2. /\ vault = [balances |-> [u \in Users |-> 0], totalDeposits |-> 0] /\ vault \in VaultType
      /\ usdc \in [Accounts -> Nat] /\ CustodyCoversDeposits
  BY VaultAssumption DEF ExchangeInit, VaultInit, VaultType, CustodyCoversDeposits
<1>3. cp \in CounterpartyType
  <2>1. InitialCaps \in [Markets -> Nat]
    BY ExchangeAssumption, Zenon
  <2>2. cp = [FreshCounterparty EXCEPT !.marketCap = InitialCaps]
    BY Zenon DEF ExchangeInit
  <2>3. FreshCounterparty \in CounterpartyType
    BY DEF FreshCounterparty, NoPending, CounterpartyType
  <2>4. QED
    BY <2>1, <2>2, <2>3 DEF CounterpartyType
<1>4. /\ ledger = [house |-> [m \in Markets |-> [size |-> 0, cash |-> 0]], fees |-> 0, dust |-> 0]
      /\ ledger \in LedgerType
  BY DEF ExchangeInit, LedgerType
<1>5. WorldOK(World)
  BY <1>1, <1>2, <1>3, <1>4, Zenon DEF World, WorldOK, WorldType, RegistryOK, CustodyCoversDeposits
<1>6. ExchangeOK
  BY <1>5, ExchangeAssumption DEF ExchangeOK, ExchangeInit, MarketsTypeOK
<1>7. FundingPaced
  BY DEF FundingPaced, IndexPaced, ExchangeInit, EmptyRegistry
<1>8. NothingLost
  <2>1. World.registry = registry /\ World.vault = vault /\ World.ledger = ledger
    BY Zenon DEF World
  <2>2. SumFunction(vault.balances) = 0
    <3>1. vault.balances \in [Users -> Int] /\ \A u \in Users : vault.balances[u] = 0
      BY <1>2
    <3>2. QED
      BY <3>1, FiniteParties DEF Laws, SumsOfZero
  <2>3. HouseCash(ledger) = 0
    <3> DEFINE f == [m \in Markets |-> ledger.house[m].cash]
    <3>1. f \in [Markets -> Int] /\ \A m \in Markets : f[m] = 0
      BY <1>4
    <3> HIDE DEF f
    <3>2. SumFunction(f) = 0
      BY <3>1, FiniteParties DEF Laws, SumsOfZero
    <3>3. QED
      BY <3>2 DEF HouseCash, f
  <2>4. \A u \in Users, m \in Markets :
          registry.positions[u][m].size = 0 /\ PositionValue(registry, u, m) = 0
    <3> TAKE u \in Users, m \in Markets
    <3>1. /\ registry.positions[u][m].size = 0 /\ registry.positions[u][m].entryPriceX18 = 0
          /\ registry.positions[u][m].cumulativeFunding = 0 /\ registry.marketIndexFunding[m] = 0
      BY <1>1, Zenon DEF EmptyRegistry, NoPosition
    <3> DEFINE p == registry.positions[u][m]
               z == p.size
               y == p.entryPriceX18 + registry.marketIndexFunding[m] - p.cumulativeFunding
    <3>2. PositionValue(registry, u, m) = -(z * y) /\ y \in Int /\ z \in Int /\ z = 0
      BY <3>1 DEF PositionValue
    <3> HIDE DEF z, y
    <3>3. PositionValue(registry, u, m) = 0
      BY <3>2
    <3>4. QED
      BY <3>1, <3>3, Zenon
  <2>5. ASSUME NEW m \in Markets
        PROVE  /\ MarketValue(registry, m) = 0
               /\ SumFunction([u \in Users |-> registry.positions[u][m].size]) = 0
    <3> DEFINE f == [u \in Users |-> PositionValue(registry, u, m)]
               z == [u \in Users |-> registry.positions[u][m].size]
    <3>1. /\ f \in [Users -> Int] /\ \A u \in Users : f[u] = 0
          /\ z \in [Users -> Int] /\ \A u \in Users : z[u] = 0
      BY <2>4
    <3> HIDE DEF f, z
    <3>2. SumFunction(f) = 0 /\ SumFunction(z) = 0
      BY <3>1, FiniteParties, Zenon DEF Laws, SumsOfZero
    <3>3. QED
      BY <3>2 DEF MarketValue, f, z
  <2>6. OpenValue(registry) = 0
    <3> DEFINE f == [m \in Markets |-> MarketValue(registry, m)]
    <3>1. f \in [Markets -> Int] /\ \A m \in Markets : f[m] = 0
      <4>1. \A m \in Markets : MarketValue(registry, m) = 0
        BY <2>5, Zenon
      <4>2. QED
        BY <4>1
    <3> HIDE DEF f
    <3>2. SumFunction(f) = 0
      BY <3>1, FiniteParties DEF Laws, SumsOfZero
    <3>3. QED
      BY <3>2 DEF OpenValue, f
  <2>7. vault.totalDeposits = 0 /\ ledger.fees = 0 /\ ledger.dust = 0
    BY <1>2, <1>4, Zenon
  <2>8. Imbalance(World) = 0
    BY <2>1, <2>2, <2>3, <2>6, <2>7, ScaleAssumption DEF Imbalance
  <2>9. \A m \in Markets : NetSize(World, m) = 0
    BY <1>4, <2>1, <2>5 DEF NetSize
  <2>10. QED
    BY <2>1, <2>7, <2>8, <2>9 DEF NothingLost, Whole, Abs
<1>9. QED
  BY <1>6, <1>7, <1>8

\* deposit and withdraw.
LEMMA TraderSound ==
    ASSUME Laws, ExchangeOK, FundingPaced, TraderNext
    PROVE  Sound
<1>1. PICK u \in Users, n \in Amounts : UserDeposit(u, n) \/ UserWithdraw(u, n)
  BY DEF TraderNext
<1>2. CASE UserDeposit(u, n)
  BY <1>2, DepositSound DEF UserDeposit, chain
<1>3. CASE UserWithdraw(u, n)
  <2>1. PICK safe : Withdraw(u, n, safe)
    BY <1>3 DEF UserWithdraw
  <2>2. UNCHANGED <<registry, ledger, markets, price, lastFundingAt, now, cp>>
    BY <1>3, Zenon DEF UserWithdraw, chain
  <2>3. QED
    BY <2>1, <2>2, WithdrawSound, Zenon
<1>4. QED
  BY <1>1, <1>2, <1>3

\* liquidate.
LEMMA LiquidateSound ==
    ASSUME Laws, ExchangeOK, FundingPaced, NEW u \in Users, NEW m \in Markets, NEW k \in Keepers,
           Liquidate(u, m, k)
    PROVE  Sound
<1> DEFINE s == Liquidated(u, m, k)
<1>1. /\ Commit(s) /\ s.ok /\ IsMarketActive(m) /\ price[m] # NoPrice
      /\ UNCHANGED <<markets, price, lastFundingAt, now>>
  BY Zenon DEF Liquidate, Liquidatable, Commit, chain
<1>2. Moves(World, s, m, 0, 0)
  BY <1>1, LiquidatedStep, Zenon DEF ExchangeOK
<1> HIDE DEF s
<1>3. WorldOK(s) /\ Kept(World, s)
  BY <1>2, Zenon DEF Moves, Kept
<1>4. QED
  BY <1>1, <1>2, <1>3, TransactionSound, Zenon

\* The fund's deposits and withdrawals.
LEMMA FundSound ==
    ASSUME ExchangeOK, FundingPaced, FundNext
    PROVE  Sound
<1>1. FUND \in Accounts \ {VAULT} /\ cp \in CounterpartyType
  BY ExchangeAssumption, VaultPart, Zenon
<1>2. ASSUME NEW a \in Callers, NEW n \in Amounts, FundDeposit(a, n) PROVE Sound
  <2>1. a \in Accounts \ {VAULT} /\ n \in Nat
    BY VaultAssumption DEF Callers
  <2>2. QED
    BY <1>1, <1>2, <2>1, TransferSound, Zenon DEF FundDeposit, PendingFixed, chain
<1>3. ASSUME NEW a \in Accounts, NEW n \in Amounts, FundWithdraw(a, n) PROVE Sound
  <2>1. n \in Nat
    BY VaultAssumption
  <2>2. QED
    BY <1>1, <1>3, <2>1, TransferSound, Zenon DEF FundWithdraw, PendingFixed, chain
<1>4. QED
  BY <1>2, <1>3 DEF FundNext

\* Operator, hook and market changes, oracle answers, and time.
LEMMA AdministrationSound ==
    ASSUME ExchangeOK, FundingPaced,
           \/ \E o \in Operators \ {settlement.operator} : SetOperator(o)
           \/ SetFillHook(~settlement.hook)
           \/ ListingNext
           \/ EnvironmentNext
           \/ UNCHANGED exchangeVars
    PROVE  Sound
<1>1. /\ MarketsTypeOK /\ price \in [Markets -> Prices \cup {NoPrice}] /\ now \in Nat
  BY Zenon DEF ExchangeOK
<1>2. CASE \/ \E o \in Operators \ {settlement.operator} : SetOperator(o)
           \/ SetFillHook(~settlement.hook)
           \/ UNCHANGED exchangeVars
  <2>1. UNCHANGED <<registry, vault, usdc, cp, ledger, lastFundingAt, markets, price, now>>
    BY <1>2 DEF SetOperator, SetFillHook, exchangeVars, chain
  <2>2. QED
    BY <1>1, <2>1, QuietSound DEF MarketsTypeOK
<1>3. CASE ListingNext
  <2>1. MarketsTypeOK'
    BY <1>1, <1>3, MarketsTyped, Zenon DEF ListingNext
  <2>2. QED
    BY <1>1, <1>3, <2>1, QuietSound DEF ListingNext
<1>4. CASE EnvironmentNext
  <2>1. /\ UNCHANGED <<registry, vault, usdc, cp, ledger, lastFundingAt, markets>>
        /\ price' \in [Markets -> Prices \cup {NoPrice}] /\ now' \in Nat /\ now <= now'
    BY <1>1, <1>4 DEF EnvironmentNext, OracleAnswers, Tick
  <2>2. QED
    BY <1>1, <2>1, QuietSound, Zenon DEF MarketsTypeOK
<1>5. QED
  BY <1>2, <1>3, <1>4, Zenon

\* The bound at the last funding is a bound now.
LEMMA IndexWithinElapsed ==
    ASSUME ExchangeOK, FundingPaced
    PROVE  FundingIndexBounded
<1> SUFFICES ASSUME NEW m \in Markets
             PROVE  Abs(registry.marketIndexFunding[m])
                        <= MAX_PREMIUM_ABS * (1 + (now - 1) \div FUNDING_INTERVAL)
  BY DEF FundingIndexBounded
<1> DEFINE idx == registry.marketIndexFunding[m]
           a == lastFundingAt[m]
           p == (now - 1) \div FUNDING_INTERVAL
           q == (a - 1) \div FUNDING_INTERVAL
<1>1. MAX_PREMIUM_ABS \in Nat /\ FUNDING_INTERVAL \in Nat \ {0}
  BY ExchangeAssumption, Zenon
<1>2. registry \in Registry
  BY Zenon DEF ExchangeOK, WorldOK, RegistryOK, World
<1>3. idx \in Int /\ a \in Nat /\ now \in Nat \ {0} /\ IndexPaced(idx, a)
  BY <1>2, Zenon DEF ExchangeOK, FundingPaced, Registry
<1> HIDE DEF idx, a
<1>4. p \in Nat
  BY <1>1, <1>3
<1>5. CASE a = 0
  <2> HIDE DEF p
  <2>1. Abs(idx) = 0
    BY <1>3, <1>5 DEF IndexPaced, Abs
  <2>2. MAX_PREMIUM_ABS * (1 + p) >= 0
    BY <1>1, <1>4
  <2>3. QED
    BY <2>1, <2>2 DEF p, idx
<1>6. CASE a # 0
  <2>1. Abs(idx) <= MAX_PREMIUM_ABS * (1 + q) /\ Abs(idx) \in Nat
    BY <1>3, <1>6 DEF IndexPaced, Abs
  <2>2. q \in Nat /\ q <= p
    <3> DEFINE y == a - 1
               z == now - 1
    <3>1. y \in Nat /\ z \in Nat /\ y <= z
      BY <1>3, <1>6 DEF IndexPaced
    <3> HIDE DEF y, z
    <3>2. y \div FUNDING_INTERVAL \in Nat /\ y \div FUNDING_INTERVAL <= z \div FUNDING_INTERVAL
      BY <1>1, <3>1, IntervalMonotone
    <3>3. QED
      BY <3>2 DEF y, z
  <2> HIDE DEF p, q
  <2>3. MAX_PREMIUM_ABS * (1 + q) <= MAX_PREMIUM_ABS * (1 + p)
    BY <1>1, <1>4, <2>2
  <2> DEFINE A == MAX_PREMIUM_ABS * (1 + q)
             B == MAX_PREMIUM_ABS * (1 + p)
  <2>4. A \in Int /\ B \in Int /\ Abs(idx) <= A /\ A <= B
    BY <1>1, <1>4, <2>1, <2>2, <2>3
  <2> HIDE DEF A, B
  <2>5. Abs(idx) <= B
    BY <2>1, <2>4
  <2>6. QED
    BY <2>5 DEF B, p, idx
<1>7. QED
  BY <1>5, <1>6

-----------------------------------------------------------------------------
\* The storages between the turns of adl's loop, w[n] after the last.
AdlStates(w, m, vs, n) ==
    /\ w[0] = World
    /\ \A k \in 1 .. n : w[k] = AdlOne(w[k - 1], m, vs[k].user, vs[k].closeSize)
    /\ Commit(w[n])

\* adl goes through such storages.
LEMMA AdlTrace ==
    ASSUME Laws, price \in [Markets -> Prices \cup {NoPrice}],
           NEW m \in Markets, NEW vs \in Seq(VictimType), NEW n \in Nat, n = Len(vs), Adl(m, vs)
    PROVE  price[m] \in Nat /\ \E w : AdlStates(w, m, vs, n)
<1>1. DOMAIN vs = 1 .. n
  OBVIOUS
<1> DEFINE Body(h) == [s \in SUBSET DOMAIN vs |->
                          IF s = {} THEN World
                          ELSE AdlOne(h[s \ {Max(s)}], m, vs[Max(s)].user, vs[Max(s)].closeSize)]
           g == CHOOSE h : h = Body(h)
<1>2. ForEach(LAMBDA y, v : AdlOne(y, m, v.user, v.closeSize), World, vs) = g[DOMAIN vs]
  BY Zenon DEF ForEach, MapThenFoldSet
<1>3. IsFold(g, <<m>>, vs, World, n)
  <2>1. \A y, v : Turn(<<m>>, y, v) = AdlOne(y, m, v.user, v.closeSize)
    BY Zenon DEF Turn
  <2>2. \A h : IsFold(h, <<m>>, vs, World, n) <=> h = Body(h)
    <3>1. ASSUME NEW h
          PROVE  IsFold(h, <<m>>, vs, World, n) <=> h = Body(h)
      <4>1. \A s : Turn(<<m>>, h[s \ {Max(s)}], vs[Max(s)])
                   = AdlOne(h[s \ {Max(s)}], m, vs[Max(s)].user, vs[Max(s)].closeSize)
        BY <2>1, Zenon
      <4>2. QED
        BY <1>1, <4>1, Zenon DEF IsFold
    <3>2. QED
      BY <3>1, Zenon
  <2>3. \E h : h = Body(h)
    BY <2>2, PrefixFold, Zenon
  <2> HIDE DEF Body
  <2>4. g = Body(g)
    BY <2>3, Zenon
  <2>5. QED
    BY <2>2, <2>4, Zenon
<1> HIDE DEF g
<1>4. PICK w : Traces(w, g, <<m>>, World, vs, n)
  BY <1>3, LoopUnfolds, Zenon
<1>5. /\ w[0] = World
      /\ \A k \in 1 .. n : w[k] = AdlOne(w[k - 1], m, vs[k].user, vs[k].closeSize)
  BY <1>4, Zenon DEF Traces, Turn
<1>6. price[m] \in Nat
  BY PriceNat, Zenon DEF Adl
<1>7. Commit(w[n])
  <2>1. Commit(ForEach(LAMBDA y, v : AdlOne(y, m, v.user, v.closeSize), World, vs))
    BY Zenon DEF Adl
  <2>2. QED
    BY <1>1, <1>2, <1>4, <2>1, Zenon DEF Traces
<1>8. QED
  BY <1>5, <1>6, <1>7, Zenon DEF AdlStates

\* adl as a transaction.
LEMMA AdlStep ==
    ASSUME Laws, WorldOK(World), price \in [Markets -> Prices \cup {NoPrice}],
           NEW m \in Markets, NEW vs \in Seq(VictimType), Adl(m, vs)
    PROVE  \E s : Commit(s) /\ Moves(World, s, m, 0, 0)
<1> DEFINE n == Len(vs)
<1>1. n \in Nat /\ n = Len(vs)
  OBVIOUS
<1> HIDE DEF n
<1>2. price[m] \in Nat
  BY <1>1, AdlTrace, Zenon
<1>3. PICK w : AdlStates(w, m, vs, n)
  BY <1>1, AdlTrace, Zenon
<1>4. w[n].ok => Moves(World, w[n], m, 0, 0)
  BY <1>1, <1>2, <1>3, AdlTurns, Zenon DEF AdlStates
<1>5. QED
  BY <1>3, <1>4, Zenon DEF AdlStates, Commit

\* The storages between the turns of applyBatch's loop.
LEMMA BatchTrace ==
    ASSUME Laws, NEW fs, NEW n \in Nat, DOMAIN fs = 1 .. n
    PROVE  \E w : /\ w[0] = World
                  /\ \A k \in 1 .. n : w[k] = SettleFill(w[k - 1], fs[k])
                  /\ ForEach(SettleFill, World, fs) = w[n]
<1> DEFINE Body(h) == [s \in SUBSET DOMAIN fs |->
                          IF s = {} THEN World ELSE SettleFill(h[s \ {Max(s)}], fs[Max(s)])]
           g == CHOOSE h : h = Body(h)
<1>1. ForEach(SettleFill, World, fs) = g[DOMAIN fs]
  BY Zenon DEF ForEach, MapThenFoldSet
<1>2. IsFold(g, <<>>, fs, World, n)
  <2>1. \A y, f : Turn(<<>>, y, f) = SettleFill(y, f)
    BY Zenon DEF Turn
  <2>2. \A h : IsFold(h, <<>>, fs, World, n) <=> h = Body(h)
    BY <2>1, Zenon DEF IsFold
  <2>3. \E h : h = Body(h)
    BY <2>2, PrefixFold, Zenon
  <2> HIDE DEF Body
  <2>4. g = Body(g)
    BY <2>3, Zenon
  <2>5. QED
    BY <2>2, <2>4, Zenon
<1> HIDE DEF g
<1>3. PICK w : Traces(w, g, <<>>, World, fs, n)
  BY <1>2, LoopUnfolds, Zenon
<1>4. w[0] = World /\ \A k \in 1 .. n : w[k] = SettleFill(w[k - 1], fs[k])
  BY <1>3, Zenon DEF Traces, Turn
<1>5. QED
  BY <1>1, <1>3, <1>4, Zenon DEF Traces

\* applyBatch's calls as a transaction.
LEMMA BatchStep ==
    ASSUME Laws, WorldOK(World), NEW fs \in Seq(FillType), NEW m,
           Commit(ForEach(SettleFill, World, fs))
    PROVE  \E s : /\ Commit(s) /\ WorldOK(s) /\ Kept(World, s)
                  /\ Paired(fs) => Moves(World, s, m, 0, 0)
<1> DEFINE n == Len(fs)
<1>1. n \in Nat /\ DOMAIN fs = 1 .. n
  OBVIOUS
<1>2. n = Len(fs)
  OBVIOUS
<1> HIDE DEF n
<1>3. PICK w : /\ w[0] = World
               /\ \A k \in 1 .. n : w[k] = SettleFill(w[k - 1], fs[k])
               /\ ForEach(SettleFill, World, fs) = w[n]
  BY <1>1, BatchTrace, Zenon
<1>4. Commit(w[n])
  BY <1>3, Zenon
<1>5. w[0] = World /\ \A k \in 1 .. n : w[k] = SettleFill(w[k - 1], fs[k])
  BY <1>3, Zenon
<1>6. w[n].ok => /\ WorldOK(w[n]) /\ Kept(World, w[n])
                 /\ Paired(fs) => Moves(World, w[n], m, 0, 0)
  BY <1>1, <1>2, <1>5, BatchTurns, Zenon
<1>7. QED
  BY <1>4, <1>6, Zenon DEF Commit

-----------------------------------------------------------------------------
\* applyBatch, with any fills.
LEMMA BatchSound ==
    ASSUME Laws, ExchangeOK, FundingPaced, NEW b \in Batches, ApplyBatch(b)
    PROVE  Sound
<1>1. b.fills \in Seq(FillType)
  BY ExchangeAssumption, Zenon
<1>2. /\ WorldOK(World) /\ Commit(ForEach(SettleFill, World, b.fills))
      /\ UNCHANGED <<markets, price, lastFundingAt, now>>
  BY Zenon DEF ExchangeOK, ApplyBatch
<1>3. PICK s : /\ Commit(s) /\ WorldOK(s) /\ Kept(World, s)
               /\ Paired(b.fills) => Moves(World, s, 0, 0, 0)
  BY <1>1, <1>2, BatchStep, Zenon
<1>4. BatchesPaired => Paired(b.fills)
  BY DEF BatchesPaired
<1>5. UNCHANGED <<markets, price, lastFundingAt, now>>
  BY <1>2, Zenon
<1>6. QED
  BY <1>3, <1>4, <1>5, TransactionSound, Zenon

\* adl, with any victims.
LEMMA AdlSound ==
    ASSUME Laws, ExchangeOK, FundingPaced, NEW c \in AdlCalls, Adl(c.market, c.victims)
    PROVE  Sound
<1>1. c.market \in Markets /\ c.victims \in Seq(VictimType)
  BY ExchangeAssumption, Zenon
<1>2. PICK s : Commit(s) /\ Moves(World, s, c.market, 0, 0)
  BY <1>1, AdlStep, Zenon DEF ExchangeOK
<1>3. WorldOK(s) /\ Kept(World, s)
  BY <1>2, Zenon DEF Moves, Kept
<1>4. UNCHANGED <<markets, price, lastFundingAt, now>>
  BY Zenon DEF Adl, chain
<1>5. QED
  BY <1>2, <1>3, <1>4, TransactionSound, Zenon

\* Every step of the exchange.
LEMMA StepSound ==
    ASSUME Laws, ExchangeOK, FundingPaced, [ExchangeNext]_exchangeVars
    PROVE  Sound
<1>1. CASE SettlementNext
  <2>1. CASE \E b \in Batches : ApplyBatch(b)
    BY <2>1, BatchSound
  <2>2. QED
    BY <1>1, <2>1, AdministrationSound, Zenon DEF SettlementNext
<1>2. CASE RiskNext
  BY <1>2, LiquidateSound, AdlSound, FundingSound, Zenon DEF RiskNext
<1>3. QED
  BY <1>1, <1>2, TraderSound, CounterpartySound, FundSound, AdministrationSound DEF ExchangeNext
=============================================================================
