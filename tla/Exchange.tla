------------------------------ MODULE Exchange ------------------------------
(***************************************************************************)
(* The on-chain exchange as one system: SettlementEngine, LiquidationEngine*)
(* and FundingEngine driving PositionRegistry, CollateralVault,            *)
(* SyntheticCounterparty, MarketRegistry and InsuranceFund.                *)
(*                                                                         *)
(* A transaction threads the storages it may touch, a record [ok,          *)
(* registry, vault, usdc, cp, ledger], through its calls in the order of   *)
(* the code; ok = FALSE is a revert, and a transaction that reverts        *)
(* changes nothing.  Calls are made by whom the code authorises.           *)
(*                                                                         *)
(* The oracle is the environment: priceX18 returns price[m], or reverts    *)
(* when it is NoPrice.  `ledger` is not in the code: it records, per       *)
(* market, the position left without a holder by closes at the mark, the   *)
(* fees settled, and a bound on what truncation may have lost.             *)
(***************************************************************************)
EXTENDS PositionRegistry, SyntheticCounterparty, FiniteSets, FiniteSetsExt

CONSTANTS
    FUND,               \* the insurance fund's address
    Keepers,            \* addresses that call liquidate
    Prices, NoPrice,    \* oracle answers
    Batches,            \* [fills, nonce, deadline, signer] anyone may submit
    Operators,
    AdlCalls,           \* [market, victims] the owner may submit
    Listing, InitialCaps,   \* markets and caps set by the deployment
    Premiums,
    MAX_PREMIUM_ABS, FUNDING_INTERVAL,
    MaxTime             \* bound: block.timestamp stops here

\* The Fill of applyBatch and the victims of adl, as their ABI types them.
FillType == [user : Users, market : Markets, sizeDelta : Int, price : Nat, fee : Int]
VictimType == [user : Users, closeSize : Int]

ASSUME ExchangeAssumption ==
    /\ IsFiniteSet(Users) /\ IsFiniteSet(Markets)
    /\ {FUND, VAULT} \cup Keepers \subseteq Accounts
    /\ FUND # VAULT /\ VAULT \notin Keepers /\ CP \notin Keepers
    /\ Prices \subseteq Nat \ {0} /\ NoPrice \notin Prices
    /\ MAX_PREMIUM_ABS \in Nat /\ Premiums \subseteq Int
    /\ FUNDING_INTERVAL \in Nat \ {0}
    /\ Listing \in [Markets -> {p \in MarketParams : ValidParams(p)}] /\ InitialCaps \in [Markets -> Nat]
    /\ \A b \in Batches : b.fills \in Seq(FillType)
    /\ \A c \in AdlCalls : c.market \in Markets /\ c.victims \in Seq(VictimType)

VARIABLES
    price,          \* the oracle's answer per market
    settlement,     \* SettlementEngine storage
    lastFundingAt,  \* FundingEngine storage; zero before the first funding
    ledger

chain == <<markets, wiring, price, settlement, lastFundingAt, now>>
exchangeVars == <<chain, registry, vault, usdc, cp, ledger>>

World == [ok |-> TRUE, registry |-> registry, vault |-> vault, usdc |-> usdc,
          cp |-> cp, ledger |-> ledger]

\* The transaction that went through calls w: all of them, or none.
Commit(w) ==
    /\ w.ok
    /\ registry' = w.registry
    /\ vault' = w.vault
    /\ usdc' = w.usdc
    /\ cp' = w.cp
    /\ ledger' = w.ledger

\* A loop of calls over the elements of seq, in their order.
ForEach(call(_, _), w, seq) ==
    MapThenFoldSet(LAMBDA e, y : call(y, e), w, LAMBDA i : seq[i], LAMBDA S : Max(S), DOMAIN seq)

-----------------------------------------------------------------------------

Charged(l, fee, dust) == [house |-> l.house, fees |-> l.fees + fee, dust |-> l.dust + dust]

(***************************************************************************)
(* applyFill followed by the settlement of its proceeds in the vault, as   *)
(* SettlementEngine.applyBatch (fee), _closeAndSettle and _adlOne do it.   *)
(***************************************************************************)
FillAndSettle(w, u, m, sizeDelta, px, fee) ==
    LET realised == FillRealised(w.registry, u, m, sizeDelta, px)
        funding  == FillFunding(w.registry, u, m)
        delta    == ToRawUsdcDelta(realised + funding + fee)
        p        == w.registry.positions[u][m]
        ok       == /\ w.ok
                    /\ IsMarketActive(m)
                    /\ FillArgsOK(sizeDelta, px)
                    /\ Abs(p.size + sizeDelta) <= MaxSize
                    /\ CanApplySettlement(w.vault, u, delta)
    IN  IF ~ok THEN [w EXCEPT !.ok = FALSE]
        ELSE [w EXCEPT !.registry = Filled(@, u, m, sizeDelta, px),
                       !.vault = SettlementApplied(@, u, delta),
                       !.ledger = Charged(@, fee, FillDust(p, sizeDelta))]

HouseTakes(l, m, size, cash) ==
    [house |-> [l.house EXCEPT ![m] = [size |-> l.house[m].size + size,
                                       cash |-> l.house[m].cash + cash]],
     fees |-> l.fees, dust |-> l.dust]

\* A close at the mark has no other side: nobody holds what was closed.
TakenOver(w, m, sizeDelta, px) ==
    [w EXCEPT !.ledger = HouseTakes(@, m, -sizeDelta, sizeDelta * px)]

-----------------------------------------------------------------------------
(***************************************************************************)
(* SettlementEngine                                                        *)
(***************************************************************************)
\* One turn of applyBatch's loop: settle the fill, then call the hook.
SettleFill(w, f) ==
    LET s == FillAndSettle(w, f.user, f.market, f.sizeDelta, f.price, f.fee)
        realised == FillRealised(w.registry, f.user, f.market, f.sizeDelta, f.price)
    IN  IF ~s.ok \/ ~settlement.hook THEN s
        ELSE IF CanOnFill(s.cp, f.user, f.market, f.sizeDelta)
        THEN [s EXCEPT !.cp = OnFill(@, f.user, f.market, f.sizeDelta, realised)]
        ELSE [s EXCEPT !.ok = FALSE]

ApplyBatch(b) ==
    /\ b.fills # <<>>
    /\ now <= b.deadline
    /\ b.nonce \notin settlement.usedNonces
    /\ b.signer = settlement.operator
    /\ Commit(ForEach(SettleFill, World, b.fills))
    /\ settlement' = [settlement EXCEPT !.usedNonces = @ \cup {b.nonce}]
    /\ UNCHANGED <<markets, wiring, price, lastFundingAt, now>>

SetOperator(o) ==
    /\ settlement' = [settlement EXCEPT !.operator = o]
    /\ UNCHANGED <<markets, wiring, price, lastFundingAt, now, registry, vault, usdc, cp, ledger>>

SetFillHook(on) ==
    /\ settlement' = [settlement EXCEPT !.hook = on]
    /\ UNCHANGED <<markets, wiring, price, lastFundingAt, now, registry, vault, usdc, cp, ledger>>

-----------------------------------------------------------------------------
(***************************************************************************)
(* LiquidationEngine                                                       *)
(***************************************************************************)
Health(r, v, u, m) ==
    HealthFactor(r.positions[u][m], v.balances[u], price[m], markets[m].mmRatioBps)

Liquidatable(u, m) ==
    /\ IsMarketActive(m)
    /\ price[m] # NoPrice
    /\ Health(registry, vault, u, m) < X18

BonusUSDC(m, size) == Margin(size, price[m], markets[m].liqBonusBps) \div USDC_TO_X18

\* seizeForLiquidation as a call of a transaction.
SeizeAll(w, u, k, bonus) ==
    IF ~w.ok \/ ~CanSeize(w.vault, w.usdc, u) THEN [w EXCEPT !.ok = FALSE]
    ELSE [w EXCEPT !.vault = Seized(@, u), !.usdc = SeizedTokens(w.vault, @, u, k, FUND, bonus)]

\* _computeBonusUSDC, _closeAndSettle, _distribute.
Liquidated(u, m, k) ==
    LET size == registry.positions[u][m].size
    IN  SeizeAll(TakenOver(FillAndSettle(World, u, m, -size, price[m], 0), m, -size, price[m]),
                 u, k, BonusUSDC(m, size))

Liquidate(u, m, k) ==
    /\ Liquidatable(u, m)
    /\ registry.positions[u][m].size # 0
    /\ Commit(Liquidated(u, m, k))
    /\ UNCHANGED chain

Profitable(p, mark) ==
    \/ p.size > 0 /\ mark > p.entryPriceX18
    \/ p.size < 0 /\ mark < p.entryPriceX18

\* debitToExternal as a call of a transaction.
DebitToFund(w, u, amount) ==
    IF ~w.ok \/ ~CanDebit(w.vault, w.usdc, u, amount) THEN [w EXCEPT !.ok = FALSE]
    ELSE [w EXCEPT !.vault = Debited(@, u, amount),
                   !.usdc = DebitedTokens(w.vault, @, u, FUND, amount)]

\* Mutant: the profit of the whole position is taken, not of the closed part.
ClawBackWhole(r, u, m, closeSize) ==
    ToRawUsdcDelta(UnrealisedPnl(r.positions[u][m], price[m]))

\* What _adlOne takes back: the close is profitable, so this is not negative.
ClawBack(r, u, m, closeSize) == ToRawUsdcDelta(FillRealised(r, u, m, closeSize, price[m]))

\* _adlOne: close at the mark, then claw the realised profit back.
AdlOne(w, m, victim, closeSize) ==
    LET p    == w.registry.positions[victim][m]
        ok   == /\ w.ok
                /\ p.size # 0 /\ closeSize # 0
                /\ ~SameSide(p.size, closeSize)
                /\ Abs(closeSize) <= Abs(p.size)
                /\ Profitable(p, price[m])
    IN  IF ~ok THEN [w EXCEPT !.ok = FALSE]
        ELSE DebitToFund(
                TakenOver(FillAndSettle(w, victim, m, closeSize, price[m], 0), m, closeSize, price[m]),
                victim, ClawBack(w.registry, victim, m, closeSize))

Adl(m, victims) ==
    /\ IsMarketActive(m)
    /\ price[m] # NoPrice
    /\ Commit(ForEach(LAMBDA w, v : AdlOne(w, m, v.user, v.closeSize), World, victims))
    /\ UNCHANGED chain

-----------------------------------------------------------------------------
(***************************************************************************)
(* FundingEngine                                                           *)
(***************************************************************************)
\* Mutant: the interval is one second short.
FundingDueEarly(m) == lastFundingAt[m] # 0 => now + 1 >= lastFundingAt[m] + FUNDING_INTERVAL

FundingDue(m) == lastFundingAt[m] # 0 => now >= lastFundingAt[m] + FUNDING_INTERVAL

ApplyFunding(m, premium) ==
    /\ IsMarketActive(m)
    /\ Abs(premium) <= MAX_PREMIUM_ABS
    /\ FundingDue(m)
    /\ registry' = FundingUpdated(registry, m, registry.marketIndexFunding[m] + premium)
    /\ lastFundingAt' = [lastFundingAt EXCEPT ![m] = now]
    /\ ledger' = HouseTakes(ledger, m, 0, -ledger.house[m].size * premium)
    /\ UNCHANGED <<markets, wiring, price, settlement, now, vault, usdc, cp>>

-----------------------------------------------------------------------------
(***************************************************************************)
(* CollateralVault.withdraw with the registry's isWithdrawSafe behind it:  *)
(* a walk over the user's market list that reverts with the oracle.        *)
(***************************************************************************)
UserPosition(u, i) == registry.positions[u][registry.userMarkets[u][i]]

OpenEntries(u) == {i \in DOMAIN registry.userMarkets[u] : UserPosition(u, i).size # 0}

Priced(u) == \A i \in OpenEntries(u) : price[registry.userMarkets[u][i]] # NoPrice

\* Equity of the account if its balance were `balance`, over open positions.
Equity(u, balance) ==
    LET uPnL(i) == UnrealisedPnl(UserPosition(u, i), price[registry.userMarkets[u][i]])
    IN  balance * USDC_TO_X18 + SumFunction([i \in OpenEntries(u) |-> uPnL(i)])

RequiredMargin(u) ==
    LET im(i) == LET m == registry.userMarkets[u][i]
                 IN  Margin(UserPosition(u, i).size, price[m], markets[m].imRatioBps)
    IN  SumFunction([i \in OpenEntries(u) |-> im(i)])

\* Mutant: the margin is compared with the equity before the withdrawal.
IsWithdrawSafeStale(u, amount) ==
    \/ registry.userMarkets[u] = <<>>
    \/ /\ amount <= vault.balances[u]
       /\ Priced(u)
       /\ Equity(u, vault.balances[u]) >= RequiredMargin(u)

IsWithdrawSafe(u, amount) ==
    \/ registry.userMarkets[u] = <<>>
    \/ /\ amount <= vault.balances[u]
       /\ Priced(u)
       /\ Equity(u, vault.balances[u] - amount) >= RequiredMargin(u)

UserDeposit(u, amount) == Deposit(u, amount) /\ UNCHANGED <<chain, registry, cp, ledger>>

UserWithdraw(u, amount) ==
    /\ Withdraw(u, amount, IsWithdrawSafe(u, amount))
    /\ UNCHANGED <<chain, registry, cp, ledger>>

-----------------------------------------------------------------------------
(***************************************************************************)
(* InsuranceFund, the oracle, and block time                               *)
(***************************************************************************)
FundDeposit(a, amount) ==
    /\ amount > 0
    /\ usdc[a] >= amount
    /\ usdc' = Transfer(usdc, a, FUND, amount)
    /\ UNCHANGED <<chain, registry, vault, cp, ledger>>

FundWithdraw(to, amount) ==
    /\ usdc[FUND] >= amount
    /\ usdc' = Transfer(usdc, FUND, to, amount)
    /\ UNCHANGED <<chain, registry, vault, cp, ledger>>

OracleAnswers(m, p) ==
    /\ p # price[m]
    /\ price' = [price EXCEPT ![m] = p]
    /\ UNCHANGED <<markets, wiring, settlement, lastFundingAt, now, registry, vault, usdc, cp, ledger>>

Tick ==
    /\ now < MaxTime
    /\ now' = now + 1
    /\ UNCHANGED <<markets, wiring, price, settlement, lastFundingAt, registry, vault, usdc, cp, ledger>>

-----------------------------------------------------------------------------
(***************************************************************************)
(* The system as script/Deploy.s.sol leaves it (wired, hooked, markets     *)
(* listed, caps set), with the liquidation and funding engines in the      *)
(* roles the script gives its deployer.  block.timestamp is never zero.    *)
(***************************************************************************)
ExchangeInit ==
    /\ markets = Listing
    /\ wiring = {"engines", "funding"}
    /\ registry = EmptyRegistry
    /\ VaultInit
    /\ cp = [FreshCounterparty EXCEPT !.marketCap = InitialCaps]
    /\ now = 1
    /\ price \in [Markets -> Prices]
    /\ settlement \in [usedNonces : {{}}, operator : Operators, hook : {TRUE}]
    /\ lastFundingAt = [m \in Markets |-> 0]
    /\ ledger = [house |-> [m \in Markets |-> [size |-> 0, cash |-> 0]], fees |-> 0, dust |-> 0]

\* The traders' own calls: the counterparty contract has no call to the
\* vault's withdraw.
TraderNext ==
    \E u \in Users \ {CP}, a \in Amounts : UserDeposit(u, a) \/ UserWithdraw(u, a)

SettlementNext ==
    \/ \E b \in Batches : ApplyBatch(b)
    \/ \E o \in Operators \ {settlement.operator} : SetOperator(o)
    \/ SetFillHook(~settlement.hook)

RiskNext ==
    \/ \E u \in Users, m \in Markets, k \in Keepers : Liquidate(u, m, k)
    \/ \E c \in AdlCalls : Adl(c.market, c.victims)
    \/ \E m \in Markets, pr \in Premiums : ApplyFunding(m, pr)

\* Accounts that act for themselves: neither the vault, nor the fund, nor the
\* counterparty sends tokens on its own.
Callers == Accounts \ {VAULT, FUND, CP}

CounterpartyNext ==
    /\ \/ \E m \in Markets, c \in Caps : SetCap(m, c)
       \/ \E a \in Callers, amt \in Amounts : CustodyDeposit(a, amt)
       \/ \E amt \in Amounts : DepositToVault(amt) \/ QueueWithdraw(amt)
       \/ CancelWithdraw
       \/ \E a \in Accounts : ExecuteWithdraw(a)
    /\ UNCHANGED <<markets, wiring, price, settlement, lastFundingAt, registry, ledger>>

FundNext ==
    \/ \E a \in Callers, amt \in Amounts : FundDeposit(a, amt)
    \/ \E a \in Accounts, amt \in Amounts : FundWithdraw(a, amt)

ListingNext ==
    /\ MarketsNext
    /\ UNCHANGED <<wiring, price, settlement, lastFundingAt, now, registry, vault, usdc, cp, ledger>>

EnvironmentNext ==
    \/ \E m \in Markets, p \in Prices \cup {NoPrice} : OracleAnswers(m, p)
    \/ Tick

ExchangeNext ==
    \/ TraderNext
    \/ SettlementNext
    \/ RiskNext
    \/ CounterpartyNext
    \/ FundNext
    \/ ListingNext
    \/ EnvironmentNext

ExchangeSpec == ExchangeInit /\ [][ExchangeNext]_exchangeVars

-----------------------------------------------------------------------------
\* The value of an open position at mark zero, funding not yet settled
\* included, in 1/X18 of a PnL unit.
PositionValue(r, u, m) ==
    LET p == r.positions[u][m]
    IN  -p.size * (p.entryPriceX18 + r.marketIndexFunding[m] - p.cumulativeFunding)

MarketValue(r, m) == SumFunction([u \in Users |-> PositionValue(r, u, m)])

OpenValue(r) == SumFunction([m \in Markets |-> MarketValue(r, m)])

HouseCash(l) == SumFunction([m \in Markets |-> l.house[m].cash])

\* What is claimed and not deposited.
Imbalance(w) ==
    X18 * (USDC_TO_X18 * (SumFunction(w.vault.balances) - w.vault.totalDeposits) - w.ledger.fees)
        + OpenValue(w.registry) + HouseCash(w.ledger)

\* The fills of a batch come in pairs, the two sides of a trade, as the
\* matching engine produces them.  The contract does not check it.
Paired(fills) ==
    /\ Len(fills) % 2 = 0
    /\ \A k \in DOMAIN fills : k % 2 = 0 =>
          /\ fills[k].market = fills[k - 1].market
          /\ fills[k].price = fills[k - 1].price
          /\ fills[k].sizeDelta = -fills[k - 1].sizeDelta

BatchesPaired == \A b \in Batches : Paired(b.fills)

(***************************************************************************)
(* No value is made or lost.  What the vault owes the users, plus what     *)
(* their open positions are worth with funding settled lazily, plus the    *)
(* position nobody holds after liquidations and deleveraging, is what was  *)
(* deposited and fees, up to the truncations of applyFill and              *)
(* _toRawUsdcDelta.  It is about batches that pair every fill with its     *)
(* opposite (BatchesPaired).                                               *)
(***************************************************************************)
ClaimsEqualDeposits == Abs(Imbalance(World)) <= ledger.dust

(***************************************************************************)
(* A withdrawal never leaves its user liquidatable at the same price:      *)
(* isWithdrawSafe asks for initial margin on every position, the           *)
(* liquidation engine compares one market's equity with its maintenance    *)
(* margin.                                                                 *)
(***************************************************************************)
WithdrawLeavesMargin ==
    [][\A u \in Users, a \in Amounts : UserWithdraw(u, a) =>
        \A m \in Markets : price[m] # NoPrice => ~ Liquidatable(u, m)']_exchangeVars

(***************************************************************************)
(* Deleveraging takes profit and nothing else: whatever victims one call   *)
(* names, repeated or not, a victim's balance falls by no more than the    *)
(* funding the close settles, plus less than one raw USDC for the rounding *)
(* of the two conversions (credit of realised plus funding, debit of       *)
(* realised).                                                              *)
(***************************************************************************)
AdlTakesOnlyProfit ==
    [][\A c \in AdlCalls : Adl(c.market, c.victims) =>
        \A u \in {v.user : v \in Range(c.victims)} :
            USDC_TO_X18 * (vault.balances'[u] - vault.balances[u])
                > FillFunding(registry, u, c.market) - USDC_TO_X18]_exchangeVars

(***************************************************************************)
(* However submissions are timed, the funding index of a market has moved  *)
(* by at most one bounded premium per elapsed interval (applyFunding's     *)
(* bound and TooSoon, with zero as the "never funded" timestamp).          *)
(***************************************************************************)
FundingIndexBounded ==
    \A m \in Markets :
        Abs(registry.marketIndexFunding[m]) <= MAX_PREMIUM_ABS * (1 + (now - 1) \div FUNDING_INTERVAL)

\* While a custody withdrawal is queued, neither its amount nor its release
\* time moves: a different request must be cancelled for and wait again
\* (queueWithdraw, cancelWithdraw, executeWithdraw).
QueuedWithdrawalIsFixed ==
    [][cp.pending.amount # 0 => cp'.pending \in {cp.pending, NoPending}]_exchangeVars

-----------------------------------------------------------------------------
(***************************************************************************)
(* Statements of the repository's documents and comments that the code     *)
(* does not meet.  A run refutes the first; the README says how the others *)
(* fail.                                                                   *)
(***************************************************************************)
\* A position whose health factor is below one, in an active market with a
\* price, can be liquidated: the calls liquidate makes do not revert.
\* applySettlement reverts when the loss exceeds the balance.
UnhealthyCanBeLiquidated ==
    \A u \in Users, m \in Markets, k \in Keepers :
        Liquidatable(u, m) => Liquidated(u, m, k).ok

\* The users' sizes in a market sum to zero, so funding paid equals funding
\* received.  liquidate and adl close one side only.
SizesSumToZero ==
    \A m \in Markets :
        SumFunction([u \in Users |-> registry.positions[u][m].size]) = 0

\* The counterparty's position in the registry stays within the cap that
\* onFill enforces.  onFill works on a mirror that liquidate and adl, which
\* call applyFill without the hook, do not update.
CounterpartyWithinCap ==
    \A m \in Markets : Abs(registry.positions[CP][m].size) <= cp.marketCap[m]
=============================================================================
