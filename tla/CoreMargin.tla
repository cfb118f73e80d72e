----------------------------- MODULE CoreMargin -----------------------------
(***************************************************************************)
(* crates/perplex-core/src/margin.rs, the Rust mirror of the registry's    *)
(* arithmetic, and the conversion of its results to the contract's scale   *)
(* (to_x18 of crates/perplex-diff-gen).                                    *)
(*                                                                         *)
(* Decimals are taken as exact: a result is [num, den], the number of X18  *)
(* units it stands for.  The code keeps 28 digits.                         *)
(***************************************************************************)
EXTENDS PositionRegistry

Exact(num, den) == [num |-> num, den |-> den]

\* to_x18 truncates toward zero.
to_x18(x) == TruncDiv(x.num, x.den)

Signum(n) == IF n > 0 THEN 1 ELSE IF n < 0 THEN -1 ELSE 0

\* Mutant: a flip realises the whole fill.
apply_fill_FlipsWhole(p, size_delta, fill_price) ==
    LET new_size == p.size + size_delta
        same_side == Signum(p.size) = Signum(size_delta)
        flipped == Signum(p.size) # Signum(new_size)
        closed == IF same_side THEN 0 ELSE IF new_size = 0 THEN p.size ELSE Signum(p.size) * Abs(size_delta)
    IN  [size |-> new_size,
         realised |-> Exact(closed * (fill_price - p.entryPriceX18), X18),
         entry |-> IF new_size = 0 THEN Exact(0, 1)
                   ELSE IF same_side
                   THEN Exact(Abs(p.size) * p.entryPriceX18 + Abs(size_delta) * fill_price, Abs(new_size))
                   ELSE Exact(IF flipped THEN fill_price ELSE p.entryPriceX18, 1)]

\* apply_fill: a full close and a flip realise the whole old size, a partial
\* close the part closed, an addition nothing.  Opening counts as a flip.
apply_fill(p, size_delta, fill_price) ==
    LET new_size == p.size + size_delta
        same_side == Signum(p.size) = Signum(size_delta)
        flipped == Signum(p.size) # Signum(new_size)
        closed == IF same_side THEN 0
                  ELSE IF new_size = 0 \/ flipped THEN p.size
                  ELSE Signum(p.size) * Abs(size_delta)
    IN  [size |-> new_size,
         realised |-> Exact(closed * (fill_price - p.entryPriceX18), X18),
         entry |-> IF new_size = 0 THEN Exact(0, 1)
                   ELSE IF same_side
                   THEN Exact(Abs(p.size) * p.entryPriceX18 + Abs(size_delta) * fill_price, Abs(new_size))
                   ELSE Exact(IF flipped THEN fill_price ELSE p.entryPriceX18, 1)]

unrealised_pnl(p, mark) == Exact(p.size * (mark - p.entryPriceX18), X18)

notional(p, mark) == Exact(Abs(p.size) * mark, X18)

\* initial_margin and maintenance_margin.
margin(p, mark, ratio_bps) == Exact(Abs(p.size) * mark * ratio_bps, X18 * BPS)

\* What health_factor divides, equity and maintenance margin, as a difference:
\* the position is unhealthy when it is negative.
equity_over_margin(p, mark, collateral, mm_ratio_bps) ==
    Exact(collateral * X18 * BPS + p.size * (mark - p.entryPriceX18) * BPS
            - Abs(p.size) * mark * mm_ratio_bps, X18 * BPS)

liquidation_price(p, collateral, mm_ratio_bps) ==
    IF p.size > 0
    THEN Exact((p.size * p.entryPriceX18 - collateral * X18) * BPS, p.size * (BPS - mm_ratio_bps))
    ELSE Exact((-p.size * p.entryPriceX18 + collateral * X18) * BPS, -p.size * (BPS + mm_ratio_bps))

-----------------------------------------------------------------------------
SomeRatios == {500, 5000, 9999}
SomeBalances == 0 .. 3

\* One fill gives the same size, entry and realised PnL as on the chain.
FillAgrees(p, d, px) ==
    LET core == apply_fill(p, d, px)
        chain == FilledPosition(p, 0, d, px)
    IN  /\ core.size = chain.size /\ to_x18(core.entry) = chain.entryPriceX18
        /\ to_x18(core.realised) = RealisedPnl(p, d, px)

\* PnL and notional are the same at a mark; the chain truncates margins twice.
ValueAgrees(p, mark, r) ==
    /\ to_x18(unrealised_pnl(p, mark)) = UnrealisedPnl(p, mark)
    /\ to_x18(notional(p, mark)) = Notional(p.size, mark)
    /\ to_x18(margin(p, mark, r)) - Margin(p.size, mark, r) \in {0, 1}

\* The verdicts differ by the truncations only: within one unit against the
\* holder, within three in the holder's favour.
HealthAgrees(p, mark, balance, r) ==
    LET gap == equity_over_margin(p, mark, balance * USDC_TO_X18, r)
    IN  Margin(p.size, mark, r) > 0 =>
            IF HealthFactor(p, balance, mark, r) < X18 THEN gap.num < gap.den ELSE gap.num > -3 * gap.den

\* The liquidation price shown to the holder is where the health factor
\* crosses one, for longs and shorts.
PriceAgrees(p, mark, balance, r) ==
    LET liq == liquidation_price(p, balance * USDC_TO_X18, r)
        unhealthy == equity_over_margin(p, mark, balance * USDC_TO_X18, r).num < 0
    IN  p.size # 0 => (unhealthy <=> IF p.size > 0 THEN mark * liq.den < liq.num ELSE mark * liq.den > liq.num)

\* From any position the registry can hold, the Rust mirror, converted, and
\* the contract compute the same fill, for opens, additions, partial and full
\* closes and flips on both sides, and the same values and verdicts at any
\* mark up to the contract's truncations ("Bit-for-bit agreement with the
\* on-chain implementation is enforced by Foundry differential tests").
CoreAgrees ==
    \A u \in Users, m \in Markets :
        LET p == registry.positions[u][m] IN
        /\ \A d \in SizeDeltas \ {0}, px \in FillPrices \ {0} : FillAgrees(p, d, px)
        /\ \A mark \in FillPrices \ {0}, r \in SomeRatios :
            /\ ValueAgrees(p, mark, r)
            /\ \A b \in SomeBalances : HealthAgrees(p, mark, b, r) /\ PriceAgrees(p, mark, b, r)
=============================================================================
