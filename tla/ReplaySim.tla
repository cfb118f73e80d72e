----------------------------- MODULE ReplaySim -----------------------------
(***************************************************************************)
(* The replay of a price tape through the quoting strategy                 *)
(* (scripts/replay-binance.ts, scripts/lib/sim): the tape is loaded page   *)
(* by page or made up, then every bar may fill the bid and the ask quoted  *)
(* from the close before it.                                               *)
(*                                                                         *)
(* Prices of the tape are integers; quotes, fills and profits are in units *)
(* of 1 / Unit, so that no step rounds.  BPS_UNIT is the code's 10_000.  The    *)
(* volatility is a square root of logarithms: it is zero exactly when all  *)
(* returns of the window are equal, and otherwise one of VolPenalties.     *)
(* What a pseudo-random path may be is any bar that starts where the last  *)
(* one ended.                                                              *)
(*                                                                         *)
(* `cash` is not in the code: what the fills paid and took in.             *)
(***************************************************************************)
EXTENDS Integers, SequencesExt, FiniteSetsExt

CONSTANTS
    TapePrices,
    MINUTES,            \* bars asked for
    PAGE,               \* bars of a page
    BPS_UNIT, baseSpreadBps, invPenaltyBpsAtMax, invMax, invSkewBpsAtMax,
    VolPenalties,       \* what a volatility above zero adds to the spread
    windowMs,           \* minutes the volatility looks back
    quoteSize,
    killThreshold,
    MaxMinute           \* bound on the exchange's clock

ASSUME SimAssumption ==
    /\ TapePrices \cup VolPenalties \cup {MINUTES, PAGE, BPS_UNIT, quoteSize, windowMs} \subseteq Nat \ {0}
    /\ {baseSpreadBps, invPenaltyBpsAtMax, invMax, invSkewBpsAtMax, killThreshold, MaxMinute} \subseteq Nat

Scale == IF invMax > 0 THEN invMax ELSE 1
Unit == 2 * BPS_UNIT * Scale * BPS_UNIT * Scale

VARIABLES
    source,             \* "synthetic" or "binance"
    bars,
    cursor,             \* the next minute to ask for
    loaded,
    at,                 \* the bar replayed last, 0 before the replay
    samples,            \* the volatility window: bars whose close it holds
    lots, inventory, realisedPnl, killed,
    bidFills, askFills,
    cash

simVars == <<source, bars, cursor, loaded, at, samples, lots, inventory, realisedPnl, killed, bidFills, askFills, cash>>
positionVars == <<lots, inventory, realisedPnl, killed, bidFills, askFills, cash>>

-----------------------------------------------------------------------------
(***************************************************************************)
(* The tape.                                                               *)
(***************************************************************************)

Bar(ts, open, close, low, high) == [ts |-> ts, open |-> open, close |-> close, low |-> low, high |-> high]

\* Bars that can follow one that closed at p.
BarsFrom(ts, p) ==
    {Bar(ts, p, b[1], b[2], b[3]) : b \in {x \in TapePrices \X TapePrices \X TapePrices :
        x[2] <= x[1] /\ x[2] <= p /\ x[3] >= x[1] /\ x[3] >= p}}

\* generateSyntheticTape: one more bar.
GenerateBar ==
    /\ source = "synthetic" /\ ~loaded
    /\ \E p \in (IF bars = <<>> THEN TapePrices ELSE {Last(bars).close}) :
       \E bar \in BarsFrom(Len(bars), p) : bars' = Append(bars, bar)
    /\ loaded' = (Len(bars') = MINUTES)
    /\ UNCHANGED <<source, cursor, at, samples, positionVars>>

\* Mutant: the next page starts at the last bar of this one.
CursorAtLast(page) == Last(page).ts

CursorAfter(page) == Last(page).ts + 1

\* The pages the exchange may answer with: bars from the cursor on, in order,
\* minutes may be missing.  Here a bar stays at one price.
PagesFrom(c) ==
    UNION {{[i \in 1 .. Cardinality(S) |-> LET ts == SetToSortSeq(S, <)[i] IN Bar(ts, p[ts], p[ts], p[ts], p[ts])] :
            p \in [S -> TapePrices]} : S \in {T \in SUBSET (c .. MaxMinute) : Cardinality(T) <= PAGE}}

\* fetchBinanceTape: one page; an empty one ends the loop, and so do enough
\* bars, of which the first MINUTES are kept.
FetchPage ==
    /\ source = "binance" /\ ~loaded
    /\ \E page \in PagesFrom(cursor) :
        /\ bars' = IF page = <<>> \/ Len(bars \o page) < MINUTES THEN bars \o page ELSE SubSeq(bars \o page, 1, MINUTES)
        /\ cursor' = IF page = <<>> THEN cursor ELSE CursorAfter(page)
        /\ loaded' = (page = <<>> \/ Len(bars \o page) >= MINUTES)
    /\ UNCHANGED <<source, at, samples, positionVars>>

-----------------------------------------------------------------------------
(***************************************************************************)
(* The strategy and the volatility window.                                 *)
(***************************************************************************)

Clamp(x, lo, hi) == IF x < lo THEN lo ELSE IF x > hi THEN hi ELSE x

\* The inventory against invMax, in units of 1 / Scale, as are spread and skew.
InvRatio(inv) == IF invMax > 0 THEN Clamp(inv, -invMax, invMax) ELSE 0

Quotes(mid, inv, volPen) ==
    LET ratio == InvRatio(inv)
        spread == (baseSpreadBps + volPen) * Scale + Max({ratio, -ratio}) * invPenaltyBpsAtMax
        skewed == mid * (BPS_UNIT * Scale - ratio * invSkewBpsAtMax)
    IN  [bid |-> skewed * (2 * BPS_UNIT * Scale - spread), ask |-> skewed * (2 * BPS_UNIT * Scale + spread)]

\* record: the sample, and those that fell out of the window go.
Recorded(i) ==
    SelectSeq(Append(samples, i), LAMBDA j : bars[j].ts >= bars[i].ts - windowMs)

\* realisedVol: whether the returns differ.
Flat ==
    \A i, j \in 2 .. Len(samples) :
        bars[samples[i]].close * bars[samples[j - 1]].close = bars[samples[j]].close * bars[samples[i - 1]].close

VolPens == IF Flat THEN {0} ELSE VolPenalties

-----------------------------------------------------------------------------
(***************************************************************************)
(* The fills.                                                              *)
(***************************************************************************)

SignOf(side) == IF side = "long" THEN 1 ELSE -1

\* Mutant: a short lot's profit is taken for a long one's.
SlicePnlLong(lot, closed, price) == (price - lot.price) * closed

SlicePnl(lot, closed, price) == SignOf(lot.side) * (price - lot.price) * closed

\* applyFill: close the oldest lots of the other side, open what is left over.
\* Its loop ends at a lot of the same side, so the fold skips from there.
ApplySimFill(book, side, size, price) ==
    LET Slice(acc, lot) ==
            IF acc.left = 0 \/ lot.side = side
            THEN [acc EXCEPT !.lots = Append(@, lot)]
            ELSE LET closed == Min({lot.size, acc.left})
                 IN  [left |-> acc.left - closed,
                      realised |-> acc.realised + SlicePnl(lot, closed, price),
                      lots |-> IF closed = lot.size THEN acc.lots
                               ELSE Append(acc.lots, [lot EXCEPT !.size = @ - closed])]
        done == FoldLeft(Slice, [left |-> size, realised |-> book.realised, lots |-> <<>>], book.lots)
    IN  [lots |-> IF done.left = 0 THEN done.lots
                  ELSE Append(done.lots, [side |-> side, size |-> done.left, price |-> price]),
         realised |-> done.realised,
         inventory |-> book.inventory + SignOf(side) * size,
         cash |-> book.cash - SignOf(side) * size * price]

\* The first bar seeds the window.
SeedVol ==
    /\ loaded /\ at = 0 /\ Len(bars) >= 2
    /\ at' = 1
    /\ samples' = Recorded(1)
    /\ UNCHANGED <<source, bars, cursor, loaded, positionVars>>

\* A bar: quotes from the close before it, fills, the kill switch, the window.
ReplayBar ==
    /\ at > 0 /\ at < Len(bars)
    /\ at' = at + 1
    /\ samples' = Recorded(at')
    /\ IF killed
       THEN UNCHANGED positionVars
       ELSE \E volPen \in VolPens :
            LET q == Quotes(bars[at].close, inventory, volPen)
                bid == bars[at'].low * Unit <= q.bid
                ask == bars[at'].high * Unit >= q.ask
                start == [lots |-> lots, realised |-> realisedPnl, inventory |-> inventory, cash |-> cash]
                bought == IF bid THEN ApplySimFill(start, "long", quoteSize, q.bid) ELSE start
                sold == IF ask THEN ApplySimFill(bought, "short", quoteSize, q.ask) ELSE bought
            IN  /\ lots' = sold.lots /\ inventory' = sold.inventory
                /\ realisedPnl' = sold.realised /\ cash' = sold.cash
                /\ bidFills' = bidFills + (IF bid THEN 1 ELSE 0)
                /\ askFills' = askFills + (IF ask THEN 1 ELSE 0)
                /\ killed' = (sold.realised < -killThreshold * Unit)
    /\ UNCHANGED <<source, bars, cursor, loaded>>

\* markToMarketPnl, the open lots at a price.
MarkToMarket(price) ==
    realisedPnl + FoldLeft(LAMBDA sum, lot : sum + SignOf(lot.side) * lot.size * (price * Unit - lot.price), 0, lots)

SimInit ==
    /\ source \in {"synthetic", "binance"}
    /\ bars = <<>> /\ cursor = 0 /\ loaded = FALSE
    /\ at = 0 /\ samples = <<>>
    /\ lots = <<>> /\ inventory = 0 /\ realisedPnl = 0 /\ killed = FALSE
    /\ bidFills = 0 /\ askFills = 0 /\ cash = 0

SimNext == GenerateBar \/ FetchPage \/ SeedVol \/ ReplayBar

SimSpec == SimInit /\ [][SimNext]_simVars

-----------------------------------------------------------------------------
(***************************************************************************)
(* Properties.                                                             *)
(***************************************************************************)

\* The profit simulateMarket reports is the cash the fills left plus the
\* inventory at the last close, however the fills were matched first in first
\* out; and the lots left open are the inventory, all on its side.
PnlIsCash ==
    at > 0 =>
        /\ MarkToMarket(bars[at].close) = cash + inventory * bars[at].close * Unit
        /\ inventory = FoldLeft(LAMBDA sum, lot : sum + SignOf(lot.side) * lot.size, 0, lots)
        /\ Cardinality({lots[i].side : i \in DOMAIN lots}) <= 1

\* A tape has no minute twice and none out of order, on whichever pages the
\* minutes came and wherever minutes were missing: fetchBinanceTape asks for
\* the next page after the last bar it has.
TapeInOrder == \A i, j \in DOMAIN bars : i < j => bars[i].ts < bars[j].ts

\* Both: the report is right for a tape that is (simulateMarket over
\* fetchBinanceTape).
ReplayFaithful == PnlIsCash /\ TapeInOrder
=============================================================================
