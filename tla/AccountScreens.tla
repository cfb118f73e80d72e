--------------------------- MODULE AccountScreens ---------------------------
(***************************************************************************)
(* The account's fills: the edge's list, what GET /v1/fills serves of it,  *)
(* the query cache of useFills, the panel's Fills tab, which puts the      *)
(* fills of an order into one row (web/components/trade/PositionPanel.tsx) *)
(* and the history page, which lists them as they are                      *)
(* (web/app/(app)/history/page.tsx).                                       *)
(*                                                                         *)
(* A fill's time is its place in the edge's list; an order's fills may be  *)
(* far apart, with those of others between them.                           *)
(***************************************************************************)
EXTENDS Integers, SequencesExt, FiniteSetsExt

CONSTANTS
    FillMarkets,
    PanelMarket,        \* the market of the trade page
    AccountOrders,      \* order id -> its market
    FillSizes, FillPrices,
    FILLS_LIMIT,        \* fills asked for
    MaxFills            \* bound on fills

ASSUME AccountAssumption ==
    /\ PanelMarket \in FillMarkets /\ "all" \notin FillMarkets
    /\ AccountOrders \in [DOMAIN AccountOrders -> FillMarkets] /\ "liquidation" \notin DOMAIN AccountOrders
    /\ FillSizes \cup FillPrices \cup {FILLS_LIMIT} \subseteq Nat \ {0}

VARIABLES
    fills,              \* of the account, oldest first
    fillsCache,         \* query key -> data
    answer,             \* query key -> the answer on its way, if any
    showing,            \* "panel" or "history"
    scope               \* of the panel: "current" or "all"

accountVars == <<fills, fillsCache, answer, showing, scope>>

\* qk.fills: a market, or all.
FillKeys == FillMarkets \cup {"all"}

\* record_fill.
RecordFill(o, m, q, p) ==
    /\ Len(fills) < MaxFills
    /\ fills' = Append(fills, [orderId |-> o, marketId |-> m, qty |-> q, price |-> p, fee |-> q,
                               ts |-> Len(fills) + 1])
    /\ UNCHANGED <<fillsCache, answer, showing, scope>>

\* list_fills: the newest first, and of those the market's.
Served(key) ==
    LET newest == Reverse(SubSeq(fills, Max({1, Len(fills) - FILLS_LIMIT + 1}), Len(fills)))
    IN  IF key = "all" THEN newest ELSE SelectSeq(newest, LAMBDA f : f.marketId = key)

\* The key of the useFills that is mounted.
MountedKey(s, sc) == IF s = "panel" /\ sc = "current" THEN PanelMarket ELSE "all"

\* The interval, an invalidation or a mount: the mounted query asks, the edge
\* answers.
AskFills ==
    LET key == MountedKey(showing, scope) IN
    /\ answer[key] = {}
    /\ answer' = [answer EXCEPT ![key] = {Served(key)}]
    /\ UNCHANGED <<fills, fillsCache, showing, scope>>

FillsArrive(key) ==
    /\ answer[key] # {}
    /\ fillsCache' = [fillsCache EXCEPT ![key] = CHOOSE fs \in answer[key] : TRUE]
    /\ answer' = [answer EXCEPT ![key] = {}]
    /\ UNCHANGED <<fills, showing, scope>>

SetScope(sc) ==
    /\ showing = "panel" /\ sc # scope
    /\ scope' = sc
    /\ UNCHANGED <<fills, fillsCache, answer, showing>>

\* The panel's scope starts anew with it.
ShowFills(s) ==
    /\ s # showing
    /\ showing' = s /\ scope' = "current"
    /\ UNCHANGED <<fills, fillsCache, answer>>

-----------------------------------------------------------------------------
NewRow(f) == [orderId |-> f.orderId, marketId |-> f.marketId, qty |-> f.qty, notional |-> f.qty * f.price,
              fee |-> f.fee, ts |-> f.ts, legs |-> 1]

\* Mutant: the row keeps the time of the fill that opened it.
MergedLate(r, f) ==
    [r EXCEPT !.qty = @ + f.qty, !.notional = @ + f.qty * f.price, !.fee = @ + f.fee, !.legs = @ + 1]

\* A further fill of an order; the earliest time stays.
Merged(r, f) ==
    [r EXCEPT !.qty = @ + f.qty, !.notional = @ + f.qty * f.price, !.fee = @ + f.fee,
              !.ts = Min({@, f.ts}), !.legs = @ + 1]

\* aggregateFills: order id -> row.
AggregateFills(fs) ==
    FoldLeft(LAMBDA groups, f :
                IF f.orderId \in DOMAIN groups
                THEN [groups EXCEPT ![f.orderId] = Merged(@, f)]
                ELSE [o \in DOMAIN groups \cup {f.orderId} |-> IF o = f.orderId THEN NewRow(f) ELSE groups[o]],
             <<>>, fs)

\* What is on the screen: in the panel a row of each order, on the history
\* page the fills themselves, which are rows of one leg.
OrderRows(fs) == Range(AggregateFills(fs))
FillRows(fs) == {NewRow(f) : f \in Range(fs)}

ShownRows ==
    LET shown == fillsCache[MountedKey(showing, scope)]
    IN  IF showing = "panel" THEN OrderRows(shown) ELSE FillRows(shown)

AccountInit ==
    /\ fills = <<>>
    /\ fillsCache = [k \in FillKeys |-> <<>>] /\ answer = [k \in FillKeys |-> {}]
    /\ showing = "panel" /\ scope = "current"

AccountNext ==
    \/ AskFills
    \/ \E q \in FillSizes, p \in FillPrices :
        \/ \E o \in DOMAIN AccountOrders : RecordFill(o, AccountOrders[o], q, p)
        \/ \E m \in FillMarkets : RecordFill("liquidation", m, q, p)
    \/ \E k \in FillKeys : FillsArrive(k)
    \/ \E sc \in {"current", "all"} : SetScope(sc)
    \/ \E s \in {"panel", "history"} : ShowFills(s)

AccountSpec == AccountInit /\ [][AccountNext]_accountVars

-----------------------------------------------------------------------------
(* Properties *)

Total(fs, Field(_)) == FoldLeft(LAMBDA sum, f : sum + Field(f), 0, fs)

\* "One order = one row, showing the volume-weighted average price + total qty +
\* total notional": a row of an order (liquidations share one id and are not
\* one) is the sum of the order's newest fills that were among the FILLS_LIMIT
\* served, and once it has all of them it has the time of the first, whatever
\* was filled between them, however old the answer is and whichever key it is
\* cached under (aggregateFills, useFills, list_fills).
RowsOfOrders ==
    \A r \in ShownRows :
        LET own == SelectSeq(fills, LAMBDA f : f.orderId = r.orderId)
        IN  r.orderId # "liquidation" =>
            \E last \in r.legs .. Len(own) :
                LET newest == SubSeq(own, last - r.legs + 1, last) IN
                /\ r.marketId = AccountOrders[r.orderId]
                /\ r.qty = Total(newest, LAMBDA f : f.qty)
                /\ r.notional = Total(newest, LAMBDA f : f.qty * f.price)
                /\ r.fee = Total(newest, LAMBDA f : f.fee)
                /\ r.ts = newest[1].ts
=============================================================================
