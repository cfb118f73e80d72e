---------------------------- MODULE OrderTicket ----------------------------
(***************************************************************************)
(* The controls of the order form (web/components/trade/OrderForm.tsx) and *)
(* what comes in beside them: oracle ticks, the book snapshot and the free *)
(* collateral.  The limit price is filled in by an effect that runs after  *)
(* a change of the order type or of the mark.  The submit button opens the *)
(* wallet's prompt, and the form stays usable while it is open.  What      *)
(* happens to an order once it is posted is in TradeScreen.                *)
(*                                                                         *)
(* `typed` is not in the code: the price the user put into the field since *)
(* they last switched to a limit order.  So is `posted`: the order last    *)
(* sent, with what the wallet had signed.                                  *)
(***************************************************************************)
EXTENDS TicketMath

CONSTANTS
    TicketPrices,       \* what the mark may be and the user may type
    TicketSizes,
    Snapshots,          \* book snapshots: side -> levels
    FreeAmounts,        \* free collateral in dollars
    MAX_LEVERAGE,       \* market.maxLeverage
    LotScale,           \* the size field has 1 / LotScale for its unit
    MaxTouches          \* bound on what happens to the form

ASSUME TicketAssumption ==
    /\ TicketPrices \cup TicketSizes \cup {MAX_LEVERAGE, LotScale} \subseteq Nat \ {0}
    /\ FreeAmounts \subseteq Nat /\ MaxTouches \in Nat

Untyped == -2
NoFree == -1
NoTicket == <<>>

VARIABLES
    form,           \* [side, type, price, qty, leverage, tif, reduceOnly, postOnly]
    lastType,       \* lastTypeRef
    ticketMark,     \* markPx, NoMark before the market is loaded
    snap,           \* the cached book snapshot
    free,           \* freeCollateralUsdc, NoFree before it is loaded
    prompt,         \* the order the wallet is asked to sign
    posted,         \* [signed, req]
    typed, touches

feedVars == <<ticketMark, snap, free>>
orderVars == <<prompt, posted>>
ticketVars == <<form, lastType, ticketMark, snap, free, prompt, posted, typed, touches>>

Touch == touches < MaxTouches /\ touches' = touches + 1

\* Mutant: refilled whenever the field is empty.
PrefilledWhenEmpty(f, mark) ==
    IF f.type = "limit" /\ (lastType # "limit" \/ f.price = 0) /\ mark # NoMark
    THEN [f EXCEPT !.price = mark] ELSE f

\* The effect: once per switch to limit, if there is a mark by then.
Prefilled(f, mark) ==
    IF f.type = "limit" /\ lastType # "limit" /\ mark # NoMark THEN [f EXCEPT !.price = mark] ELSE f

\* Side and type buttons, leverage slider and presets, the toggles and the
\* time in force; post-only is greyed out for market orders, and keeps the
\* value it had.
Controls ==
    {[form EXCEPT !.side = s] : s \in {"buy", "sell"}}
      \cup {[form EXCEPT !.leverage = l] : l \in {1, MAX_LEVERAGE}}
      \cup {[form EXCEPT !.reduceOnly = ~@]}
      \cup (IF form.type = "limit"
            THEN {[form EXCEPT !.postOnly = ~@]} \cup {[form EXCEPT !.tif = t] : t \in {"gtc", "ioc", "fok"}}
            ELSE {})

SetControl(f) ==
    /\ Touch
    /\ f \in Controls /\ f # form
    /\ form' = f
    /\ UNCHANGED <<lastType, feedVars, orderVars, typed>>

SetType(t) ==
    /\ Touch
    /\ t # form.type
    /\ form' = Prefilled([form EXCEPT !.type = t], ticketMark)
    /\ lastType' = t
    /\ typed' = Untyped
    /\ UNCHANGED <<feedVars, orderVars>>

TypePrice(p) ==
    /\ Touch
    /\ form.type = "limit" /\ p # form.price
    /\ form' = [form EXCEPT !.price = p]
    /\ typed' = p
    /\ UNCHANGED <<lastType, feedVars, orderVars>>

TypeQty(q) ==
    /\ Touch
    /\ q # form.qty
    /\ form' = [form EXCEPT !.qty = q]
    /\ UNCHANGED <<lastType, feedVars, orderVars, typed>>

\* An oracle tick, or the market loads: the effect runs again.
MarkMoves(px) ==
    /\ Touch
    /\ px # ticketMark
    /\ ticketMark' = px
    /\ form' = Prefilled(form, px)
    /\ lastType' = form.type
    /\ UNCHANGED <<snap, free, orderVars, typed>>

DataLoads(b, amount) ==
    /\ Touch
    /\ <<b, amount>> # <<snap, free>>
    /\ snap' = b /\ free' = amount
    /\ UNCHANGED <<form, lastType, ticketMark, orderVars, typed>>

-----------------------------------------------------------------------------
\* fillPreview for the form as it stands; quantities are in lots.
Shown == PreviewFill(form.side, form.type, form.qty, form.price, snap[form.side], ticketMark)

\* A number to the nearest lot, as toFixed does it.
ToFixed(num, den) == (2 * num + den) \div (2 * den)

\* 25%, 50%, 75% and MAX of what free collateral buys at the price previewed
\* for the size that is in the field now.
QuickSize(pct) ==
    /\ Touch
    /\ free \notin {0, NoFree} /\ Shown.effPrice.num # 0 /\ form.leverage > 0
    /\ form' = [form EXCEPT !.qty =
                    ToFixed(free * form.leverage * pct * LotScale * Shown.effPrice.den,
                            100 * Shown.effPrice.num)]
    /\ UNCHANGED <<lastType, feedVars, orderVars, typed>>

\* canSubmit but for the wallet and the request under way.
SubmitEnabled ==
    /\ ticketMark # NoMark
    /\ form.qty > 0
    /\ form.type = "market" \/ Shown.effPrice.num > 0
    /\ free = NoFree \/ ~Insufficient(Shown, form.qty, form.leverage, free, LotScale)

\* The order onSubmit makes of the form; a market order carries the mark.
OrderOf(f) == [f EXCEPT !.price = IF f.type = "market" THEN ticketMark ELSE @]

\* onSubmit up to signTypedDataAsync.
PressSubmit ==
    /\ Touch
    /\ SubmitEnabled /\ prompt = NoTicket
    /\ prompt' = OrderOf(form)
    /\ UNCHANGED <<form, lastType, feedVars, posted, typed>>

\* Mutant: the request is put together from the form as it is after the prompt.
SignedLate ==
    /\ prompt # NoTicket
    /\ posted' = [signed |-> prompt, req |-> OrderOf(form)]
    /\ prompt' = NoTicket
    /\ UNCHANGED <<form, lastType, feedVars, typed, touches>>

\* The wallet signs; the request has the values the handler began with.
SignedNow ==
    /\ prompt # NoTicket
    /\ posted' = [signed |-> prompt, req |-> prompt]
    /\ prompt' = NoTicket
    /\ UNCHANGED <<form, lastType, feedVars, typed, touches>>

TicketInit ==
    /\ form = [side |-> "buy", type |-> "market", price |-> 0, qty |-> 0, leverage |-> 2, tif |-> "gtc",
               reduceOnly |-> FALSE, postOnly |-> FALSE]
    /\ lastType = "market"
    /\ ticketMark = NoMark /\ snap \in Snapshots /\ free = NoFree
    /\ prompt = NoTicket /\ posted = NoTicket
    /\ typed = Untyped /\ touches = 0

TicketNext ==
    \/ \E f \in Controls : SetControl(f)
    \/ \E t \in {"market", "limit"} : SetType(t)
    \/ \E p \in TicketPrices \cup {0, NaN} : TypePrice(p)
    \/ \E q \in TicketSizes \cup {0} : TypeQty(q)
    \/ \E px \in TicketPrices : MarkMoves(px)
    \/ \E b \in Snapshots, amount \in FreeAmounts : DataLoads(b, amount)
    \/ \E pct \in {25, 100} : QuickSize(pct)
    \/ PressSubmit \/ SignedNow

TicketSpec == TicketInit /\ [][TicketNext]_ticketVars

-----------------------------------------------------------------------------
(* Properties *)

\* What the user typed into the price field stays, emptied or not, through
\* ticks, loads and every other control until they leave the limit form ("the
\* field snapped back to the mark mid-edit" is the bug the effect replaced), and
\* the order that is posted is the one that was signed, whatever the form has
\* become while the prompt was open (onSubmit).
TicketFaithful ==
    /\ form.type = "limit" /\ typed # Untyped => form.price = typed
    /\ posted # NoTicket => posted.req = posted.signed
=============================================================================
