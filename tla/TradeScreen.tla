---------------------------- MODULE TradeScreen ----------------------------
(***************************************************************************)
(* One wallet's trading screen: the order form (OrderForm.tsx), the        *)
(* positions panel with its Close and Cancel buttons (PositionPanel.tsx,   *)
(* use-close-position.ts), the list of optimistic orders (ui-store.ts) and *)
(* the query cache (queries.ts over rest.ts), against the edge.            *)
(*                                                                         *)
(* Every click starts a call: an asynchronous handler that goes through    *)
(* the wallet's prompt, the POST or DELETE, and the answer, and whose      *)
(* steps interleave with the other calls and with the cache's fetches.     *)
(* The edge decides what of an order fills (EdgeState models how).  Prices *)
(* are left out, toasts are in Notices, and the wallet stays connected.    *)
(*                                                                         *)
(* `unseen` is not in the code: the edge's orders changed and the screen   *)
(* was not told.                                                           *)
(***************************************************************************)
EXTENDS Integers, Sequences

CONSTANTS
    TradeMarkets, NoMarket,
    Tickets,        \* [market, side, type] the form is set to
    Sizes,          \* what the user types into the size field
    RETRY,          \* the query client's retries
    MaxCalls,       \* bound on clicks
    MaxForeign,     \* bound on fills of resting orders by other wallets
    MaxLost         \* bound on answers the network loses

ASSUME TradeAssumption ==
    /\ Tickets \subseteq [market : TradeMarkets, side : {"buy", "sell"}, type : {"market", "limit"}]
    /\ Sizes \subseteq Nat \ {0}
    /\ NoMarket \notin TradeMarkets
    /\ {RETRY, MaxCalls, MaxForeign, MaxLost} \subseteq Nat

VARIABLES
    qtyInput,       \* the size field, 0 when empty
    calls,          \* the calls so far: what each is for and how far it is
    optimistic,     \* optimisticOrders: the calls they belong to
    isPending,      \* the call place.isPending speaks of, 0 if none
    closingId,      \* the market whose Close button is disabled
    cache,          \* query -> data
    fetch,          \* query -> the fetch under way
    edge,           \* query -> what the edge would answer
    foreign, lost, unseen

tradeVars == <<qtyInput, calls, optimistic, isPending, closingId, cache, fetch, edge,
               foreign, lost, unseen>>

\* useFills polls and is invalidated as usePositions is: one stands for both.
Queries == {"openOrders", "positions"}

Idle == [at |-> "idle"]
Asked(tries) == [at |-> "asked", tries |-> tries]
Answered(v, tries) == [at |-> "answered", value |-> v, tries |-> tries]

Call(kind, m, side, type, qty, at) ==
    [kind |-> kind, market |-> m, side |-> side, type |-> type, qty |-> qty, at |-> at]

Signed(side, q) == IF side = "buy" THEN q ELSE -q
Magnitude(n) == IF n < 0 THEN -n ELSE n

Begin(call) == calls' = Append(calls, call)
Goes(i, at) == calls' = [calls EXCEPT ![i].at = at]

-----------------------------------------------------------------------------
(***************************************************************************)
(* The query cache.                                                        *)
(***************************************************************************)

\* Mutant: a fetch under way is left to finish.
RefetchedJoining(qs) ==
    fetch' = [q \in Queries |-> IF q \in qs /\ fetch[q] = Idle THEN Asked(0) ELSE fetch[q]]

\* invalidateQueries: a fetch under way is dropped for a new one.
Refetched(qs) == fetch' = [q \in Queries |-> IF q \in qs THEN Asked(0) ELSE fetch[q]]

\* Mutant: positions are fetched only after a request.
PolledNone == {}

\* The queries with a refetchInterval.
Polled == {"positions"}

\* The interval fires; with a fetch under way it joins it.
Poll(q) ==
    /\ q \in Polled /\ fetch[q] = Idle
    /\ Refetched({q})
    /\ UNCHANGED <<qtyInput, calls, optimistic, isPending, closingId, cache, edge, foreign, lost, unseen>>

EdgeAnswers(q) ==
    /\ fetch[q].at = "asked"
    /\ fetch' = [fetch EXCEPT ![q] = Answered(edge[q], @.tries)]
    /\ UNCHANGED <<qtyInput, calls, optimistic, isPending, closingId, cache, edge, foreign, lost, unseen>>

DataArrives(q) ==
    /\ fetch[q].at = "answered"
    /\ cache' = [cache EXCEPT ![q] = fetch[q].value]
    /\ fetch' = [fetch EXCEPT ![q] = Idle]
    /\ UNCHANGED <<qtyInput, calls, optimistic, isPending, closingId, edge, foreign, lost, unseen>>

\* request() throws: the fetch is tried again, RETRY times at most; the old
\* data stays.
FetchFails(q) ==
    /\ fetch[q] # Idle /\ lost < MaxLost
    /\ lost' = lost + 1
    /\ fetch' = [fetch EXCEPT ![q] = IF @.tries < RETRY THEN Asked(@.tries + 1) ELSE Idle]
    /\ unseen' = (unseen \/ (q = "openOrders" /\ fetch'[q] = Idle))
    /\ UNCHANGED <<qtyInput, calls, optimistic, isPending, closingId, cache, edge, foreign>>

-----------------------------------------------------------------------------
(***************************************************************************)
(* The order form.                                                         *)
(***************************************************************************)
TypeSize(q) ==
    /\ qtyInput # q
    /\ qtyInput' = q
    /\ UNCHANGED <<calls, optimistic, isPending, closingId, cache, fetch, edge, foreign, lost, unseen>>

\* canSubmit, for a connected wallet with the margin.
CanSubmit == qtyInput > 0 /\ isPending = 0

AddOptimisticOrder(i) == optimistic' = optimistic \cup {i}
RemoveOptimisticOrder(i) == optimistic' = optimistic \ {i}

\* onSubmit up to the wallet's prompt.  While the prompt is open
\* place.isPending is still false: the button can be pressed again.
Submit(t) ==
    /\ Len(calls) < MaxCalls
    /\ CanSubmit
    /\ Begin(Call("order", t.market, t.side, t.type, qtyInput, "signing"))
    /\ AddOptimisticOrder(Len(calls) + 1)
    /\ UNCHANGED <<qtyInput, isPending, closingId, cache, fetch, edge, foreign, lost, unseen>>

\* Mutant: the row stays when the signature is refused.
SignRefusedKept(i) ==
    /\ calls[i].at = "signing"
    /\ Goes(i, "settled")
    /\ closingId' = IF calls[i].kind = "close" THEN NoMarket ELSE closingId
    /\ UNCHANGED <<qtyInput, optimistic, isPending, cache, fetch, edge, foreign, lost, unseen>>

\* signTypedDataAsync throws: the handlers' first catch.
SignRefused(i) ==
    /\ calls[i].at = "signing"
    /\ Goes(i, "settled")
    /\ RemoveOptimisticOrder(i)
    /\ closingId' = IF calls[i].kind = "close" THEN NoMarket ELSE closingId
    /\ UNCHANGED <<qtyInput, isPending, cache, fetch, edge, foreign, lost, unseen>>

\* The wallet signs and place.mutateAsync posts.  The form's mutation and
\* the panel's are two, each pending for its latest call.
SignedAndPosted(i) ==
    /\ calls[i].at = "signing"
    /\ Goes(i, "posted")
    /\ isPending' = IF calls[i].kind = "order" THEN i ELSE isPending
    /\ UNCHANGED <<qtyInput, optimistic, closingId, cache, fetch, edge, foreign, lost, unseen>>

-----------------------------------------------------------------------------
(***************************************************************************)
(* The positions panel.                                                    *)
(***************************************************************************)

\* useClosePosition's order: what the row shows, the other way, at the market.
CloseOrder(m, size) ==
    Call("close", m, IF size > 0 THEN "sell" ELSE "buy", "market", Magnitude(size), "signing")

\* Close, on a row whose button is not disabled.
ClosePosition(m) ==
    /\ Len(calls) < MaxCalls
    /\ cache["positions"][m] # 0 /\ closingId # m
    /\ closingId' = m
    /\ Begin(CloseOrder(m, cache["positions"][m]))
    /\ UNCHANGED <<qtyInput, optimistic, isPending, cache, fetch, edge, foreign, lost, unseen>>

\* Cancel, on a row that is not optimistic.
CancelOrder(o) ==
    /\ Len(calls) < MaxCalls
    /\ o \in cache["openOrders"]
    /\ Begin(Call("cancel", o.market, o.side, o.type, o.id, "posted"))
    /\ UNCHANGED <<qtyInput, optimistic, isPending, closingId, cache, fetch, edge, foreign, lost, unseen>>

-----------------------------------------------------------------------------
(***************************************************************************)
(* The edge.                                                               *)
(***************************************************************************)
Executed(e, m, side, q) ==
    [e EXCEPT !["positions"][m] = @ + Signed(side, q)]

\* place_order: q of the order fills, what is left of a limit order rests.
\* reduceOnly lets it past the risk gate and does nothing else.
PlaceOrder(i, q) ==
    LET c == calls[i]  filled == Executed(edge, c.market, c.side, q) IN
    /\ c.at = "posted" /\ c.kind \in {"order", "close"} /\ q \in 0..c.qty
    /\ edge' = IF c.type = "limit" /\ q < c.qty
               THEN [filled EXCEPT !["openOrders"] =
                        @ \cup {[id |-> i, market |-> c.market, side |-> c.side, type |-> c.type,
                                 remaining |-> c.qty - q]}]
               ELSE filled
    /\ Goes(i, IF q = c.qty THEN "filled" ELSE "accepted")
    /\ UNCHANGED <<qtyInput, optimistic, isPending, closingId, cache, fetch, foreign, lost, unseen>>

\* cancel_order of an order that still rests.
EdgeCancels(i) ==
    LET o == {x \in edge["openOrders"] : x.id = calls[i].qty} IN
    /\ calls[i].at = "posted" /\ calls[i].kind = "cancel" /\ o # {}
    /\ edge' = [edge EXCEPT !["openOrders"] = @ \ o]
    /\ Goes(i, "accepted")
    /\ UNCHANGED <<qtyInput, optimistic, isPending, closingId, cache, fetch, foreign, lost, unseen>>

\* Any request may be refused: a failed check, no liquidity, an order that
\* is gone.
EdgeRefuses(i) ==
    /\ calls[i].at = "posted"
    /\ Goes(i, "refused")
    /\ UNCHANGED <<qtyInput, optimistic, isPending, closingId, cache, fetch, edge, foreign, lost, unseen>>

\* Another wallet trades with a resting order; nothing on the screen listens
\* to the account channel.
ForeignFill(o) ==
    /\ foreign < MaxForeign
    /\ foreign' = foreign + 1
    /\ edge' = [Executed(edge, o.market, o.side, o.remaining) EXCEPT !["openOrders"] = @ \ {o}]
    /\ unseen' = TRUE
    /\ UNCHANGED <<qtyInput, calls, optimistic, isPending, closingId, cache, fetch, lost>>

-----------------------------------------------------------------------------
(***************************************************************************)
(* The answers.                                                            *)
(***************************************************************************)
Settles(i) ==
    /\ Goes(i, "settled")
    /\ RemoveOptimisticOrder(i)
    /\ isPending' = IF isPending = i THEN 0 ELSE isPending
    /\ closingId' = IF calls[i].kind = "close" THEN NoMarket ELSE closingId

\* Mutant: the orders are left out of what a placed order invalidates.
InvalidatedSome(kind) == IF kind = "cancel" THEN {"openOrders"} ELSE {"positions"}

\* onSuccess of usePlaceOrder and useCancelOrder.
Invalidated(kind) == IF kind = "cancel" THEN {"openOrders"} ELSE Queries

\* A market order, or one that filled, empties the size field, whatever has
\* been typed meanwhile.
ClearedSize(c) ==
    IF c.kind = "order" /\ (c.type = "market" \/ c.at = "filled") THEN 0 ELSE qtyInput

AckArrives(i) ==
    /\ calls[i].at \in {"filled", "accepted"}
    /\ Settles(i)
    /\ Refetched(Invalidated(calls[i].kind))
    /\ qtyInput' = ClearedSize(calls[i])
    /\ UNCHANGED <<cache, edge, foreign, lost, unseen>>

\* The handlers' second catch: a toast, and nothing is fetched anew.
ErrorArrives(i) ==
    /\ calls[i].at = "refused"
    /\ Settles(i)
    /\ UNCHANGED <<qtyInput, cache, fetch, edge, foreign, lost, unseen>>

\* The edge did it and the answer is lost on its way.
AnswerLost(i) ==
    /\ calls[i].at \in {"filled", "accepted"} /\ lost < MaxLost
    /\ lost' = lost + 1
    /\ Goes(i, "refused")
    /\ unseen' = TRUE
    /\ UNCHANGED <<qtyInput, optimistic, isPending, closingId, cache, fetch, edge, foreign>>

-----------------------------------------------------------------------------
Nothing == [q \in Queries |-> CASE q = "positions" -> [m \in TradeMarkets |-> 0]
                                [] q = "openOrders" -> {}]

TradeInit ==
    /\ qtyInput = 0 /\ calls = <<>> /\ optimistic = {} /\ isPending = 0 /\ closingId = NoMarket
    /\ cache = Nothing /\ edge = Nothing
    /\ fetch = [q \in Queries |-> Idle]
    /\ foreign = 0 /\ lost = 0 /\ unseen = FALSE

CallNext(i) ==
    \/ SignRefused(i) \/ SignedAndPosted(i)
    \/ EdgeCancels(i) \/ EdgeRefuses(i)
    \/ \E q \in 0..calls[i].qty : PlaceOrder(i, q)
    \/ AckArrives(i) \/ ErrorArrives(i) \/ AnswerLost(i)

TradeNext ==
    \/ \E q \in Sizes : TypeSize(q)
    \/ \E t \in Tickets : Submit(t)
    \/ \E m \in TradeMarkets : ClosePosition(m)
    \/ \E o \in cache["openOrders"] : CancelOrder(o)
    \/ \E o \in edge["openOrders"] : ForeignFill(o)
    \/ \E i \in DOMAIN calls : CallNext(i)
    \/ \E q \in Queries : Poll(q) \/ EdgeAnswers(q) \/ DataArrives(q) \/ FetchFails(q)

\* What a query does without the user: its interval fires, or the fetch under
\* way goes on.
FetchStep(q) == Poll(q) \/ EdgeAnswers(q) \/ DataArrives(q)

CallReturns(i) == i \in DOMAIN calls /\ (AckArrives(i) \/ ErrorArrives(i))

\* Intervals fire, the edge answers and what is not lost arrives.  The user
\* and the wallet owe nothing.
TradeFairness ==
    /\ \A q \in Queries : WF_tradeVars(FetchStep(q))
    /\ \A i \in 1..MaxCalls : WF_tradeVars(CallReturns(i))

TradeSpec == TradeInit /\ [][TradeNext]_tradeVars /\ TradeFairness

-----------------------------------------------------------------------------
(* Properties *)

\* The "syncing" rows are exactly the form's orders whose handler has not
\* finished, on every path through it and however the handlers overlap
\* (addOptimisticOrder, removeOptimisticOrder in onSubmit).
OptimisticExact ==
    optimistic = {i \in DOMAIN calls : calls[i].kind = "order" /\ calls[i].at # "settled"}

\* Whatever is lost and whoever trades, the panel ends up with the edge's
\* positions (the "safety net" of usePositions and useFills).  The list of open
\* orders is fetched only when one of the screen's own requests succeeds: it
\* ends up with the edge's as long as nothing else changed them and no answer
\* was lost, however fetches and requests overlap (useOpenOrders, onSuccess of
\* usePlaceOrder and useCancelOrder).
PanelCatchesUp ==
    <>[](/\ cache["positions"] = edge["positions"]
         /\ ~unseen => cache["openOrders"] = edge["openOrders"])

\* "Order can only shrink your existing position, never flip or grow it"
\* (the form's help for Reduce only), and of a close: "the edge can never
\* accidentally flip the user into the other direction"
\* (use-close-position.ts).
CloseOnlyShrinks ==
    [][\A i \in DOMAIN calls :
          LET m == calls[i].market  before == edge["positions"][m]  after == edge'["positions"][m] IN
          calls[i].kind = "close" /\ calls[i].at = "posted" /\ calls'[i].at \in {"filled", "accepted"}
          => after \in 0..before \/ after \in before..0]_tradeVars
=============================================================================
