----------------------------- MODULE LiveScreen -----------------------------
(***************************************************************************)
(* Live prices on the app's pages: every component that has useLiveOracle  *)
(* or its like (web/lib/ws/channels.ts) subscribes for itself, all over    *)
(* one client that keeps one set of channels (web/lib/ws/client.ts).  The  *)
(* trade page's header, market switcher, chart and mobile tabs and the     *)
(* markets page's cards and rows come and go; the chart turns ticks into   *)
(* candles.  The socket stays open here: what happens when it breaks is    *)
(* in WsFeed.                                                              *)
(*                                                                         *)
(* A market's prices belong to it alone.  `ticks` is not in the code: what *)
(* the chart was given since it was last seeded, with the time.            *)
(***************************************************************************)
EXTENDS Integers, SequencesExt, FiniteSetsExt

CONSTANTS
    ScreenMarkets,      \* VALID of the trade page
    TickPrices(_),      \* what a market's price may be
    Ranking(_),         \* the markets in the order of a sort key
    FEATURED,           \* cards on the markets page
    TF_SECONDS,         \* length of a candle
    SEEDS,              \* made-up candles a chart starts with
    MaxTicks,           \* bound on prices published
    MaxSeconds,         \* bound on the time
    MaxScreens          \* bound on what the user does

NoTick == 0

ASSUME ScreenAssumption ==
    /\ \A m \in ScreenMarkets : TickPrices(m) \subseteq Nat \ {0}
    /\ \A k \in {"volume", "change", "name"} : Ranking(k) \in SetToSeqs(ScreenMarkets)
    /\ FEATURED \in Nat /\ {TF_SECONDS, SEEDS} \subseteq Nat \ {0} /\ {MaxTicks, MaxSeconds, MaxScreens} \subseteq Nat

VARIABLES
    page,               \* "trade", "markets" or another, without live prices
    query, sortBy,      \* of the markets page: what the search leaves, and the key
    market,             \* the trade page's marketId
    selected,           \* selectedMarket of the ui store
    rows,               \* whether the switcher is open
    mobileTab,          \* of the mobile layout
    oracle,             \* hook -> what it has, for the hooks mounted
    subs,               \* the client's set of channels
    frames,             \* oracle frames on their way to the browser
    price,              \* market -> its price at the edge
    ticked,             \* prices published
    seconds,
    candles,            \* of the chart, seeded ones included
    ticks,
    screens

listVars == <<query, sortBy>>
screenVars == <<page, query, sortBy, market, selected, rows, mobileTab, oracle, subs, frames, price, ticked, seconds, candles, ticks, screens>>

-----------------------------------------------------------------------------
(***************************************************************************)
(* The hooks.  A hook is a component and the market it is for.             *)
(***************************************************************************)

\* TradeLayout mounts both layouts; the mobile one shows one tab.
PageHooks(m, t) ==
    {<<"header", m>>, <<"chart", m>>, <<"form", m>>}
      \cup (IF t = "chart" THEN {<<"tabChart", m>>} ELSE IF t = "form" THEN {<<"tabForm", m>>} ELSE {})

\* MarketsPage: the markets the search leaves, sorted; the first have a card,
\* all of them a row.
Listed(q, k) == SelectSeq(Ranking(k), LAMBDA m : m \in q)
ListHooks(q, k) ==
    LET list == Listed(q, k)
    IN  {<<"card", list[i]>> : i \in 1 .. Min({FEATURED, Len(list)})} \cup {<<"listed", m>> : m \in Range(list)}

\* The rows of the switcher.
RowHooks(open) == IF open THEN {<<"row", m>> : m \in ScreenMarkets} ELSE {}

Channels(hooks) == {h[2] : h \in hooks}

\* Hooks that go clean up, hooks that come start with nothing: every one of
\* them unsubscribes or subscribes its channel, the ones that go first.  The
\* client does not count them.
Rendered(hooks) ==
    LET kept == DOMAIN oracle \cap hooks
    IN  /\ oracle' = [h \in hooks |-> IF h \in kept THEN oracle[h] ELSE NoTick]
        /\ subs' = (subs \ Channels(DOMAIN oracle \ hooks)) \cup Channels(hooks \ kept)

\* A page is mounted anew, for another market too.
Mounted(hooks) ==
    /\ oracle' = [h \in hooks |-> NoTick]
    /\ subs' = Channels(hooks)

UserActs == screens < MaxScreens /\ screens' = screens + 1

\* The switcher's button, or a click beside the list.
ToggleSwitcher ==
    /\ UserActs /\ page = "trade"
    /\ rows' = ~rows
    /\ Rendered(PageHooks(market, mobileTab) \cup RowHooks(rows'))
    /\ UNCHANGED <<page, listVars, market, selected, mobileTab, frames, price, ticked, seconds, candles, ticks>>

SetMobileTab(t) ==
    /\ UserActs /\ page = "trade" /\ t # mobileTab
    /\ mobileTab' = t
    /\ Rendered(PageHooks(market, t) \cup RowHooks(rows))
    /\ UNCHANGED <<page, listVars, market, selected, rows, frames, price, ticked, seconds, candles, ticks>>

\* Mutant: the seeded candles reach up to now.
SeedTimesNow == [i \in 1 .. SEEDS |-> seconds - (SEEDS - i) * TF_SECONDS]

\* seedCandles: one every TF_SECONDS, the last one that long ago.
SeedTimes == [i \in 1 .. SEEDS |-> seconds - SEEDS * TF_SECONDS + (i - 1) * TF_SECONDS]

\* Their prices are random around the anchor; nothing is said of them.
Seeded == [i \in 1 .. SEEDS |-> [time |-> SeedTimes[i], high |-> NoTick, low |-> NoTick, close |-> NoTick]]

\* A row is clicked: setMarket, setOpen(false), router.push; TradeLayout's
\* effect selects the market once more.  The same market keeps its page.
SelectMarket(m) ==
    /\ rows /\ UserActs
    /\ selected' = m /\ rows' = FALSE
    /\ IF m = market
       THEN Rendered(PageHooks(market, mobileTab)) /\ UNCHANGED <<market, mobileTab, candles, ticks>>
       ELSE /\ market' = m /\ mobileTab' = "chart"
            /\ Mounted(PageHooks(m, "chart"))
            /\ candles' = Seeded /\ ticks' = <<>>
    /\ UNCHANGED <<page, listVars, frames, price, ticked, seconds>>

\* The anchor comes from the market's index price: when a refetch brings
\* another one the chart's effect makes a new chart.
AnchorChanges ==
    /\ UserActs /\ page = "trade"
    /\ candles' = Seeded /\ ticks' = <<>>
    /\ UNCHANGED <<page, listVars, market, selected, rows, mobileTab, oracle, subs, frames, price, ticked, seconds>>

\* The links to a trade page: those of the navigation bars are for the market
\* of the ui store, a card and a row of the markets page for their own.
NavLinks == {selected}
PageLinks == {h[2] : h \in {g \in DOMAIN oracle : g[1] \in {"card", "listed"}}}

\* The trade page is opened.  TradeLayout's effect selects its market.
OpenTrade(m) ==
    /\ UserActs /\ page # "trade"
    /\ m \in NavLinks \cup PageLinks
    /\ page' = "trade" /\ market' = m /\ selected' = m
    /\ mobileTab' = "chart"
    /\ Mounted(PageHooks(m, "chart"))
    /\ candles' = Seeded /\ ticks' = <<>>
    /\ UNCHANGED <<listVars, rows, frames, price, ticked, seconds>>

\* Another page is: nothing of the one before is kept.
OpenPage(p) ==
    /\ UserActs /\ p # page
    /\ page' = p
    /\ query' = ScreenMarkets /\ sortBy' = "volume"
    /\ Mounted(IF p = "markets" THEN ListHooks(query', sortBy') ELSE {})
    /\ rows' = FALSE /\ candles' = <<>> /\ ticks' = <<>>
    /\ UNCHANGED <<market, selected, mobileTab, frames, price, ticked, seconds>>

\* The markets page is searched or sorted.
SetList(q, k) ==
    /\ UserActs /\ page = "markets" /\ <<q, k>> # <<query, sortBy>>
    /\ query' = q /\ sortBy' = k
    /\ Rendered(ListHooks(q, k))
    /\ UNCHANGED <<page, market, selected, rows, mobileTab, frames, price, ticked, seconds, candles, ticks>>

-----------------------------------------------------------------------------
\* The edge publishes a price to who subscribed.
Publish(m, p) ==
    /\ ticked < MaxTicks /\ p # price[m]
    /\ ticked' = ticked + 1
    /\ price' = [price EXCEPT ![m] = p]
    /\ frames' = IF m \in subs THEN Append(frames, [market |-> m, price |-> p]) ELSE frames
    /\ UNCHANGED <<page, listVars, market, selected, rows, mobileTab, oracle, subs, seconds, candles, ticks, screens>>

\* A listener's test of a frame.
Heard(h, f) == f.market = h[2]

\* The chart's tick effect: the minute's candle is opened or extended.
BucketStart == (seconds \div TF_SECONDS) * TF_SECONDS

Extended(c, px) == [c EXCEPT !.high = Max({@, px}), !.low = Min({@, px}), !.close = px]

Charted(px) ==
    IF Last(candles).time # BucketStart
    THEN Append(candles, [time |-> BucketStart, high |-> px, low |-> px, close |-> px])
    ELSE [candles EXCEPT ![Len(candles)] = Extended(@, px)]

\* A frame arrives: every listener is called, then the chart's effect runs.
FrameArrives ==
    /\ frames # <<>>
    /\ frames' = Tail(frames)
    /\ LET f == Head(frames)
           chart == <<"chart", market>>
       IN  /\ oracle' = [h \in DOMAIN oracle |-> IF Heard(h, f) THEN f.price ELSE oracle[h]]
           /\ candles' = IF page = "trade" /\ Heard(chart, f) THEN Charted(f.price) ELSE candles
           /\ ticks' = IF page = "trade" /\ Heard(chart, f) THEN Append(ticks, [price |-> f.price, at |-> seconds]) ELSE ticks
    /\ UNCHANGED <<page, listVars, market, selected, rows, mobileTab, subs, price, ticked, seconds, screens>>

ClockAdvances ==
    /\ seconds < MaxSeconds
    /\ seconds' = seconds + 1
    /\ UNCHANGED <<page, listVars, market, selected, rows, mobileTab, oracle, subs, frames, price, ticked, candles, ticks, screens>>

\* What MarketHeader shows and whether its pill says live: the hook's price, or
\* the index price of the markets endpoint.
HeaderLive == page = "trade" /\ oracle[<<"header", market>>] # NoTick
HeaderPrice == IF HeaderLive THEN oracle[<<"header", market>>] ELSE Min(TickPrices(market))

ScreenInit ==
    /\ page = "trade" /\ query = ScreenMarkets /\ sortBy = "volume"
    /\ market \in ScreenMarkets /\ selected = market
    /\ rows = FALSE /\ mobileTab = "chart"
    /\ oracle = [h \in PageHooks(market, "chart") |-> NoTick]
    /\ subs = Channels(DOMAIN oracle)
    /\ frames = <<>>
    /\ price = [m \in ScreenMarkets |-> Min(TickPrices(m))] /\ ticked = 0
    /\ seconds \in SEEDS * TF_SECONDS .. (SEEDS + 1) * TF_SECONDS - 1
    /\ candles = Seeded /\ ticks = <<>>
    /\ screens = 0

ScreenNext ==
    \/ ToggleSwitcher \/ AnchorChanges \/ FrameArrives \/ ClockAdvances
    \/ \E t \in {"chart", "book", "form", "position"} : SetMobileTab(t)
    \/ \E p \in {"markets", "portfolio"} : OpenPage(p)
    \/ \E q \in SUBSET ScreenMarkets, k \in {"volume", "change", "name"} : SetList(q, k)
    \/ \E m \in ScreenMarkets : SelectMarket(m) \/ OpenTrade(m) \/ \E p \in TickPrices(m) : Publish(m, p)

\* Frames sent are delivered.
ScreenFairness == WF_screenVars(FrameArrives)

ScreenSpec == ScreenInit /\ [][ScreenNext]_screenVars /\ ScreenFairness

-----------------------------------------------------------------------------
(***************************************************************************)
(* Properties.                                                             *)
(***************************************************************************)

\* The series a chart is given is in order of time, wherever in a minute it
\* was seeded (the library refuses an update older than its last candle), and
\* its candles say what was traded: the live ones have the last, the highest
\* and the lowest of their minute's ticks, across new minutes and new seeds.
\* No component has a price of a market that is not its own, although frames of
\* a market the user has left are still on their way when the hooks of the next
\* one listen (seedCandles and the tick effect of PriceChart, useLiveOracle).
ChartExact ==
    /\ \A h \in DOMAIN oracle : oracle[h] \in TickPrices(h[2]) \cup {NoTick}
    /\ \A i \in 2 .. Len(candles) : candles[i - 1].time < candles[i].time
    /\ \A i \in SEEDS + 1 .. Len(candles) :
        LET mine == SelectSeq(ticks, LAMBDA t : t.at \div TF_SECONDS = candles[i].time \div TF_SECONDS)
            prices == {mine[j].price : j \in DOMAIN mine}
        IN  /\ mine # <<>>
            /\ candles[i].close = Last(mine).price
            /\ candles[i].high = Max(prices) /\ candles[i].low = Min(prices)

\* "Source pill shows whether the visible price is a live Pyth tick": while the
\* header says live it comes to show the price the edge has.
LiveMeansLive ==
    \A m \in ScreenMarkets : \A p \in TickPrices(m) :
        (market = m /\ price[m] = p /\ HeaderLive) ~> (HeaderPrice = p \/ ~HeaderLive \/ market # m \/ price[m] # p)
=============================================================================
