\* One part of the browser at a time: three books of the server, two
\* calls of the trader with a lost answer and a foreign fill, three notices,
\* and every fault once.
SPECIFICATION MCFairSpec
CONSTANTS
    Parts = {"orders", "book", "notices", "wallet", "mocks", "sdk"}
    btc = btc
    TradeMarkets = {btc}
    NoMarket = NoMarket
    Sizes = {1}
    Tickets <- MCTickets
    RETRY = 1
    MaxCalls = 2
    MaxForeign = 1
    MaxLost = 1
    BidPrices = {1, 2, 3}
    AskPrices = {4}
    LevelSizes = {1}
    OpeningBook <- MCOpeningBook
    SNAPSHOT_DEPTH = 2
    DEPTH = 2
    ROWS = 2
    Groupings = {1, 2}
    MaxSequence = 3
    MaxPolls = 1
    MaxBookFaults = 1
    TOAST = 2
    AUTO_DISMISS = 1
    MaxNotices = 3
    Accounts = {ann, bob}
    NoAccount = NoAccount
    MaxTokens = 2
    MaxMoves = 3
    Pages = {p1, p2}
    Watched = p1
    NoPage = NoPage
    MaxMounts = 2
    MaxKills = 1
    Topics = {"t1"}
    MaxSockets = 5
    MaxBreaks = 1
    MaxSdkCalls = 3
INVARIANTS OptimisticExact BookShownExact
PROPERTIES PanelCatchesUp BookCatchesUp NoticesTimed SessionFollows MocksNeverHang 
CHECK_DEADLOCK FALSE
