SPECIFICATION MCSpec
CONSTANTS
    Parts = {"orders"}
    btc = btc
    TradeMarkets = {btc}
    NoMarket = NoMarket
    Sizes = {1}
    Tickets <- MCTickets
    RETRY = 0
    MaxCalls = 3
    MaxForeign = 0
    MaxLost = 0
    BidPrices = {1, 2, 3}
    AskPrices = {4}
    LevelSizes = {1}
    OpeningBook <- MCOpeningBook
    SNAPSHOT_DEPTH = 2
    DEPTH = 2
    ROWS = 2
    Groupings = {1, 2}
    MaxSequence = 3
    MaxPolls = 1
    MaxBookFaults = 1
    TOAST = 2
    AUTO_DISMISS = 1
    MaxNotices = 3
    Accounts = {ann, bob}
    NoAccount = NoAccount
    MaxTokens = 2
    MaxMoves = 3
    Pages = {p1, p2}
    Watched = p1
    NoPage = NoPage
    MaxMounts = 2
    MaxKills = 1
    Topics = {"t1"}
    MaxSockets = 5
    MaxBreaks = 1
    MaxSdkCalls = 3
PROPERTIES CloseOnlyShrinks
CHECK_DEADLOCK FALSE
