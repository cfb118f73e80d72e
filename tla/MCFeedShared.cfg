\* Two markets, two ticks, two clicks: the switcher opened and closed.
CONSTANTS
    Parts = {"screen"}
    ann = ann
    Keys = {k1}
    Owners = {ann, bob}
    NoOwner = NoOwner
    Orders = {o1, o2}
    Amounts = {1, 2}
    Caps = {2}
    MaxKeyTime = 2
    MaxGen = 2
    Tabs = {t1, t2}
    Addresses = {ann}
    Accounts = {ann, bob}
    Spellings = {"lower", "checksum"}
    MaxNonces = 3
    Requests = {r1, r2}
    Wallets = {ann}
    Ips = {ip1}
    Jwts <- MCJwts
    LEEWAY = 1
    SECOND = 2
    PUBLIC <- MCPublic
    AUTHED <- MCAuthed
    EXPIRE = 3
    MaxClock = 4
    MaxRequests = 4
    Instances = {i1, i2}
    Nobody = Nobody
    Gone = Gone
    Premiums <- MCInBounds
    MAX_PREMIUM_ABS = 2
    FUNDING_INTERVAL = 2
    lease_ttl = 1
    renew_every = 1
    MaxDelay = 1
    MaxFaults = 1
    MaxFaultyTime = 1
    MaxTime = 6
    TapePrices = {10, 11}
    MINUTES = 4
    PAGE = 2
    BPS_UNIT = 20
    baseSpreadBps = 1
    invPenaltyBpsAtMax = 1
    invMax = 4
    invSkewBpsAtMax = 1
    VolPenalties = {1}
    windowMs = 2
    quoteSize = 2
    killThreshold = 1
    MaxMinute = 4
    ScreenMarkets = {"btc", "eth"}
    TickPrices <- MCTickPrices
    Ranking <- MCRanking
    FEATURED = 1
    TF_SECONDS = 2
    SEEDS = 1
    MaxTicks = 3
    MaxSeconds = 4
    MaxScreens = 2
    TicketPrices = {2, 3}
    TicketSizes = {2}
    Snapshots <- MCSnapshots
    FreeAmounts = {1}
    MAX_LEVERAGE = 3
    LotScale = 2
    MaxTouches = 5
    FillMarkets = {"btc", "eth"}
    PanelMarket = "btc"
    AccountOrders <- MCOrders
    FillSizes = {1}
    FillPrices = {1, 2}
    FILLS_LIMIT = 2
    MaxFills = 3
SPECIFICATION MCFairSpec
PROPERTIES LiveMeansLive
CHECK_DEADLOCK FALSE
