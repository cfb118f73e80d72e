\* One thread, the writer and a crash: every kind of request, forced closes,
\* a moving index price.
CONSTANTS
    Users <- MCUsers
    Threads = {t1}
    Places <- Mixed
    Marks = {1, 2}
    InitVault <- OneUnseeded
    DEV_SEED = 10000
    takerFeeBps = 5
    makerRebateBps <- DefaultRebate
    imRatioBps = 500
    mmRatioBps = 250
    maxLeverage = 20
    Persist = TRUE
    Liquidations = TRUE
    MaxRequests = 4
    FaultKinds = {"crash", "write"}
    MaxFaults = 1
SPECIFICATION PersistSpec
INVARIANTS DbMirrorsMemory  BookKept ScreensHonest
CHECK_DEADLOCK FALSE
