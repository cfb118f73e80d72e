\* Two threads, the writer and one crash anywhere; no fees.
CONSTANTS
    Users <- MCUsers
    Threads = {t1, t2}
    Places <- Crossing
    Marks = {1}
    InitVault <- MCVault
    DEV_SEED = 100000
    takerFeeBps = 0
    makerRebateBps = 0
    imRatioBps = 500
    mmRatioBps = 250
    maxLeverage = 20
    Persist = TRUE
    Liquidations = FALSE
    MaxRequests = 3
    FaultKinds = {"crash"}
    MaxFaults = 1
SYMMETRY ThreadSymmetry
SPECIFICATION PersistSpec
INVARIANTS TradesAccount RecoveryNeverOverfills
CHECK_DEADLOCK FALSE
