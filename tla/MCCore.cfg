\* Registry: one user, two markets, fractional sizes and prices: every order of
\* opening and closing, every branch of _applyVwap with truncation.  Book: four
\* orders out of every kind, under each self-trade mode.
CONSTANTS
    X18 = 3
    USDC_TO_X18 = 2
    UINT_MAX = 1000000
    Markets = {m1, m2}
    Unlisted = Unlisted
    ParamChoices <- MCParamChoices
    Users = {alice}
    SizeDeltas <- MCSizeDeltas
    FillPrices = {0, 1, 20}
    FundingIndexes = {0, 2}
    MaxSize = 2
    Orders <- MCOrders
    NetPositions <- MCNet
    SelfTradeModes = {"CancelNewest", "CancelBoth", "Allow"}
    MaxOrders = 4
SYMMETRY MarketSymmetry
SPECIFICATION MCSpec
INVARIANTS MarketListExact CoreAgrees 
PROPERTIES FillIsWorthItsPrice
CHECK_DEADLOCK FALSE
