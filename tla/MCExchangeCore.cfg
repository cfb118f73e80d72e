\* What moves money: three batches, two prices for the fills and for the mark,
\* and supply for a deposit, a profit and a seizure.  The nonces are symmetric.
CONSTANTS
    alice = alice
    m1 = m1
    m2 = m2
    bob = bob
    op1 = op1
    op2 = op2
    Nonces = {n1, n2, n3}
    InitialCap = 2
    X18 = 1
    USDC_TO_X18 = 1
    UINT_MAX = 1000000
    Markets = {m1}
    Unlisted = Unlisted
    ParamChoices <- MCParamChoices
    Listing <- MCListing
    InitialCaps <- MCInitialCaps
    Users = {alice, CP}
    CP = CP
    VAULT = VAULT
    FUND = FUND
    Keepers = {alice}
    Accounts = {alice, CP, VAULT, FUND}
    SizeDeltas = {1}
    FillPrices = {1}
    FundingIndexes = {0}
    MaxSize = 2
    Amounts <- MCAmounts
    MaxSupply = 6
    MaxBalance = 1
    Caps = {0, 2}
    TIMELOCK = 1
    Prices = {2, 6}
    NoPrice = NoPrice
    Batches <- MCBatches
    Operators = {op1}
    AdlCalls <- MCAdlCalls
    Premiums <- MCPremiums
    MAX_PREMIUM_ABS = 1
    FUNDING_INTERVAL = 1
    MaxTime = 2
SPECIFICATION CoreSpec
SYMMETRY NonceSymmetry
INVARIANTS ClaimsEqualDeposits CustodyCoversDeposits
PROPERTIES  AdlTakesOnlyProfit
CHECK_DEADLOCK FALSE
