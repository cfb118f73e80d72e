\* Dispatcher: two callers on a channel of one, cancels and abandoned calls
\* included; appends may fail.  Quoting: two instances, one fault, mids on
\* both sides of the threshold.
CONSTANTS
    Orders <- MCOrders
    NetPositions <- MCNet
    SelfTradeModes = {"CancelNewest"}
    MaxOrders = 3
    Clients = {c1, c2}
    channel_capacity = 1
    AppendsMayFail = TRUE
    Instances = {a1, a2}
    Nobody = Nobody
    Mids <- MCMids
    reprice_threshold_bps = 1
    Ids <- MCIds
    MaxFaults = 1
SPECIFICATION MCSpec
INVARIANTS  QuotesBounded
PROPERTIES NobodyLeftWaiting KilledStaysQuiet 
CHECK_DEADLOCK FALSE
