\* Three sockets for one page, a public and a private channel, mailboxes of
\* one message, two prices three basis points apart, two inputs.
CONSTANTS
    Conns = {c1, c2, c3}
    Channels = {"oracle", "fills"}
    Public = {"oracle"}
    Private = {"fills"}
    Feed = "oracle"
    Addresses = {ann}
    NoUser = NoUser
    SubIds <- MCSubIds
    MAX_QUEUE = 1
    Prices <- MCPrices
    NoPrice = NoPrice
    drift_bps = 2
    MaxInputs = 2
SPECIFICATION MCSpec
INVARIANTS FeedExact
PROPERTIES FeedRecovers
