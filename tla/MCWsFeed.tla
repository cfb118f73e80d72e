------------------------------ MODULE MCWsFeed ------------------------------
EXTENDS WsFeed

\* A move up is more than two basis points, a move back down is not.
MCPrices == {10000, 10003}
MCSubIds == 1 .. 5

\* Besides a fresh page: one whose hook subscribed on an open socket, and one
\* whose socket has just gone.
SubscribedPage ==
    LET c == CHOOSE x \in Conns : TRUE
    IN  /\ sub = Subscribed([i \in {} |-> None], 1, c, FeedTopic)
        /\ conn = [x \in Conns |-> IF x = c THEN [Accepted(<<>>) EXCEPT !.subs[FeedTopic] = 1] ELSE NoConn]
        /\ socket = [x \in Conns |-> IF x = c THEN "open" ELSE "none"]
        /\ client = [ws |-> c, subs |-> {Feed}, queue |-> <<>>, timer |-> FALSE, token |-> NoUser]

DisconnectedPage ==
    /\ HubInit
    /\ socket = [x \in Conns |-> "none"]
    /\ client = [ws |-> None, subs |-> {Feed}, queue |-> <<>>, timer |-> TRUE, token |-> NoUser]

LaterInit ==
    /\ SubscribedPage \/ DisconnectedPage
    /\ relay = NoPrice /\ shown = NoPrice
    /\ used = [inputs |-> 0, overflow |-> FALSE, raced |-> FALSE, twice |-> FALSE]

MCSpec == (FeedInit \/ LaterInit) /\ [][FeedNext]_feedVars /\ FeedFairness
=============================================================================
