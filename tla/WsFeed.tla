------------------------------- MODULE WsFeed -------------------------------
(***************************************************************************)
(* The live price feed end to end: the relayer that polls Hermes           *)
(* (perplex-oracle/src/relayer.rs) and publishes on the edge's hub         *)
(* (perplex-edge/src/oracle.rs), the WebSocket server of WsHub, and the    *)
(* browser's client (web/lib/ws/client.ts) with the hooks that subscribe   *)
(* through it (web/lib/ws/channels.ts).                                    *)
(***************************************************************************)
EXTENDS WsHub, SequencesExt

CONSTANTS
    Feed,                       \* the oracle channel of the market
    Prices, NoPrice,            \* what Hermes answers
    drift_bps,
    MaxInputs                   \* bound on hooks, token changes and faults

ASSUME FeedAssumption ==
    /\ Prices \subseteq Nat \ {0} /\ NoPrice \notin Prices
    /\ Feed \in Public
    /\ {drift_bps, MaxInputs} \subseteq Nat

VARIABLES
    relay,      \* the feed's last submitted price, which is the edge's
    socket,     \* connection -> the browser's readyState of it
    client,     \* the PerplexWs singleton
    shown,      \* the price on the screen
    used        \* bounded inputs so far, and what the properties except

feedVars == <<sub, conn, relay, socket, client, shown, used>>

-----------------------------------------------------------------------------
FeedTopic == Topic(Feed, NoUser)

Distance(a, b) == IF a < b THEN b - a ELSE a - b

\* drift_bps, truncated.
Drift(prev, current) == (Distance(current, prev) * 10000) \div prev

\* Mutant: the heartbeat does not force a submission.
ShouldSubmitOnDrift(p, due) == relay # NoPrice => Drift(relay, p) > drift_bps

ShouldSubmit(p, due) == relay # NoPrice => Drift(relay, p) > drift_bps \/ due

\* EdgeSubmitter::submit stores the price and publishes it.
submit(p) ==
    /\ relay' = p
    /\ sub' = Published(sub, FeedTopic, p)
    /\ used' = [used EXCEPT !.overflow = @ \/ \E i \in DOMAIN sub :
                    sub[i].listed /\ Len(sub[i].box) >= MAX_QUEUE /\ sub[i].topic = FeedTopic]

\* One turn of Relayer::run with Hermes' answer p.
Poll(p, due) ==
    /\ IF ShouldSubmit(p, due) THEN submit(p) ELSE UNCHANGED <<relay, sub, used>>
    /\ UNCHANGED <<conn, socket, client, shown>>

-----------------------------------------------------------------------------
\* readyState: "connecting", "open" and "lost" (open, broken, not yet noticed)
\* count as connected; "closing" after ws.close() until onclose.
Live(c) == socket[c] \in {"connecting", "open", "lost"}

Free == {c \in Conns : socket[c] = "none" /\ ~conn[c].up /\ \A i \in DOMAIN sub : sub[i].conn # c}

Fresh == CHOOSE c \in Free : TRUE

\* An input from outside; raced says connect() ran while a socket was closing.
Input(raced) ==
    /\ used.inputs < MaxInputs
    /\ used' = [used EXCEPT !.inputs = @ + 1, !.raced = @ \/ raced]

SomeClosing == \E c \in Conns : socket[c] = "closing"

\* Mutant: connect() does not look for a socket first.
ConnectedAnew(cl, sk) ==
    [client |-> [cl EXCEPT !.ws = Fresh], socket |-> [sk EXCEPT ![Fresh] = "connecting"]]

\* connect().
Connected(cl, sk) ==
    IF cl.ws # None /\ Live(cl.ws) THEN [client |-> cl, socket |-> sk]
    ELSE [client |-> [cl EXCEPT !.ws = Fresh], socket |-> [sk EXCEPT ![Fresh] = "connecting"]]

\* A new socket waits for a free name, a bound on sockets at a time.
Connect(cl) ==
    /\ Free # {}
    /\ client' = Connected(cl, socket).client
    /\ socket' = Connected(cl, socket).socket
    /\ used' = [used EXCEPT !.raced = @ \/ SomeClosing]

\* Mutant: subscriptions are sent before the token.
OpeningFramesUnordered ==
    LET subscribes == SetToSeq({Frame("subscribe", ch) : ch \in client.subs})
        auth == IF client.token = NoUser THEN <<>> ELSE <<Frame("auth", client.token)>>
    IN  subscribes \o auth \o client.queue

\* onopen: the token, the subscriptions, then what was queued meanwhile.
OpeningFrames ==
    LET subscribes == SetToSeq({Frame("subscribe", ch) : ch \in client.subs})
        auth == IF client.token = NoUser THEN <<>> ELSE <<Frame("auth", client.token)>>
    IN  auth \o subscribes \o client.queue

Opens(c) ==
    /\ socket[c] = "connecting"
    /\ socket' = [socket EXCEPT ![c] = "open"]
    /\ conn' = [conn EXCEPT ![c] = Accepted(OpeningFrames)]
    /\ client' = [client EXCEPT !.queue = <<>>]
    /\ UNCHANGED <<sub, relay, shown, used>>

\* onclose and scheduleReconnect; nothing calls close(), so `closed` stays
\* false.
Closed(c) ==
    /\ socket' = [socket EXCEPT ![c] = "none"]
    /\ client' = [client EXCEPT !.ws = None, !.timer = TRUE]

OnClose(c) ==
    /\ socket[c] = "lost" \/ (socket[c] = "closing" /\ ~conn[c].up)
    /\ Closed(c)
    /\ UNCHANGED <<sub, conn, relay, shown, used>>

ReconnectTimer ==
    /\ client.timer
    /\ Connect([client EXCEPT !.timer = FALSE])
    /\ UNCHANGED <<sub, conn, relay, shown>>

\* send(): on an open socket, or into the queue.
Send(cl, frame) ==
    IF cl.ws # None /\ socket[cl.ws] \in {"open", "lost"}
    THEN /\ conn' = IF socket[cl.ws] = "open" /\ conn[cl.ws].up THEN [conn EXCEPT ![cl.ws].in = Append(@, frame)] ELSE conn
         /\ client' = cl
    ELSE /\ client' = [cl EXCEPT !.queue = Append(@, frame)]
         /\ UNCHANGED conn

\* useLiveOracle: mounting resets its value, a message on its channel sets it.
Mounted(ch) == IF ch = Feed THEN NoPrice ELSE shown
Heard(t, v) == IF t = FeedTopic THEN v ELSE shown

\* A hook mounts.
Subscribe(ch) ==
    /\ Input(FALSE)
    /\ ch \notin client.subs
    /\ Send([client EXCEPT !.subs = @ \cup {ch}], Frame("subscribe", ch))
    /\ shown' = Mounted(ch)
    /\ UNCHANGED <<sub, relay, socket>>

Unsubscribe(ch) ==
    /\ Input(FALSE)
    /\ ch \in client.subs
    /\ Send([client EXCEPT !.subs = @ \ {ch}], Frame("unsubscribe", ch))
    /\ UNCHANGED <<sub, relay, socket, shown>>

\* ws.close() sends a close frame on an open socket.
Closing(c) ==
    /\ socket' = [socket EXCEPT ![c] = "closing"]
    /\ conn' = IF conn[c].up /\ socket[c] = "open" THEN [conn EXCEPT ![c].in = Append(@, Close)] ELSE conn

\* syncWsToken after a sign-in or sign-out.
SetToken(u) ==
    /\ u # client.token
    /\ Free # {}
    /\ Input(client.ws = None /\ SomeClosing)
    /\ LET cl == [client EXCEPT !.token = u]
       IN  IF client.ws = None
           THEN /\ client' = Connected(cl, socket).client
                /\ socket' = Connected(cl, socket).socket
                /\ UNCHANGED conn
           ELSE /\ client' = cl
                /\ IF Live(client.ws) THEN Closing(client.ws) ELSE UNCHANGED <<socket, conn>>
    /\ UNCHANGED <<sub, relay, shown>>

-----------------------------------------------------------------------------
\* Two subscriptions to the feed at once are remembered for the properties.
Server(A) ==
    /\ A
    /\ used' = [used EXCEPT !.twice = @ \/ \E i, j \in DOMAIN sub' :
                    i # j /\ sub'[i].topic = FeedTopic /\ sub'[j].topic = FeedTopic]
    /\ UNCHANGED <<relay, socket, client>>

Receives(c) == Server(Receive(c)) /\ UNCHANGED shown

\* A message reaches the listeners of an open socket; a socket that is
\* closing has no message events.
Delivers(id) ==
    /\ id \in DOMAIN sub
    /\ Server(Forward(id))
    /\ shown' = IF conn[sub[id].conn].up /\ socket[sub[id].conn] = "open"
                THEN Heard(sub[id].topic, Head(sub[id].box)) ELSE shown

Ends(id) == id \in DOMAIN sub /\ Server(ForwarderEnds(id)) /\ UNCHANGED shown

\* The heartbeat task gives a silent client up: the browser answers the
\* close frame.
HeartbeatCloses(c) ==
    /\ conn[c].up /\ socket[c] = "open"
    /\ Input(FALSE)
    /\ Closing(c)
    /\ UNCHANGED <<sub, relay, client, shown>>

\* The network breaks an open socket: frames on their way are lost, and each
\* end finds out on its own.
Breaks(c) ==
    /\ socket[c] = "open" /\ conn[c].up
    /\ Input(FALSE)
    /\ socket' = [socket EXCEPT ![c] = "lost"]
    /\ conn' = [conn EXCEPT ![c].in = <<Close>>]
    /\ UNCHANGED <<sub, relay, client, shown>>

ConnectFails(c) ==
    /\ socket[c] = "connecting"
    /\ Input(FALSE)
    /\ Closed(c)
    /\ UNCHANGED <<sub, conn, relay, shown>>

\* getWsClient creates the singleton and connects.
FeedInit ==
    /\ HubInit
    /\ relay = NoPrice
    /\ LET c == CHOOSE x \in Conns : TRUE IN
         /\ socket = [x \in Conns |-> IF x = c THEN "connecting" ELSE "none"]
         /\ client = [ws |-> c, subs |-> {}, queue |-> <<>>, timer |-> FALSE, token |-> NoUser]
    /\ shown = NoPrice
    /\ used = [inputs |-> 0, overflow |-> FALSE, raced |-> FALSE, twice |-> FALSE]

FeedNext ==
    \/ \E p \in Prices, due \in BOOLEAN : Poll(p, due)
    \/ ReconnectTimer
    \/ \E c \in Conns : \/ Receives(c) \/ Opens(c) \/ OnClose(c)
                        \/ HeartbeatCloses(c) \/ Breaks(c) \/ ConnectFails(c)
    \/ \E id \in SubIds : Delivers(id) \/ Ends(id)
    \/ \E ch \in Channels : Subscribe(ch) \/ Unsubscribe(ch)
    \/ \E u \in Addresses \cup {NoUser} : SetToken(u)

\* The runtime polls every task, timers fire, and the network delivers what
\* it does not break.
FeedFairness ==
    /\ WF_feedVars(\E p \in Prices : Poll(p, TRUE)) /\ WF_feedVars(ReconnectTimer)
    /\ \A c \in Conns : WF_feedVars(Receives(c)) /\ WF_feedVars(Opens(c)) /\ WF_feedVars(OnClose(c))
    /\ \A id \in SubIds : WF_feedVars(Delivers(id) \/ Ends(id))

FeedSpec == FeedInit /\ [][FeedNext]_feedVars /\ FeedFairness

-----------------------------------------------------------------------------
InFlight == \E i \in DOMAIN sub : sub[i].box # <<>>

\* A subscription the hub still serves has missed nothing: with one
\* subscription, one socket and nothing on its way, the screen has the price
\* the edge stores (publish drops the slow subscriber, never the message).
ShowsLatest ==
    ~used.twice /\ ~used.raced /\ ~InFlight
        /\ (\E i \in DOMAIN sub : sub[i].listed /\ sub[i].fed /\ conn[sub[i].conn].up
                                   /\ socket[sub[i].conn] = "open" /\ sub[i].topic = FeedTopic)
    => shown \in {relay, NoPrice}

\* The browser has one socket that is connecting or open, unless connect()
\* ran while an earlier one was still closing: its onclose then forgets the
\* new socket (connect's guard, onclose, setToken and the reconnect timer).
OneSocket == ~used.raced => Cardinality({c \in Conns : Live(c)}) <= 1

\* Both: what is on the screen is the latest over the one socket there is
\* (publish, connect).
FeedExact == ShowsLatest /\ OneSocket

Served(ch) ==
    \E i \in DOMAIN sub :
        /\ sub[i].listed /\ sub[i].topic = Topic(ch, client.token)
        /\ conn[sub[i].conn].up /\ socket[sub[i].conn] = "open"

Wanted(ch) == ch \in client.subs /\ (ch \in Private => client.token # NoUser)

\* The channels hooks want are served again after every broken socket, close
\* and token change, private ones as the current user (onopen's frames, their
\* order, and the queue).  A mailbox that overflowed is the exception: the
\* client is not told.
FeedReturns == []<>(used.overflow \/ \A ch \in Public \cup Private : Wanted(ch) => Served(ch))

\* While the feed is served the screen reaches the price the edge has, even
\* if it was published before the hook subscribed (the relayer's heartbeat).
ScreenCatchesUp == []<>(Served(Feed) => shown = relay)

\* Whatever a connection left in the hub goes once it is down, handles its
\* map had lost to a second subscribe included (the forwarder's return, and
\* publish's clean-up).
LeftoversGo ==
    []<>(\A id \in DOMAIN sub : sub[id].topic = FeedTopic /\ sub[id].listed => conn[sub[id].conn].up)

\* All three: after any break the feed comes back, the screen catches up and
\* the hub forgets what is gone (onopen, the relayer's heartbeat, publish).
FeedRecovers == FeedReturns /\ ScreenCatchesUp /\ LeftoversGo
=============================================================================
