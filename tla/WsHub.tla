------------------------------- MODULE WsHub --------------------------------
(***************************************************************************)
(* crates/perplex-edge/src/ws: the topic hub (hub.rs) and connection tasks *)
(* with the forwarder of each subscription (server.rs).                    *)
(*                                                                         *)
(* A subscription's record holds its mailbox, whether the hub still lists  *)
(* its sending half, and whether its forwarder still runs.  A record with  *)
(* neither is gone and its id is used again, which keeps ids finite.  `fed`*)
(* is not in the code: whether a message was ever published to it.         *)
(*                                                                         *)
(* The outgoing channel of a connection and its sender task only delay a   *)
(* message further: a message leaves its mailbox when the client takes it. *)
(* Answers ("auth", "error") carry nothing the clients modelled here use.  *)
(***************************************************************************)
EXTENDS Integers, Sequences, FiniteSetsExt

CONSTANTS
    Conns,                  \* sockets, used again once both ends are done
    Channels,               \* names clients use; Topic::parse knows the
    Public, Private,        \* public and the private ones
    Addresses, NoUser,
    SubIds,
    MAX_QUEUE               \* a subscription's mailbox

ASSUME HubAssumption ==
    /\ MAX_QUEUE \in Nat \ {0}
    /\ SubIds \subseteq Nat \ {0}
    /\ Public \cup Private \subseteq Channels
    /\ Public \cap Private = {} /\ NoUser \notin Addresses

VARIABLES
    sub,        \* id -> subscription
    conn        \* connection -> its server side

hubVars == <<sub, conn>>

None == 0

\* Topic::with_user on a parsed channel; a public topic has no user.
Topic(ch, user) == <<ch, IF ch \in Private THEN user ELSE NoUser>>

Topics == {Topic(ch, u) : ch \in Public \cup Private, u \in Addresses \cup {NoUser}}

NoConn == [up |-> FALSE, user |-> NoUser, subs |-> [t \in Topics |-> None], in |-> <<>>]

\* What handle_connection starts from, with what the client sent on open.
Accepted(frames) == [NoConn EXCEPT !.up = TRUE, !.in = frames]

Frame(op, arg) == [op |-> op, arg |-> arg]
Close == Frame("close", NoUser)

-----------------------------------------------------------------------------
\* Records neither listed nor forwarded are dropped.
Kept(s) == [i \in {j \in DOMAIN s : s[j].listed \/ s[j].running} |-> s[i]]

\* Hub::subscribe and the forwarder spawned by subscribe_topic.
Subscribed(s, id, c, topic) ==
    [i \in DOMAIN s \cup {id} |->
        IF i = id THEN [conn |-> c, topic |-> topic, box |-> <<>>, fed |-> FALSE,
                       listed |-> TRUE, running |-> TRUE]
        ELSE s[i]]

\* Hub::unsubscribe of a set of handles.
Unlisted(s, ids) == Kept([i \in DOMAIN s |-> [s[i] EXCEPT !.listed = @ /\ i \notin ids]])

\* Mutant: a full mailbox loses the message and keeps the subscriber.
PublishedLossy(s, topic, msg) ==
    Kept([i \in DOMAIN s |->
        IF ~s[i].listed \/ s[i].topic # topic \/ Len(s[i].box) >= MAX_QUEUE THEN s[i]
        ELSE IF s[i].running THEN [s[i] EXCEPT !.box = Append(@, msg), !.fed = TRUE]
        ELSE [s[i] EXCEPT !.listed = FALSE]])

\* Hub::publish: try_send to every listed subscriber of the topic; one whose
\* mailbox is full, or whose forwarder has ended, is taken off the list.
Published(s, topic, msg) ==
    Kept([i \in DOMAIN s |->
        IF ~s[i].listed \/ s[i].topic # topic THEN s[i]
        ELSE IF s[i].running /\ Len(s[i].box) < MAX_QUEUE THEN [s[i] EXCEPT !.box = Append(@, msg), !.fed = TRUE]
        ELSE [s[i] EXCEPT !.listed = FALSE]])

-----------------------------------------------------------------------------
\* The receive loop takes the next frame of a live connection.
Takes(c, op) == conn[c].up /\ conn[c].in # <<>> /\ Head(conn[c].in).op = op

Taken(c) == [conn[c] EXCEPT !.in = Tail(@)]

Refused(c, ch) == ch \notin Public \cup Private \/ (ch \in Private /\ conn[c].user = NoUser)

OnSubscribe(c) ==
    /\ Takes(c, "subscribe")
    /\ LET ch    == Head(conn[c].in).arg
           topic == Topic(ch, conn[c].user)
           id    == Min(SubIds \ DOMAIN sub)
       IN  IF Refused(c, ch) THEN conn' = [conn EXCEPT ![c] = Taken(c)] /\ UNCHANGED sub
           ELSE /\ sub' = Subscribed(sub, id, c, topic)
                /\ conn' = [conn EXCEPT ![c] = [Taken(c) EXCEPT !.subs[topic] = id]]

\* A channel that does not parse is not among the topics.
OnUnsubscribe(c) ==
    /\ Takes(c, "unsubscribe")
    /\ LET topic == Topic(Head(conn[c].in).arg, conn[c].user)
       IN  /\ sub' = Unlisted(sub, {conn[c].subs[t] : t \in {topic} \cap Topics})
           /\ conn' = [conn EXCEPT ![c] = [Taken(c) EXCEPT !.subs = [t \in Topics |-> IF t = topic THEN None ELSE @[t]]]]

\* The token's subject; a client's tokens are valid ones.
OnAuth(c) ==
    /\ Takes(c, "auth")
    /\ conn' = [conn EXCEPT ![c] = [Taken(c) EXCEPT !.user = Head(conn[c].in).arg]]
    /\ UNCHANGED sub

\* The loop ends: recorded handles are unsubscribed and the sender aborted,
\* so that sends to the connection fail from now on.
OnClosed(c) ==
    /\ Takes(c, "close")
    /\ sub' = Unlisted(sub, {conn[c].subs[t] : t \in Topics})
    /\ conn' = [conn EXCEPT ![c] = NoConn]

\* Mutant: a forwarder whose connection is gone keeps draining its mailbox.
ForwardForever(id) ==
    /\ sub[id].running /\ sub[id].box # <<>>
    /\ sub' = [sub EXCEPT ![id].box = Tail(@)]
    /\ UNCHANGED conn

\* The next message of a mailbox goes out; a forwarder whose connection is
\* gone returns instead.
Forward(id) ==
    /\ sub[id].running /\ sub[id].box # <<>>
    /\ sub' = IF conn[sub[id].conn].up THEN [sub EXCEPT ![id].box = Tail(@)]
              ELSE Kept([sub EXCEPT ![id].running = FALSE, ![id].box = <<>>])
    /\ UNCHANGED conn

\* A forwarder whose sending half is gone returns once its mailbox is empty.
ForwarderEnds(id) ==
    /\ sub[id].running /\ ~sub[id].listed /\ sub[id].box = <<>>
    /\ sub' = Kept([sub EXCEPT ![id].running = FALSE])
    /\ UNCHANGED conn

Receive(c) == OnSubscribe(c) \/ OnUnsubscribe(c) \/ OnAuth(c) \/ OnClosed(c)

HubInit == sub = [i \in {} |-> None] /\ conn = [c \in Conns |-> NoConn]
=============================================================================
