----------------------------- MODULE SdkSocket -----------------------------
(***************************************************************************)
(* PerplexWs of the SDK (sdk/typescript/src/ws.ts): one client, the        *)
(* sockets it opens one after another, and the server's side of them.      *)
(*                                                                         *)
(* Every socket's events reach the one client, which acts on the socket it *)
(* holds by then: a socket that was closed or replaced still reports.      *)
(***************************************************************************)
EXTENDS Integers, SequencesExt

CONSTANTS
    Topics,
    MaxSockets,         \* bound on sockets opened
    MaxBreaks,          \* bound on sockets the network takes down
    MaxSdkCalls         \* bound on calls of the application

ASSUME SdkAssumption == {MaxSockets, MaxBreaks, MaxSdkCalls} \subseteq Nat

NoSocket == 0

VARIABLES
    ws,                 \* the socket held, NoSocket when there is none
    sockets,            \* its state: "connecting", "open", "closing", "down" (closed,
                        \* event not delivered) or "closed"
    sent,               \* socket -> frames the server has not read
    served,             \* socket -> topics the server serves it
    subs,               \* topics with listeners
    destroyed,
    timers,             \* reconnects to come
    jwt,                \* whether it has a token
    auth,               \* where authenticate is, and the socket it listens to
    answers,            \* socket -> answers to auth on their way
    sdkCalls, breaks

sdkVars == <<ws, sockets, sent, served, subs, destroyed, timers, jwt, auth, answers, sdkCalls, breaks>>

IsOpen(s) == s # NoSocket /\ sockets[s] = "open"

\* send: dropped unless the socket held is open.
Sent(frames) == IF IsOpen(ws) THEN [sent EXCEPT ![ws] = @ \o frames] ELSE sent

SdkCall == sdkCalls < MaxSdkCalls /\ sdkCalls' = sdkCalls + 1

-----------------------------------------------------------------------------
\* connect: nothing while a socket is held.
Connected ==
    IF ws # NoSocket
    THEN UNCHANGED <<ws, sockets, sent, served, answers, destroyed>>
    ELSE /\ Len(sockets) < MaxSockets
         /\ ws' = Len(sockets) + 1
         /\ sockets' = Append(sockets, "connecting")
         /\ sent' = Append(sent, <<>>)
         /\ served' = Append(served, {})
         /\ answers' = Append(answers, <<>>)
         /\ destroyed' = FALSE

Connect == SdkCall /\ Connected /\ UNCHANGED <<subs, timers, jwt, auth, breaks>>

Close ==
    /\ SdkCall
    /\ destroyed' = TRUE
    /\ subs' = {}
    /\ sockets' = IF ws = NoSocket \/ sockets[ws] = "down" THEN sockets ELSE [sockets EXCEPT ![ws] = "closing"]
    /\ ws' = NoSocket
    /\ UNCHANGED <<sent, served, timers, jwt, auth, answers, breaks>>

\* The first listener of a topic, or the last one.
Subscribe(topic) ==
    /\ SdkCall /\ topic \notin subs
    /\ subs' = subs \cup {topic}
    /\ sent' = Sent(<<[op |-> "subscribe", topic |-> topic]>>)
    /\ UNCHANGED <<ws, sockets, served, destroyed, timers, jwt, auth, answers, breaks>>

Unsubscribe(topic) ==
    /\ SdkCall /\ topic \in subs
    /\ subs' = subs \ {topic}
    /\ sent' = Sent(<<[op |-> "unsubscribe", topic |-> topic]>>)
    /\ UNCHANGED <<ws, sockets, served, destroyed, timers, jwt, auth, answers, breaks>>

AuthFrame == [op |-> "auth", topic |-> "none"]

\* authenticate with the socket open: listen on it and send.
AskedOn(s, frames) ==
    /\ auth' = [at |-> "waiting", on |-> s]
    /\ sent' = [sent EXCEPT ![s] = @ \o frames \o <<AuthFrame>>]

\* authenticate: with no socket open it connects and waits for the event.
Authenticate ==
    /\ SdkCall /\ auth.at = "idle"
    /\ jwt' = TRUE
    /\ IF IsOpen(ws)
       THEN AskedOn(ws, <<>>) /\ UNCHANGED <<ws, sockets, served, answers, destroyed>>
       ELSE Connected /\ auth' = [at |-> "opening", on |-> ws']
    /\ UNCHANGED <<subs, timers, breaks>>

-----------------------------------------------------------------------------
\* Mutant: only the authentication is repeated.
OpeningAuth == IF jwt THEN <<AuthFrame>> ELSE <<>>

\* What onOpen sends: the token, then every topic.
Opening ==
    (IF jwt THEN <<AuthFrame>> ELSE <<>>)
      \o SetToSeq({[op |-> "subscribe", topic |-> topic] : topic \in subs})

\* A socket opens: onOpen sends on the socket held, then waitForOpen resolves.
OnOpen(s) ==
    /\ sockets[s] = "connecting"
    /\ sockets' = [sockets EXCEPT ![s] = "open"]
    /\ LET frames == IF ws # NoSocket /\ sockets'[ws] = "open" THEN Opening ELSE <<>>
       IN  IF auth = [at |-> "opening", on |-> s] /\ frames # <<>>
           THEN AskedOn(ws, frames)
           ELSE /\ sent' = IF frames = <<>> THEN sent ELSE [sent EXCEPT ![ws] = @ \o frames]
                /\ auth' = IF auth = [at |-> "opening", on |-> s] THEN [auth EXCEPT !.at = "stuck"] ELSE auth
    /\ UNCHANGED <<ws, served, subs, destroyed, timers, jwt, answers, sdkCalls, breaks>>

\* The close event of any socket: the one held is let go.
OnClose(s) ==
    /\ sockets[s] \in {"closing", "down"}
    /\ sockets' = [sockets EXCEPT ![s] = "closed"]
    /\ ws' = NoSocket
    /\ timers' = IF destroyed THEN timers ELSE timers + 1
    /\ UNCHANGED <<sent, served, subs, destroyed, jwt, auth, answers, sdkCalls, breaks>>

\* The timer of a reconnect: connect.
Reconnect ==
    /\ timers > 0
    /\ timers' = timers - 1
    /\ Connected
    /\ UNCHANGED <<subs, jwt, auth, sdkCalls, breaks>>

\* onMessage and authenticate's listener: the answer settles the promise.
OnAnswer(s) ==
    /\ sockets[s] = "open" /\ answers[s] # <<>>
    /\ answers' = [answers EXCEPT ![s] = Tail(@)]
    /\ auth' = IF auth = [at |-> "waiting", on |-> s] THEN [at |-> "idle", on |-> NoSocket] ELSE auth
    /\ UNCHANGED <<ws, sockets, sent, served, subs, destroyed, timers, jwt, sdkCalls, breaks>>

-----------------------------------------------------------------------------
\* The server reads a frame.
EdgeReads(s) ==
    /\ sockets[s] = "open" /\ sent[s] # <<>>
    /\ sent' = [sent EXCEPT ![s] = Tail(@)]
    /\ LET f == Head(sent[s])
       IN  /\ served' = [served EXCEPT ![s] = CASE f.op = "subscribe" -> @ \cup {f.topic}
                                                [] f.op = "unsubscribe" -> @ \ {f.topic}
                                                [] OTHER -> @]
           /\ answers' = IF f.op = "auth" THEN [answers EXCEPT ![s] = Append(@, "auth")] ELSE answers
    /\ UNCHANGED <<ws, sockets, subs, destroyed, timers, jwt, auth, sdkCalls, breaks>>

\* The network takes a socket down, before or after it opened.
Breaks(s) ==
    /\ breaks < MaxBreaks
    /\ sockets[s] \in {"connecting", "open"}
    /\ breaks' = breaks + 1
    /\ sockets' = [sockets EXCEPT ![s] = "down"]
    /\ UNCHANGED <<ws, sent, served, subs, destroyed, timers, jwt, auth, answers, sdkCalls>>

-----------------------------------------------------------------------------
\* A client just made, or one whose socket is open and served.
SdkInit ==
    /\ subs \in SUBSET Topics
    /\ \/ /\ ws = NoSocket /\ subs = {}
          /\ sockets = <<>> /\ sent = <<>> /\ served = <<>> /\ answers = <<>>
       \/ /\ ws = 1
          /\ sockets = <<"open">> /\ sent = <<<<>>>> /\ served = <<subs>> /\ answers = <<<<>>>>
    /\ destroyed = FALSE /\ timers = 0
    /\ jwt \in BOOLEAN /\ auth = [at |-> "idle", on |-> NoSocket]
    /\ sdkCalls = 0 /\ breaks = 0

SocketStep(s) == OnOpen(s) \/ OnClose(s) \/ OnAnswer(s) \/ EdgeReads(s)

SdkNext ==
    \/ Connect \/ Close \/ Authenticate \/ Reconnect
    \/ \E topic \in Topics : Subscribe(topic) \/ Unsubscribe(topic)
    \/ \E s \in DOMAIN sockets : SocketStep(s) \/ Breaks(s)

\* Events are delivered, timers fire and the server reads.
SdkFairness == WF_sdkVars(Reconnect) /\ WF_sdkVars(\E s \in DOMAIN sockets : SocketStep(s))

SdkSpec == SdkInit /\ [][SdkNext]_sdkVars /\ SdkFairness

-----------------------------------------------------------------------------
(***************************************************************************)
(* Properties.                                                             *)
(***************************************************************************)

\* A client that was connected and not closed since ends up with an open
\* socket on which the server serves exactly the topics that have listeners,
\* whatever was subscribed while there was none and whichever socket's close
\* event came late (open, scheduleReconnect); and authenticate settles unless
\* the socket it listens to goes.
SdkReconnects ==
    <>[](/\ sockets # <<>> /\ ~destroyed => IsOpen(ws) /\ served[ws] = subs
         /\ auth.at = "waiting" => ~IsOpen(auth.on))
=============================================================================
