---------------------------- MODULE MockBackend ----------------------------
(***************************************************************************)
(* Running the web app without a server: Providers (web/app/providers.tsx) *)
(* starts the mocks and unblocks the page, and the service worker          *)
(* (web/public/mockServiceWorker.js) hands the page's requests back to it. *)
(*                                                                         *)
(* The part of the library that runs in the page is modelled from what the *)
(* worker expects of it: it registers the worker, listens, sends           *)
(* MOCK_ACTIVATE, waits for MOCKING_ENABLED, and sends CLIENT_CLOSED when  *)
(* the page is left.  Any of its steps may never happen.  Pages are top    *)
(* level windows.  A message to a page that is not listening is lost.      *)
(***************************************************************************)
EXTENDS Integers, Sequences, FiniteSets

CONSTANTS
    Pages,
    Watched,            \* the page whose screen and request are followed
    NoPage,
    MaxMounts,          \* bound on runs of its boot effect
    MaxKills            \* bound on how often the browser stops the worker

ASSUME MockAssumption == Watched \in Pages /\ NoPage \notin Pages /\ MaxMounts \in Nat \ {0} /\ MaxKills \in Nat

VARIABLES
    page,               \* page -> "new", "open", "leaving" or "gone"
    screen,             \* mocksReady and mocksError of the page watched
    boots,              \* page -> the runs of its boot effect, the last one current
    listening,          \* pages whose half of the library hears the worker
    controlled,         \* pages whose requests pass through the worker
    registered,
    activeClientIds,
    inbox,              \* messages on their way to the worker, of each page in order
    req,                \* where its request is
    kills

mockVars == <<page, screen, boots, listening, controlled, registered, activeClientIds, inbox, req, kills>>

Alive == {p \in Pages : page[p] \in {"open", "leaving"}}
NoReq == [at |-> "none", client |-> NoPage]

-----------------------------------------------------------------------------
(***************************************************************************)
(* Providers.  A run of its effect is "importing", "starting" or over, and *)
(* its timeout is set until it is cleared or fires.                        *)
(***************************************************************************)

Run(p) == [start |-> "importing", cancelled |-> FALSE, timer |-> p = Watched]

Open(p) ==
    /\ page[p] = "new"
    /\ page' = [page EXCEPT ![p] = "open"]
    /\ boots' = [boots EXCEPT ![p] = <<Run(p)>>]
    /\ controlled' = IF registered THEN controlled \cup {p} ELSE controlled
    /\ UNCHANGED <<screen, listening, registered, activeClientIds, inbox, req, kills>>

\* React runs an effect's cleanup and the effect again.
Remount(p) ==
    /\ page[p] = "open" /\ p = Watched /\ Len(boots[p]) < MaxMounts
    /\ boots' = [boots EXCEPT ![p] =
           Append([i \in DOMAIN @ |-> [@[i] EXCEPT !.cancelled = TRUE, !.timer = FALSE]], Run(p))]
    /\ UNCHANGED <<page, screen, listening, controlled, registered, activeClientIds, inbox, req, kills>>

\* startMocks: a run that finds the mocks started has nothing to do.
Starts(p, i) ==
    /\ page[p] = "open" /\ boots[p][i].start = "importing"
    /\ boots' = [boots EXCEPT ![p][i].start = "starting"]
    /\ registered' = TRUE
    /\ controlled' = controlled \cup {p}
    /\ listening' = listening \cup {p}
    /\ inbox' = Append(inbox, [from |-> p, type |-> "MOCK_ACTIVATE"])
    /\ UNCHANGED <<page, screen, activeClientIds, req, kills>>

\* What the run does with the screen when startMocks is through, if it is not cancelled.
Unblocked(p, i, error) ==
    IF boots[p][i].cancelled \/ p # Watched
    THEN screen
    ELSE [ready |-> TRUE, error |-> screen.error \/ error]

\* MOCKING_ENABLED has reached the page: startMocks returns.
Started(p, i) ==
    /\ p = Watched /\ page[p] = "open" /\ boots[p][i].start = "enabled"
    /\ boots' = [boots EXCEPT ![p][i] = [@ EXCEPT !.start = "started", !.timer = @ /\ boots[p][i].cancelled]]
    /\ screen' = Unblocked(p, i, FALSE)
    /\ UNCHANGED <<page, listening, controlled, registered, activeClientIds, inbox, req, kills>>

StartFails(p, i) ==
    /\ p = Watched /\ page[p] = "open" /\ boots[p][i].start = "importing"
    /\ boots' = [boots EXCEPT ![p][i] = [@ EXCEPT !.start = "failed", !.timer = @ /\ boots[p][i].cancelled]]
    /\ screen' = Unblocked(p, i, TRUE)
    /\ UNCHANGED <<page, listening, controlled, registered, activeClientIds, inbox, req, kills>>

\* Mutant: the page is left blocked.
StillBlocked == [screen EXCEPT !.error = TRUE]

\* The timeout's callback: the page is shown with the error.
TimedOut == [ready |-> TRUE, error |-> TRUE]

\* Ten seconds have passed.
Timeout(p, i) ==
    /\ p = Watched /\ page[p] = "open" /\ boots[p][i].timer
    /\ boots' = [boots EXCEPT ![p][i].timer = FALSE]
    /\ screen' = IF boots[p][i].cancelled THEN screen ELSE TimedOut
    /\ UNCHANGED <<page, listening, controlled, registered, activeClientIds, inbox, req, kills>>

\* The page is being left, or is reloaded by the error banner's button.
Leave(p) ==
    /\ page[p] = "open"
    /\ page' = [page EXCEPT ![p] = "leaving"]
    /\ inbox' = IF p \in listening THEN Append(inbox, [from |-> p, type |-> "CLIENT_CLOSED"]) ELSE inbox
    /\ UNCHANGED <<screen, boots, listening, controlled, registered, activeClientIds, req, kills>>

Gone(p) ==
    /\ page[p] = "leaving"
    /\ page' = [page EXCEPT ![p] = "gone"]
    /\ listening' = listening \ {p}
    /\ req' = IF p = Watched THEN NoReq ELSE req
    /\ UNCHANGED <<screen, boots, controlled, registered, activeClientIds, inbox, kills>>

-----------------------------------------------------------------------------
(***************************************************************************)
(* The service worker.                                                     *)
(***************************************************************************)

\* The page hears it if it listens, in the runs that wait for it.
Enabled(p) ==
    IF p \in listening
    THEN [boots EXCEPT ![p] = [i \in DOMAIN @ |->
            IF @[i].start = "starting" THEN [@[i] EXCEPT !.start = "enabled"] ELSE @[i]]]
    ELSE boots

\* The message handler.  A message from a page that has gone is dropped,
\* whatever it says; the last page to say it closes takes the registration
\* with it.
OnMessage ==
    /\ inbox # <<>>
    /\ inbox' = Tail(inbox)
    /\ LET p == Head(inbox).from
           activates == p \in Alive /\ Head(inbox).type = "MOCK_ACTIVATE"
           closes == p \in Alive /\ Head(inbox).type = "CLIENT_CLOSED"
       IN  /\ activeClientIds' = IF activates THEN activeClientIds \cup {p}
                                 ELSE IF closes THEN activeClientIds \ {p} ELSE activeClientIds
           /\ boots' = IF activates THEN Enabled(p) ELSE boots
           /\ registered' = (registered /\ (closes => Alive # {p}))
    /\ UNCHANGED <<page, screen, listening, controlled, req, kills>>

\* The fetch handler: with no active client the request goes out as it is.
Fetch ==
    /\ page[Watched] = "open" /\ req.at = "none"
    /\ req' = [req EXCEPT !.at = IF Watched \in controlled /\ activeClientIds # {} THEN "intercepted" ELSE "direct"]
    /\ UNCHANGED <<page, screen, boots, listening, controlled, registered, activeClientIds, inbox, kills>>

\* resolveMainClient: the page itself; of the other frames the model has none.
ResolveMainClient ==
    /\ req.at = "intercepted"
    /\ req' = [at |-> "resolved", client |-> IF Watched \in Alive THEN Watched ELSE NoPage]
    /\ UNCHANGED <<page, screen, boots, listening, controlled, registered, activeClientIds, inbox, kills>>

\* Mutant: whoever was resolved is asked.
MockingAny(client) == client # NoPage

\* Whether getResponse asks the client.
Mocking(client) == client # NoPage /\ client \in activeClientIds

\* getResponse: sendToClient, or passthrough.
GetResponse ==
    /\ req.at = "resolved"
    /\ req' = [req EXCEPT !.at =
           IF ~Mocking(req.client) THEN "passed" ELSE IF req.client \in listening THEN "asked" ELSE "lost"]
    /\ UNCHANGED <<page, screen, boots, listening, controlled, registered, activeClientIds, inbox, kills>>

\* The client's half answers with a response, or asks for the network's.
ClientAnswers ==
    /\ req.at = "asked" /\ req.client \in listening
    /\ \E answer \in {"none", "passed"} : req' = [NoReq EXCEPT !.at = answer]
    /\ UNCHANGED <<page, screen, boots, listening, controlled, registered, activeClientIds, inbox, kills>>

\* The network answers, or fails.
NetworkAnswers ==
    /\ req.at \in {"direct", "passed"}
    /\ req' = NoReq
    /\ UNCHANGED <<page, screen, boots, listening, controlled, registered, activeClientIds, inbox, kills>>

\* The browser stops an idle or stuck worker: what it keeps in memory is lost,
\* the requests it holds fail.
WorkerStopped ==
    /\ kills < MaxKills /\ registered
    /\ kills' = kills + 1
    /\ activeClientIds' = {}
    /\ req' = IF req.at = "direct" THEN req ELSE NoReq
    /\ UNCHANGED <<page, screen, boots, listening, controlled, registered, inbox>>

-----------------------------------------------------------------------------
MockInit ==
    /\ page = [p \in Pages |-> "new"]
    /\ screen = [ready |-> FALSE, error |-> FALSE]
    /\ boots = [p \in Pages |-> <<>>]
    /\ listening = {} /\ controlled = {} /\ registered = FALSE
    /\ activeClientIds = {} /\ inbox = <<>>
    /\ req = NoReq
    /\ kills = 0

BootNext(p) ==
    \/ Open(p) \/ Remount(p) \/ Leave(p) \/ Gone(p)
    \/ \E i \in DOMAIN boots[p] : Starts(p, i) \/ Started(p, i) \/ StartFails(p, i) \/ Timeout(p, i)

Served == ResolveMainClient \/ GetResponse \/ ClientAnswers \/ NetworkAnswers

MockNext ==
    \/ \E p \in Pages : BootNext(p)
    \/ Fetch \/ Served
    \/ OnMessage
    \/ WorkerStopped

\* Timers fire, and a worker that is asked something runs.  Nothing makes the
\* mocks start, and nobody has to open or leave a page.
MockFairness == WF_mockVars(\E i \in DOMAIN boots[Watched] : Timeout(Watched, i)) /\ WF_mockVars(Served)

MockSpec == MockInit /\ [][MockNext]_mockVars /\ MockFairness

-----------------------------------------------------------------------------
(***************************************************************************)
(* Properties.                                                             *)
(***************************************************************************)

\* Providers shows the page in the end, whatever becomes of the mocks and
\* however often its effect runs; and a request of a page that stays is
\* answered or fails, whoever else opens, starts, leaves or is stopped:
\* getResponse asks nobody who does not listen.
MocksNeverHang == []<>(req.at = "none" /\ (page[Watched] = "open" => screen.ready))
=============================================================================
