------------------------------ MODULE Shutdown ------------------------------
(***************************************************************************)
(* The life of the server process (apps/server/src/main.ts, shutdown.ts)   *)
(* and the live streams it has to end before it can stop                   *)
(* (api/routes/live.ts, api/app.ts): startup in its fixed order, the SSE   *)
(* requests of dashboard tabs that come and go, a signal at any moment,    *)
(* the teardown, and the timeout behind it.                                *)
(*                                                                         *)
(* The scheduler is reduced to what the teardown sees of it: one job in    *)
(* flight, and one read of job_runs that may still start a job.            *)
(*                                                                         *)
(* A definition whose name ends in _M is the one after it with a plausible *)
(* bug put in; it is used only to see that a property notices the bug.     *)
(***************************************************************************)
EXTENDS Naturals, FiniteSets

CONSTANT Tabs  \* the dashboard tabs; each holds one SSE request at a time

VARIABLES
  stage,      \* how far startup or teardown has come
  exitCode,   \* what the process exited with; "none" while it lives
  reading,    \* a tick awaits job_runs
  job,        \* a job is in flight
  awaited,    \* stop() awaits that job
  request,    \* each tab's request, as far as the server has come with it
  connected,  \* the tabs whose client still holds the connection
  aborted,    \* the tabs whose stream was aborted
  listening,  \* the tabs with a listener on the snapshot store's emitter
  openStreams \* registerLiveRoute's registry

vars == <<stage, exitCode, reading, job, awaited, request, connected, aborted,
          listening, openStreams>>

scheduler == <<reading, job, awaited>>
streams == <<request, connected, aborted, listening, openStreams>>

Starting == {"migrating", "reconciling"}
TearingDown == {"stopping", "closing", "releasing"}

Init ==
  /\ stage = "migrating"
  /\ exitCode = "none"
  /\ reading = FALSE
  /\ job = FALSE
  /\ awaited = FALSE
  /\ request = [t \in Tabs |-> "none"]
  /\ connected = {}
  /\ aborted = {}
  /\ listening = {}
  /\ openStreams = {}

-----------------------------------------------------------------------------
(* startApp and main.                                                       *)

Migrated ==
  /\ stage = "migrating"
  /\ stage' = "reconciling"
  /\ UNCHANGED <<exitCode, scheduler, streams>>

\* The repairs are done: the scheduler starts, the server listens and the
\* signal handlers are installed.
Reconciled ==
  /\ stage = "reconciling"
  /\ stage' = "up"
  /\ UNCHANGED <<exitCode, scheduler, streams>>

Exit(code) ==
  /\ stage' = "exited"
  /\ exitCode' = code

\* A rejection during startup closes the pool and exits; a signal then finds no
\* handler and kills the process.
StartupFails ==
  /\ stage \in Starting
  /\ \E code \in {"failure", "killed"} : Exit(code)
  /\ UNCHANGED <<scheduler, streams>>

-----------------------------------------------------------------------------
(* The scheduler.                                                           *)

Tick ==
  /\ stage = "up"
  /\ ~reading
  /\ reading' = TRUE
  /\ UNCHANGED <<stage, exitCode, job, awaited, streams>>

\* The read resolves, and a job is started if one is due and none is in flight;
\* stop() does not keep it from starting.
ReadResolves ==
  /\ stage # "exited"
  /\ reading
  /\ reading' = FALSE
  /\ \E due \in BOOLEAN : job' = (job \/ due)
  /\ UNCHANGED <<stage, exitCode, awaited, streams>>

JobSettles ==
  /\ stage # "exited"
  /\ job
  /\ job' = FALSE
  /\ awaited' = FALSE
  /\ UNCHANGED <<stage, exitCode, reading, streams>>

-----------------------------------------------------------------------------
(* GET /api/live.                                                           *)

\* A tab opens its EventSource, or opens it again.  The server stops accepting
\* connections when close() is called.
Connect(t) ==
  /\ stage \in {"up", "stopping"}
  /\ t \notin connected
  /\ request[t] \in {"none", "ended", "stuck"}
  /\ request' = [request EXCEPT ![t] = "auth"]
  /\ connected' = connected \cup {t}
  /\ aborted' = aborted \ {t}
  /\ UNCHANGED <<stage, exitCode, scheduler, listening, openStreams>>

\* requireAdmin answers 401.
Refuse(t) ==
  /\ stage # "exited"
  /\ request[t] = "auth"
  /\ request' = [request EXCEPT ![t] = "ended"]
  /\ connected' = connected \ {t}
  /\ UNCHANGED <<stage, exitCode, scheduler, aborted, listening, openStreams>>

\* requireAdmin lets the request through: the handler notes aborts from here on
\* and subscribes, which attaches the listener at once.
Subscribe(t) ==
  /\ stage # "exited"
  /\ request[t] = "auth"
  /\ request' = [request EXCEPT ![t] = "subscribing"]
  /\ listening' = listening \cup {t}
  /\ UNCHANGED <<stage, exitCode, scheduler, connected, aborted, openStreams>>

\* The abort is not looked at, and the abort handler installed now is too late.
Subscribed_M(t) ==
  /\ stage # "exited"
  /\ request[t] = "subscribing"
  /\ request' = [request EXCEPT ![t] = "greeting"]
  /\ openStreams' = openStreams \cup {t}
  /\ UNCHANGED <<stage, exitCode, scheduler, connected, aborted, listening>>

\* subscribe() resolves.  A client already gone is only unsubscribed; another
\* gets its entry in the registry and an abort handler that cleans up.
Subscribed(t) ==
  /\ stage # "exited"
  /\ request[t] = "subscribing"
  /\ IF t \in aborted
       THEN /\ request' = [request EXCEPT ![t] = "ended"]
            /\ connected' = connected \ {t}
            /\ listening' = listening \ {t}
            /\ UNCHANGED openStreams
       ELSE /\ request' = [request EXCEPT ![t] = "greeting"]
            /\ openStreams' = openStreams \cup {t}
            /\ UNCHANGED <<connected, listening>>
  /\ UNCHANGED <<stage, exitCode, scheduler, aborted>>

\* The first event is written and the handler parks until an abort.  After an
\* abort that came during the write there is none to wait for: it never returns.
Greeted(t) ==
  /\ stage # "exited"
  /\ request[t] = "greeting"
  /\ request' = [request EXCEPT ![t] = IF t \in aborted THEN "stuck"
                                       ELSE "parked"]
  /\ UNCHANGED <<stage, exitCode, scheduler, connected, aborted, listening,
                 openStreams>>

\* The registry entries stay.
AbortUnregistered_M(ts) ==
  LET setUp == {t \in ts : request[t] \in {"greeting", "parked"}}
      woken == {t \in ts : request[t] = "parked"}
  IN  /\ aborted' = aborted \cup ts
      /\ openStreams' = openStreams
      /\ listening' = listening \ setUp
      /\ request' =
           [t \in Tabs |-> IF t \in woken THEN "ended" ELSE request[t]]

\* The listeners stay on the emitter.
AbortSubscribed_M(ts) ==
  LET setUp == {t \in ts : request[t] \in {"greeting", "parked"}}
      woken == {t \in ts : request[t] = "parked"}
  IN  /\ aborted' = aborted \cup ts
      /\ openStreams' = openStreams \ setUp
      /\ listening' = listening
      /\ request' =
           [t \in Tabs |-> IF t \in woken THEN "ended" ELSE request[t]]

\* stream.abort() on the streams of the tabs ts: those that are set up clean up,
\* and a parked handler returns.
Abort(ts) ==
  LET setUp == {t \in ts : request[t] \in {"greeting", "parked"}}
      woken == {t \in ts : request[t] = "parked"}
  IN  /\ aborted' = aborted \cup ts
      /\ openStreams' = openStreams \ setUp
      /\ listening' = listening \ setUp
      /\ request' =
           [t \in Tabs |-> IF t \in woken THEN "ended" ELSE request[t]]

\* The client goes away.
Disconnect(t) ==
  /\ stage # "exited"
  /\ t \in connected
  /\ connected' = connected \ {t}
  /\ UNCHANGED <<stage, exitCode, scheduler, request, aborted, listening,
                 openStreams>>

\* Hono notices that the client of a stream is gone.
ClientAborts(t) ==
  /\ stage # "exited"
  /\ request[t] \in {"subscribing", "greeting", "parked"}
  /\ t \notin connected
  /\ t \notin aborted
  /\ Abort({t})
  /\ UNCHANGED <<stage, exitCode, scheduler, connected>>

-----------------------------------------------------------------------------
(* createShutdownHandler, shutdownApp and closeApiServer.                   *)

\* The first SIGTERM or SIGINT: the teardown begins with scheduler.stop().  A
\* second one changes nothing.
Signal ==
  /\ stage = "up"
  /\ stage' = "stopping"
  /\ awaited' = job
  /\ UNCHANGED <<exitCode, reading, job, streams>>

\* The registry's streams are ended, then server.close() is called.
CloseApiServer ==
  /\ stage = "stopping"
  /\ ~awaited
  /\ stage' = "closing"
  /\ Abort(openStreams)
  /\ connected' = connected \ {t \in openStreams : request[t] = "parked"}
  /\ UNCHANGED <<exitCode, scheduler>>

\* close() is not awaited.
ServerClosed_M ==
  /\ stage = "closing"
  /\ stage' = "releasing"
  /\ UNCHANGED <<exitCode, scheduler, streams>>

\* close() calls back once no connection is in use, and the pool is closed.
ServerClosed ==
  /\ stage = "closing"
  /\ connected = {}
  /\ stage' = "releasing"
  /\ UNCHANGED <<exitCode, scheduler, streams>>

PoolClosed ==
  /\ stage = "releasing"
  /\ \E code \in {"success", "failure"} : Exit(code)
  /\ UNCHANGED <<scheduler, streams>>

\* The backstop covers only the closing of the server.
TimesOut_M ==
  /\ stage \in {"stopping", "releasing"}
  /\ Exit("failure")
  /\ UNCHANGED <<scheduler, streams>>

\* The teardown has taken too long.
TimesOut ==
  /\ stage \in TearingDown
  /\ Exit("failure")
  /\ UNCHANGED <<scheduler, streams>>

\* The process is gone.
Exited ==
  /\ stage = "exited"
  /\ UNCHANGED vars

Next ==
  \/ Migrated \/ Reconciled \/ StartupFails
  \/ Tick \/ ReadResolves \/ JobSettles
  \/ Signal \/ CloseApiServer \/ ServerClosed \/ PoolClosed \/ TimesOut
  \/ Exited
  \/ \E t \in Tabs :
       \/ Connect(t) \/ Refuse(t) \/ Subscribe(t) \/ Subscribed(t)
       \/ Greeted(t) \/ Disconnect(t) \/ ClientAborts(t)

\* A timeout fires, a job and a query settle, a resolved promise is continued,
\* and a broken connection is noticed.  Nobody has to send a signal, and no
\* client has to go away.
Fairness ==
  /\ WF_vars(ReadResolves)
  /\ WF_vars(JobSettles)
  /\ WF_vars(CloseApiServer)
  /\ WF_vars(ServerClosed)
  /\ WF_vars(PoolClosed)
  /\ WF_vars(TimesOut)
  /\ \A t \in Tabs :
       /\ WF_vars(Refuse(t) \/ Subscribe(t))
       /\ WF_vars(Subscribed(t))
       /\ WF_vars(Greeted(t))
       /\ WF_vars(ClientAborts(t))

Spec == Init /\ [][Next]_vars /\ Fairness

-----------------------------------------------------------------------------
(* Properties.                                                              *)

\* The shape of the state, and what each stage of a request goes with.
TypeOK ==
  /\ stage \in Starting \cup {"up"} \cup TearingDown \cup {"exited"}
  /\ exitCode \in {"none", "success", "failure", "killed"}
  /\ exitCode = "none" <=> stage # "exited"
  /\ reading \in BOOLEAN /\ job \in BOOLEAN /\ awaited \in BOOLEAN
  /\ awaited => job
  /\ request \in [Tabs -> {"none", "auth", "subscribing", "greeting", "parked",
                           "stuck", "ended"}]
  /\ \A t \in connected : request[t] \notin {"none", "ended"}
  /\ aborted \subseteq Tabs
  /\ listening \subseteq Tabs
  /\ \A t \in openStreams : request[t] \in {"greeting", "parked"}

\* Whatever order subscribing, the first event, a disconnect and a shutdown come
\* in, a stream that is set up and not aborted is in the registry, so closeAll()
\* reaches it, and a listener on the emitter belongs to such a stream or to one
\* being set up: publish() never writes to a stream that has ended.
ListenersAreReachable ==
  /\ openStreams =
       {t \in Tabs : request[t] \in {"greeting", "parked"} /\ t \notin aborted}
  /\ listening = openStreams \cup {t \in Tabs : request[t] = "subscribing"}

\* A client that goes away is unsubscribed, also when it went before subscribe()
\* had resolved (live.ts, the aborted flag).
LeftTabsAreReleased ==
  \A t \in Tabs : t \notin connected ~> t \notin listening \/ stage = "exited"

\* A signal ends in an exit, whatever job runs and whichever stream holds its
\* connection (shutdown.ts, the timeout).
SignalIsAnswered == stage = "stopping" ~> stage = "exited"

\* The pool is closed only when no client waits for an answer that needs it, and
\* the jobs stop() found are done (main.ts, shutdownApp).
PoolOutlivesItsUsers ==
  stage = "releasing" \/ exitCode = "success" => connected = {} /\ ~awaited
=============================================================================
