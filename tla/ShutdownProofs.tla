--------------------------- MODULE ShutdownProofs ---------------------------
(* The bookkeeping of the live streams, and what the pool may be closed on,   *)
(* for any number of tabs.                                                    *)
EXTENDS Shutdown, TLAPS

\* ListenersAreReachable is inductive once the types it needs are added.
StreamInv ==
  /\ DOMAIN request = Tabs
  /\ request = [t \in Tabs |-> request[t]]
  /\ connected \subseteq Tabs
  /\ listening \subseteq Tabs
  /\ ListenersAreReachable

\* Aborting any set of streams keeps the registry and the listeners in step.
LEMMA AbortKeepsStreams ==
  ASSUME StreamInv, NEW ts \in SUBSET Tabs, Abort(ts),
         connected' \subseteq Tabs,
         \A t \in ts : request[t] # "subscribing"
  PROVE  StreamInv'
  BY DEF StreamInv, ListenersAreReachable, Abort

\* Hono aborts a stream whose handler still subscribes: only the flag is set.
LEMMA EarlyAbortKeepsStreams ==
  ASSUME StreamInv, NEW t \in Tabs, request[t] = "subscribing", Abort({t}),
         connected' = connected
  PROVE  StreamInv'
  BY DEF StreamInv, ListenersAreReachable, Abort

LEMMA StreamStep == StreamInv /\ [Next]_vars => StreamInv'
  <1> SUFFICES ASSUME StreamInv, [Next]_vars PROVE StreamInv'
    OBVIOUS
  <1>1. CASE \/ Migrated \/ Reconciled \/ StartupFails
             \/ Tick \/ ReadResolves \/ JobSettles
             \/ Signal \/ ServerClosed \/ PoolClosed \/ TimesOut
             \/ Exited \/ UNCHANGED vars
    <2>1. UNCHANGED streams
      BY <1>1 DEF Migrated, Reconciled, StartupFails, Tick, ReadResolves,
                  JobSettles, Signal, ServerClosed, PoolClosed, TimesOut, Exited,
                  vars, streams
    <2> QED
      BY <2>1 DEF StreamInv, ListenersAreReachable, streams
  <1>2. CASE CloseApiServer
    <2>1. /\ Abort(openStreams)
          /\ connected' \subseteq Tabs
          /\ openStreams \in SUBSET Tabs
          /\ \A t \in openStreams : request[t] # "subscribing"
      BY <1>2 DEF CloseApiServer, StreamInv, ListenersAreReachable
    <2> QED
      BY <2>1, AbortKeepsStreams
  <1>3. ASSUME NEW t \in Tabs, ClientAborts(t) PROVE StreamInv'
    <2>1. /\ Abort({t})
          /\ connected' = connected
          /\ connected' \subseteq Tabs
          /\ {t} \in SUBSET Tabs
      BY <1>3 DEF ClientAborts, StreamInv
    <2>2. CASE request[t] = "subscribing"
      BY <2>1, <2>2, EarlyAbortKeepsStreams
    <2>3. CASE request[t] # "subscribing"
      BY <2>1, <2>3, AbortKeepsStreams
    <2> QED
      BY <2>2, <2>3
  <1>4. ASSUME NEW t \in Tabs, Connect(t) PROVE StreamInv'
    BY <1>4 DEF Connect, StreamInv, ListenersAreReachable
  <1>5. ASSUME NEW t \in Tabs, Refuse(t) PROVE StreamInv'
    BY <1>5 DEF Refuse, StreamInv, ListenersAreReachable
  <1>6. ASSUME NEW t \in Tabs, Subscribe(t) PROVE StreamInv'
    BY <1>6 DEF Subscribe, StreamInv, ListenersAreReachable
  <1>7. ASSUME NEW t \in Tabs, Subscribed(t) PROVE StreamInv'
    BY <1>7 DEF Subscribed, StreamInv, ListenersAreReachable
  <1>8. ASSUME NEW t \in Tabs, Greeted(t) PROVE StreamInv'
    BY <1>8 DEF Greeted, StreamInv, ListenersAreReachable
  <1>9. ASSUME NEW t \in Tabs, Disconnect(t) PROVE StreamInv'
    BY <1>9 DEF Disconnect, StreamInv, ListenersAreReachable
  <1> QED
    BY <1>1, <1>2, <1>3, <1>4, <1>5, <1>6, <1>7, <1>8, <1>9 DEF Next

\* In every reachable state the registry holds exactly the streams that are set
\* up and not aborted, and the emitter exactly their listeners and those of the
\* streams being set up.
THEOREM ListenersReachable == Spec => []ListenersAreReachable
  <1>1. Init => StreamInv
    BY DEF Init, StreamInv, ListenersAreReachable
  <1>2. StreamInv => ListenersAreReachable
    BY DEF StreamInv
  <1> QED
    BY <1>1, <1>2, StreamStep, PTL DEF Spec

-----------------------------------------------------------------------------
(* The teardown.                                                             *)

\* What the steps of startup, teardown and scheduler do to the rest.
LEMMA StreamsUntouched ==
  ASSUME TypeOK, UNCHANGED streams
  PROVE  /\ request' = request /\ connected' = connected /\ aborted' = aborted
         /\ listening' = listening /\ openStreams' = openStreams
  BY DEF streams

\* Every step keeps the shape of the state.
LEMMA ShapeStep == TypeOK /\ StreamInv /\ [Next]_vars => TypeOK'
  <1> SUFFICES ASSUME TypeOK, StreamInv, [Next]_vars PROVE TypeOK'
    OBVIOUS
  <1>1. CASE \/ Migrated \/ Reconciled \/ StartupFails
             \/ Signal \/ ServerClosed \/ PoolClosed \/ TimesOut
    <2>1. UNCHANGED streams
      BY <1>1 DEF Migrated, Reconciled, StartupFails, Signal, ServerClosed, PoolClosed,
                  TimesOut
    <2>2. /\ reading' \in BOOLEAN /\ job' \in BOOLEAN /\ awaited' \in BOOLEAN
          /\ awaited' => job'
      BY <1>1 DEF Migrated, Reconciled, StartupFails, Signal, ServerClosed, PoolClosed,
                  TimesOut, scheduler, TypeOK
    <2>3. /\ stage' \in Starting \cup {"up"} \cup TearingDown \cup {"exited"}
          /\ exitCode' \in {"none", "success", "failure", "killed"}
          /\ exitCode' = "none" <=> stage' # "exited"
      BY <1>1 DEF Migrated, Reconciled, StartupFails, Signal, ServerClosed, PoolClosed,
                  TimesOut, Exit, Starting, TearingDown, TypeOK
    <2> QED
      BY <2>1, <2>2, <2>3, StreamsUntouched DEF TypeOK
  <1>2. CASE Tick \/ ReadResolves \/ JobSettles
    <2>1. UNCHANGED streams /\ UNCHANGED <<stage, exitCode>>
      BY <1>2 DEF Tick, ReadResolves, JobSettles
    <2>2. /\ reading' \in BOOLEAN /\ job' \in BOOLEAN /\ awaited' \in BOOLEAN
          /\ awaited' => job'
      <3>1. CASE Tick
        BY <3>1 DEF Tick, TypeOK
      <3>2. CASE JobSettles
        BY <3>2 DEF JobSettles, TypeOK
      <3>3. CASE ReadResolves
        <4>1. PICK due \in BOOLEAN : job' = (job \/ due)
          BY <3>3 DEF ReadResolves
        <4>2. job' \in BOOLEAN
          BY <4>1, Zenon
        <4>3. job => job'
          BY <4>1, Zenon
        <4>4. reading' \in BOOLEAN /\ awaited' = awaited
          BY <3>3 DEF ReadResolves
        <4> QED
          BY <4>2, <4>3, <4>4, Zenon DEF TypeOK
      <3> QED
        BY <1>2, <3>1, <3>2, <3>3
    <2> QED
      BY <2>1, <2>2, StreamsUntouched DEF TypeOK
  <1>3. CASE CloseApiServer
    <2> DEFINE woken == {t \in openStreams : request[t] = "parked"}
    <2>1. /\ openStreams \subseteq Tabs
          /\ request' = [t \in Tabs |-> IF t \in woken THEN "ended" ELSE request[t]]
          /\ openStreams' = {}
          /\ aborted' \subseteq Tabs
          /\ listening' \subseteq Tabs
      BY <1>3 DEF CloseApiServer, Abort, TypeOK, StreamInv, ListenersAreReachable
    <2>2. connected' = connected \ woken
      BY <1>3 DEF CloseApiServer
    <2>3. connected \subseteq Tabs
      BY DEF StreamInv
    <2> HIDE DEF woken
    <2>4. \A t \in connected' : request'[t] \notin {"none", "ended"}
      BY <2>1, <2>2, <2>3 DEF TypeOK
    <2>5. request' \in [Tabs -> {"none", "auth", "subscribing", "greeting", "parked",
                                 "stuck", "ended"}]
      BY <2>1 DEF TypeOK
    <2> QED
      BY <1>3, <2>1, <2>4, <2>5 DEF CloseApiServer, TypeOK, scheduler, Starting, TearingDown
  <1>4. CASE Exited \/ UNCHANGED vars
    BY <1>4 DEF Exited, vars, TypeOK
  <1>5. ASSUME NEW t \in Tabs,
               Connect(t) \/ Refuse(t) \/ Subscribe(t) \/ Subscribed(t) \/ Greeted(t)
                 \/ Disconnect(t) \/ ClientAborts(t)
        PROVE  TypeOK'
    <2>1. UNCHANGED <<stage, exitCode, reading, job, awaited>>
      BY <1>5 DEF Connect, Refuse, Subscribe, Subscribed, Greeted, Disconnect, ClientAborts,
                  scheduler
    <2>2. /\ request' \in [Tabs -> {"none", "auth", "subscribing", "greeting", "parked",
                                    "stuck", "ended"}]
          /\ aborted' \subseteq Tabs
          /\ \A u \in connected' : request'[u] \notin {"none", "ended"}
      <3>1. connected \subseteq Tabs
        BY DEF StreamInv
      <3>2. CASE Connect(t)
        BY <3>1, <3>2 DEF Connect, TypeOK
      <3>3. CASE Refuse(t)
        BY <3>1, <3>3 DEF Refuse, TypeOK
      <3>4. CASE Subscribe(t)
        BY <3>1, <3>4 DEF Subscribe, TypeOK
      <3>5. CASE Subscribed(t)
        BY <3>1, <3>5 DEF Subscribed, TypeOK
      <3>6. CASE Greeted(t)
        BY <3>1, <3>6 DEF Greeted, TypeOK
      <3>7. CASE Disconnect(t)
        BY <3>1, <3>7 DEF Disconnect, TypeOK
      <3>8. CASE ClientAborts(t)
        BY <3>1, <3>8 DEF ClientAborts, Abort, TypeOK
      <3> QED
        BY <1>5, <3>2, <3>3, <3>4, <3>5, <3>6, <3>7, <3>8
    <2>3. StreamInv'
      BY StreamStep
    <2> QED
      BY <2>1, <2>2, <2>3 DEF TypeOK, StreamInv, ListenersAreReachable
  <1> QED
    BY <1>1, <1>2, <1>3, <1>4, <1>5 DEF Next

\* Nobody is waited for once the server closes, and nobody is connected once it
\* has closed.
TeardownInv ==
  /\ stage \in {"closing", "releasing"} \/ exitCode = "success" => ~awaited
  /\ stage = "releasing" \/ exitCode = "success" => connected = {}

\* Every step keeps that: no connection is accepted after close(), and only the
\* first signal makes stop() wait.
LEMMA TeardownStep == TypeOK /\ TeardownInv /\ [Next]_vars => TeardownInv'
  <1> SUFFICES ASSUME TypeOK, TeardownInv, [Next]_vars PROVE TeardownInv'
    OBVIOUS
  <1>1. CASE \/ Migrated \/ Reconciled \/ StartupFails \/ Tick \/ ReadResolves \/ JobSettles
             \/ Signal \/ CloseApiServer \/ ServerClosed \/ PoolClosed \/ TimesOut
             \/ UNCHANGED vars
    BY <1>1 DEF Migrated, Reconciled, StartupFails, Tick, ReadResolves, JobSettles, Signal,
       CloseApiServer, ServerClosed, PoolClosed, TimesOut, Exit, vars, streams, scheduler,
       Starting, TearingDown, TeardownInv, TypeOK
  <1>2. CASE Exited
    BY <1>2 DEF Exited, vars, TeardownInv
  <1>3. ASSUME NEW t \in Tabs,
               Connect(t) \/ Refuse(t) \/ Subscribe(t) \/ Subscribed(t) \/ Greeted(t)
                 \/ Disconnect(t) \/ ClientAborts(t)
        PROVE  TeardownInv'
    <2>1. UNCHANGED <<stage, exitCode, awaited>>
      BY <1>3 DEF Connect, Refuse, Subscribe, Subscribed, Greeted, Disconnect, ClientAborts,
                  scheduler
    <2>2. stage # "exited"
      BY <1>3 DEF Connect, Refuse, Subscribe, Subscribed, Greeted, Disconnect, ClientAborts
    <2>3. connected' \subseteq connected \/ stage \in {"up", "stopping"}
      BY <1>3 DEF Connect, Refuse, Subscribe, Subscribed, Greeted, Disconnect, ClientAborts
    <2> QED
      BY <2>1, <2>2, <2>3 DEF TeardownInv, TypeOK
  <1> QED
    BY <1>1, <1>2, <1>3 DEF Next

\* The process starts with nobody connected and nothing to wait for.
LEMMA StartHolds == Init => TypeOK /\ StreamInv /\ TeardownInv
  BY DEF Init, TypeOK, StreamInv, ListenersAreReachable, TeardownInv, Starting

\* Every state has the shape of TypeOK: a client waits only on a request the server
\* still works on, and the registry holds streams that are set up (main.ts,
\* live.ts).
THEOREM ShapeHolds == Spec => []TypeOK
  BY StartHolds, ShapeStep, StreamStep, PTL DEF Spec

\* The pool is closed only when no client waits for an answer and the jobs that
\* stop() found are done, for any number of tabs that come and go during the
\* teardown (main.ts, shutdownApp).
THEOREM PoolIsClosedLast == Spec => []PoolOutlivesItsUsers
  <1>1. TeardownInv => PoolOutlivesItsUsers
    BY DEF TeardownInv, PoolOutlivesItsUsers
  <1> QED
    BY <1>1, StartHolds, ShapeHolds, TeardownStep, PTL DEF Spec
=============================================================================
