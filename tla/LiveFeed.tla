------------------------------ MODULE LiveFeed ------------------------------
(***************************************************************************)
(* The live screen of one browser tab and the stream that feeds it: the    *)
(* list of streams a poll publishes (sync/snapshot-store.ts, applier.ts),  *)
(* the SSE handler (api/routes/live.ts, createLiveSubscriber in api/app.ts)*)
(* and the hook behind the screen (apps/web/src/api/useLiveSessions.ts,    *)
(* routes/live.tsx), with a browser's EventSource between them: it         *)
(* connects again when a connection breaks or ends, and gives up when the  *)
(* answer is not a 200.                                                    *)
(*                                                                         *)
(* The server may be restarted, a connection may break, the session may    *)
(* expire, and the visitor may leave the screen, come back and sign in     *)
(* again.  How streams are released and shut down is Shutdown.tla.         *)
(*                                                                         *)
(* A definition whose name ends in _M is the one after it with a plausible *)
(* bug put in; it is used only to see that a property notices the bug.     *)
(***************************************************************************)
EXTENDS Naturals, Sequences

CONSTANTS
  Probes,        \* bound: the probes of /api/auth/me in flight at once
  MaxPublishes,  \* bound: the lists one server process publishes
  MaxFaults,     \* bound: broken connections, rejected queries and restarts
  MaxMounts      \* bound: how often the screen is opened

ASSUME LiveAssumption ==
  /\ MaxPublishes \in Nat
  /\ MaxFaults \in Nat
  /\ MaxMounts \in Nat

VARIABLES
  up,         \* the server process runs
  live,       \* SnapshotStore's `live`: how many lists were published so far
  handler,    \* how far the handler of the tab's stream has come
  first,      \* the list it has read for its first event
  channel,    \* what is under way from the handler to the tab
  source,     \* the EventSource
  shown,      \* the hook's `sessions`
  connected,  \* the hook's `connected`
  mounted,    \* the live screen is open
  status,     \* SessionProvider's status
  session,    \* whether the session is live
  probe,      \* the probes in flight
  faults,     \* faults so far, counted only to bound the model
  mounts,     \* mounts so far, counted only to bound the model
  seen,       \* history: the lists this stream has brought to the tab
  stranded    \* history: EventSource gave up, and the last probe brought no 401

vars == <<up, live, handler, first, channel, source, shown, connected, mounted,
          status, session, probe, faults, mounts, seen, stranded>>

stream == <<handler, first, channel>>
screen == <<shown, connected, mounted>>
bounds == <<faults, mounts>>

List == 0 .. MaxPublishes

ProbeStages == {"none", "sent", "ok", "unauthorized", "failed"}

NoProbe == [stage |-> "none", cancelled |-> FALSE]

\* The first line of a stream, the 200 of its response, and its end.
Opened == [type |-> "open"]
Ended == [type |-> "end"]
Sent(list) == [type |-> "sessions", list |-> list]

Messages == {Opened, Ended} \cup {Sent(l) : l \in List}

\* The listener is attached once the first event is written.
Listening_M == handler = "parked"

\* The handler's listener is on the emitter.
Listening == handler \in {"subscribed", "loaded", "parked"}

\* The lists under way.
UnderWay == {channel[i].list : i \in {j \in 1 .. Len(channel) :
                                        channel[j].type = "sessions"}}

Init ==
  /\ up = TRUE
  /\ live = 0
  /\ handler = "none"
  /\ first = 0
  /\ channel = <<>>
  /\ source = "closed"
  /\ shown = 0
  /\ connected = FALSE
  /\ mounted = FALSE
  /\ status = "authenticated"
  /\ session = TRUE
  /\ probe = [p \in Probes |-> NoProbe]
  /\ faults = 0
  /\ mounts = 0
  /\ seen = {}
  /\ stranded = FALSE

-----------------------------------------------------------------------------
(* The server.                                                              *)

\* A poll ends with publish: the list is kept and handed to every listener.  The
\* next poll is an interval away, so it does not overtake a handler between
\* reading the list for its first event and writing it, which are two turns of
\* the same event loop; one publish may.
Publish ==
  /\ up
  /\ live < MaxPublishes
  /\ handler = "loaded" => first = live
  /\ live' = live + 1
  /\ channel' = IF Listening THEN Append(channel, Sent(live + 1)) ELSE channel
  /\ UNCHANGED <<up, handler, first, source, screen, status, session, probe,
                 bounds, seen, stranded>>

\* requireAdmin lets the handshake through, and the handler subscribes.
Accept ==
  /\ up
  /\ source = "handshake"
  /\ session
  /\ handler' = "subscribed"
  /\ channel' = <<Opened>>
  /\ source' = "answered"
  /\ seen' = {}
  /\ UNCHANGED <<up, live, first, screen, status, session, probe, bounds,
                 stranded>>

\* The handler reads the list for its first event.
LoadCurrent ==
  /\ handler = "subscribed"
  /\ handler' = "loaded"
  /\ first' = live
  /\ UNCHANGED <<up, live, channel, source, screen, status, session, probe,
                 bounds, seen, stranded>>

\* It parks without a first event, and waits for the next poll.
WriteFirst_M ==
  /\ handler = "loaded"
  /\ handler' = "parked"
  /\ UNCHANGED <<up, live, first, channel, source, screen, status, session, probe,
                 bounds, seen, stranded>>

\* It writes the event, and parks.
WriteFirst ==
  /\ handler = "loaded"
  /\ handler' = "parked"
  /\ channel' = Append(channel, Sent(first))
  /\ UNCHANGED <<up, live, first, source, screen, status, session, probe,
                 bounds, seen, stranded>>

\* The process goes down: a graceful shutdown ends the stream after what was
\* written to it.
Stop ==
  /\ up
  /\ faults < MaxFaults
  /\ up' = FALSE
  /\ faults' = faults + 1
  /\ handler' = "none"
  /\ channel' = IF Listening THEN Append(channel, Ended) ELSE channel
  /\ UNCHANGED <<live, first, source, screen, status, session, probe, mounts,
                 seen, stranded>>

\* A new process has published nothing.
Start ==
  /\ ~up
  /\ up' = TRUE
  /\ live' = 0
  /\ UNCHANGED <<stream, source, screen, status, session, probe, bounds, seen,
                 stranded>>

\* The session expires, or is revoked.
SessionEnds ==
  /\ session
  /\ session' = FALSE
  /\ UNCHANGED <<up, live, stream, source, screen, status, probe, bounds, seen,
                 stranded>>

-----------------------------------------------------------------------------
(* The hook.                                                                *)

\* No probe.
HandleErrorQuietly_M(p) ==
  /\ connected' = FALSE
  /\ probe' = probe
  /\ UNCHANGED <<shown, mounted>>

\* `connected` is left as it was.
HandleErrorUnmarked_M(p) ==
  /\ probe[p] = NoProbe
  /\ probe' = [probe EXCEPT ![p].stage = "sent"]
  /\ UNCHANGED <<shown, mounted, connected>>

\* handleError: the list is left alone, but no longer called live, and a probe
\* asks whether the session still holds.
HandleError(p) ==
  /\ probe[p] = NoProbe
  /\ connected' = FALSE
  /\ probe' = [probe EXCEPT ![p].stage = "sent"]
  /\ UNCHANGED <<shown, mounted>>

\* The screen is opened: a new hook, a new EventSource.
Mount ==
  /\ ~mounted
  /\ status = "authenticated"
  /\ mounts < MaxMounts
  /\ mounts' = mounts + 1
  /\ mounted' = TRUE
  /\ shown' = 0
  /\ connected' = FALSE
  /\ source' = "handshake"
  /\ stranded' = FALSE
  /\ UNCHANGED <<up, live, stream, status, session, probe, faults, seen>>

\* The answers of this hook's probes are still acted on.
Cancelled_M == probe

\* The effect's cleanup sets `cancelled` for the probes of this hook.
Cancelled ==
  [p \in Probes |-> IF probe[p] = NoProbe THEN NoProbe
                    ELSE [probe[p] EXCEPT !.cancelled = TRUE]]

\* The gate leaves the screen where it is.
Unmount_M ==
  /\ source' = "closed"
  /\ connected' = FALSE
  /\ handler' = "none"
  /\ channel' = <<>>
  /\ UNCHANGED <<shown, first, mounted>>

\* The rest of the cleanup: the EventSource is closed, so the handler's client is
\* gone.
Unmount ==
  /\ mounted' = FALSE
  /\ source' = "closed"
  /\ connected' = FALSE
  /\ handler' = "none"
  /\ channel' = <<>>
  /\ UNCHANGED <<shown, first>>

\* The visitor goes to another screen.
Leave ==
  /\ mounted
  /\ Unmount
  /\ probe' = Cancelled
  /\ UNCHANGED <<up, live, status, session, bounds, seen, stranded>>

\* The visitor signs in again.
SignIn ==
  /\ status = "anonymous"
  /\ up
  /\ status' = "authenticated"
  /\ session' = TRUE
  /\ UNCHANGED <<up, live, stream, source, screen, probe, bounds, seen,
                 stranded>>

\* handleOpen.
ReceiveOpen ==
  /\ channel # <<>>
  /\ Head(channel) = Opened
  /\ channel' = Tail(channel)
  /\ source' = "open"
  /\ connected' = TRUE
  /\ UNCHANGED <<up, live, handler, first, shown, mounted, status, session,
                 probe, bounds, seen, stranded>>

\* handleSessions.
ReceiveSessions ==
  /\ channel # <<>>
  /\ Head(channel).type = "sessions"
  /\ channel' = Tail(channel)
  /\ shown' = Head(channel).list
  /\ connected' = TRUE
  /\ seen' = seen \cup {Head(channel).list}
  /\ UNCHANGED <<up, live, handler, first, source, mounted, status, session,
                 probe, bounds, stranded>>

\* The stream ends: an error event, and EventSource will connect again.
ReceiveEnd(p) ==
  /\ channel # <<>>
  /\ Head(channel) = Ended
  /\ channel' = <<>>
  /\ source' = "retrying"
  /\ HandleError(p)
  /\ UNCHANGED <<up, live, handler, first, status, session, bounds, seen,
                 stranded>>

\* The connection breaks, which the handler notices as an abort.
Break(p) ==
  /\ source \in {"answered", "open"}
  /\ faults < MaxFaults
  /\ faults' = faults + 1
  /\ handler' = "none"
  /\ channel' = <<>>
  /\ source' = "retrying"
  /\ HandleError(p)
  /\ UNCHANGED <<up, live, first, status, session, mounts, seen, stranded>>

\* Nobody listens at the other end: an error event, and another try.
Unreachable(p) ==
  /\ source = "handshake"
  /\ ~up
  /\ source' = "retrying"
  /\ HandleError(p)
  /\ UNCHANGED <<up, live, stream, status, session, bounds, seen, stranded>>

\* EventSource's reconnection time has passed.
Retry ==
  /\ source = "retrying"
  /\ source' = "handshake"
  /\ UNCHANGED <<up, live, stream, screen, status, session, probe, bounds, seen,
                 stranded>>

\* The handshake is answered 401: an error event, and EventSource gives up.
Refuse(p) ==
  /\ up
  /\ source = "handshake"
  /\ ~session
  /\ source' = "closed"
  /\ HandleError(p)
  /\ UNCHANGED <<up, live, stream, status, session, bounds, seen, stranded>>

\* The handshake is answered 500, because requireAdmin's query rejects: an error
\* event, and EventSource gives up.
HandshakeFails(p) ==
  /\ up
  /\ source = "handshake"
  /\ faults < MaxFaults
  /\ faults' = faults + 1
  /\ source' = "closed"
  /\ HandleError(p)
  /\ UNCHANGED <<up, live, stream, status, session, mounts, seen, stranded>>

\* requireAdmin lets a probe through, or answers 401.
AnswerProbe(p) ==
  /\ up
  /\ probe[p].stage = "sent"
  /\ probe' = [probe EXCEPT ![p].stage = IF session THEN "ok"
                                         ELSE "unauthorized"]
  /\ UNCHANGED <<up, live, stream, source, screen, status, session, bounds,
                 seen, stranded>>

\* requireAdmin's query rejects, and the probe is answered 500.
ProbeFails(p) ==
  /\ up
  /\ probe[p].stage = "sent"
  /\ faults < MaxFaults
  /\ faults' = faults + 1
  /\ probe' = [probe EXCEPT ![p].stage = "failed"]
  /\ UNCHANGED <<up, live, stream, source, screen, status, session, mounts,
                 seen, stranded>>

\* A probe ends and has told nothing.  When EventSource has given up and no other
\* probe of this hook is in flight, nothing will happen any more.
Untold(p) ==
  /\ probe' = [probe EXCEPT ![p] = NoProbe]
  /\ stranded' =
       \/ stranded
       \/ /\ source = "closed"
          /\ ~probe[p].cancelled
          /\ \A q \in Probes \ {p} : probe[q] = NoProbe \/ probe[q].cancelled

\* The answer arrives.  A 401 that is still wanted reaches notifyUnauthorized,
\* and the gate takes the screen away; every other answer is swallowed.
ReceiveProbe(p) ==
  /\ probe[p].stage \in {"ok", "unauthorized", "failed"}
  /\ IF probe[p].stage = "unauthorized" /\ ~probe[p].cancelled
       THEN /\ status' = "anonymous"
            /\ IF mounted
                 THEN /\ Unmount
                      /\ probe' = [Cancelled EXCEPT ![p] = NoProbe]
                 ELSE /\ probe' = [probe EXCEPT ![p] = NoProbe]
                      /\ UNCHANGED <<stream, source, screen>>
            /\ UNCHANGED stranded
       ELSE /\ Untold(p)
            /\ UNCHANGED <<stream, source, screen, status>>
  /\ UNCHANGED <<up, live, session, bounds, seen>>

\* Nobody listens where the probe is sent, and the hook swallows the rejection.
LoseProbe(p) ==
  /\ ~up
  /\ probe[p].stage = "sent"
  /\ Untold(p)
  /\ UNCHANGED <<up, live, stream, source, screen, status, session, bounds,
                 seen>>

\* The connection of a probe breaks, before its answer or with it.
BreakProbe(p) ==
  /\ probe[p] # NoProbe
  /\ faults < MaxFaults
  /\ faults' = faults + 1
  /\ Untold(p)
  /\ UNCHANGED <<up, live, stream, source, screen, status, session, mounts,
                 seen>>

Next ==
  \/ Publish \/ Accept \/ LoadCurrent \/ WriteFirst \/ Stop \/ Start
  \/ SessionEnds
  \/ Mount \/ Leave \/ SignIn
  \/ ReceiveOpen \/ ReceiveSessions \/ Retry
  \/ \E p \in Probes :
       \/ ReceiveEnd(p) \/ Break(p) \/ Unreachable(p)
       \/ Refuse(p) \/ HandshakeFails(p)
       \/ AnswerProbe(p) \/ ProbeFails(p) \/ ReceiveProbe(p)
       \/ LoseProbe(p) \/ BreakProbe(p)

\* A server that is down is started again (docker compose, restart policy), it
\* answers what reaches it, messages arrive, and EventSource retries.  Nobody has
\* to open the screen, leave it or sign in, and polls need not come.
Fairness ==
  /\ WF_vars(Start)
  /\ WF_vars(LoadCurrent)
  /\ WF_vars(WriteFirst)
  /\ WF_vars(ReceiveOpen)
  /\ WF_vars(ReceiveSessions)
  /\ WF_vars(Retry)
  /\ WF_vars(Accept \/ \E p \in Probes : Refuse(p))
  /\ WF_vars(\E p \in Probes : Unreachable(p))
  /\ WF_vars(\E p \in Probes : ReceiveEnd(p))
  /\ \A p \in Probes :
       /\ WF_vars(AnswerProbe(p) \/ LoseProbe(p))
       /\ WF_vars(ReceiveProbe(p))

Spec == Init /\ [][Next]_vars /\ Fairness

-----------------------------------------------------------------------------
(* Properties.                                                              *)

TypeOK ==
  /\ up \in BOOLEAN /\ session \in BOOLEAN /\ stranded \in BOOLEAN
  /\ connected \in BOOLEAN /\ mounted \in BOOLEAN
  /\ live \in List
  /\ handler \in {"none", "subscribed", "loaded", "parked"}
  /\ first \in List
  /\ channel \in Seq(Messages)
  /\ source \in {"handshake", "answered", "open", "retrying", "closed"}
  /\ shown \in List
  /\ status \in {"authenticated", "anonymous"}
  /\ probe \in [Probes -> [stage : ProbeStages, cancelled : BOOLEAN]]
  /\ faults \in 0 .. MaxFaults
  /\ mounts \in 0 .. MaxMounts
  /\ seen \subseteq List
  /\ mounted => status = "authenticated"

\* No list is lost between the first event and the listener: once a stream has
\* its first event, the latest list has been shown or is under way to the tab
\* (live.ts, which subscribes before it reads the list).
NoListIsSkipped == handler = "parked" => live \in seen \cup UnderWay

\* A tab that has caught up shows the latest list, or the one before it: a first
\* event that was overtaken by a publish is put right by the next one.
LagsOnePublish ==
  handler = "parked" /\ channel = <<>> => live \in {shown, shown + 1}

\* The screen says "Live" only while its stream is up or the end of the stream is
\* under way: a frozen list is not called live (routes/live.tsx).
StaleListIsMarked ==
  connected =>
    \/ Listening
    \/ channel # <<>> /\ channel[Len(channel)] = Ended

\* The probes of the hook sign out nobody whose session is live: not even a 401
\* that arrives after the visitor left, signed in again and came back
\* (useLiveSessions.ts, `cancelled`).
NoFalseSignOut ==
  [][status = "authenticated" /\ status' = "anonymous" => ~session]_vars

\* The screen does not stay disconnected: it is connected again, or left, or taken
\* away because the session is over (useLiveSessions.ts, the 401 problem), unless
\* EventSource gave up and every probe that could have told why was answered
\* something else than 401, or lost.
ScreenRecovers == mounted ~> connected \/ ~mounted \/ stranded
=============================================================================
