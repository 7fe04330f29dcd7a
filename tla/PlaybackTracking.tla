-------------------------- MODULE PlaybackTracking --------------------------
(***************************************************************************)
(* How a play becomes a row of playback_sessions and a count in            *)
(* playback_rollup_daily: the session poll (apps/server/src/sync/diff.ts   *)
(* and applier.ts), the snapshot it diffs against (snapshot-store.ts), the *)
(* repair at boot (reconcile.ts) and the nightly rebuild of the rollup     *)
(* (scheduler.ts, packages/db/src/repositories/playback.ts).               *)
(*                                                                         *)
(* Every await of the code that writes to the database is one step, and a  *)
(* poll may fail (the query rejects) or the process may die between any    *)
(* two of them.  The scheduler runs one job at a time, so a poll and a     *)
(* rebuild never overlap within the process; Scheduler.tla is about that.  *)
(*                                                                         *)
(* A definition whose name ends in _M is the one after it with a plausible *)
(* bug put in; it is used only to see that a property notices the bug.     *)
(***************************************************************************)
EXTENDS Integers

CONSTANTS
  Sessions,       \* Jellyfin session ids
  Items,          \* Jellyfin item ids
  None,           \* no row, no snapshot entry, no stream, no event, no delta
  Progress,       \* {FALSE}, or BOOLEAN when completion matters: see Stream
  DayLength,      \* ticks of the clock in a UTC day
  MaxWatchDelta,  \* config.maxWatchDeltaMs: 1.5 poll intervals
  StaleAfter,     \* config.staleSessionAfterMs: 2 poll intervals
  LookbackDays,   \* ROLLUP_LOOKBACK_DAYS
  ClockSteps,     \* how far the wall clock moves between two readings of it
  MaxTime,        \* bound: the last instant of the model
  MaxPolls,       \* bound: the number of polls
  Faults          \* which faults happen: "abort" a poll, "crash" the process

VARIABLES
  clock,     \* the wall clock when the running step last read it
  phase,     \* what the process is doing
  polls,     \* polls started so far, counted only to bound the model
  snapshot,  \* the in-memory SessionSnapshot
  polled,    \* `incoming`: the streams the running poll was told of
  pending,   \* the events of the running poll that are not applied yet
  stale,     \* the sessions the running reconciliation still has to close
  delta,     \* a rollup delta whose session write has landed and it has not
  open,      \* playback_sessions: the open row of each stream
  closed,    \* playback_sessions: the closed rows, summed per day and stream
  rollup,    \* playback_rollup_daily
  lost       \* history: the rollup entries a dropped delta has left short

vars == <<clock, phase, polls, snapshot, polled, pending, stale, delta,
          open, closed, rollup, lost>>

database == <<open, closed, rollup>>

-----------------------------------------------------------------------------
(* Data.  A stream is identified by its session and its item, so that an    *)
(* auto-played next episode is a stream of its own.                         *)

Key == Sessions \X Items

Time == 0 .. MaxTime

utcDay(t) == t \div DayLength

Day == {utcDay(t) : t \in Time}

ASSUME ConstantsAssumption ==
  /\ DayLength \in Nat \ {0}
  /\ MaxWatchDelta \in Nat
  /\ StaleAfter \in Nat
  /\ LookbackDays \in Nat
  /\ MaxTime \in Nat
  /\ MaxPolls \in Nat
  /\ ClockSteps \subseteq Int
  /\ Progress \subseteq BOOLEAN
  /\ Faults \subseteq {"abort", "crash"}

\* What Jellyfin reports of a stream.  `far` stands for the position: whether
\* positionTicks is at least COMPLETION_THRESHOLD of the item's runtime.
Stream == [isPaused : BOOLEAN, far : Progress]

SnapshotEntry == [isPaused : BOOLEAN, observedAt : Time, far : Progress]

Event == [type : {"started", "resumed", "paused", "progressed", "ended"},
          watchedMs : Nat, far : Progress]

Row == [startedAt : Time, lastSeenAt : Time, watchMs : Nat]

\* An entry of the rollup for one stream on one day.  The code keeps one row per
\* user and item; a stream has one user, so that row is a sum of entries.
Total == [plays : Nat, watchMs : Nat]

\* The closed rows of one stream that started on one day.  A closed row is
\* never written again, so only sums of them matter.
ClosedRows == [plays : Nat, watchMs : Nat, span : Int, completed : Nat]

Delta == [day : Day, key : Key, plays : Nat, watchMs : Nat]

ASSUME NoneAssumption ==
  None \notin Stream \cup SnapshotEntry \cup Event \cup Row \cup Delta

Nothing == [k \in Key |-> None]

\* A payload of /Sessions: a Jellyfin session plays one item at most.
Incoming ==
  {f \in [Key -> Stream \cup {None}] :
     \A j, k \in Key : j[1] = k[1] /\ f[j] # None /\ f[k] # None => j = k}

\* The readings the wall clock can give next.
NextReadings == {t \in Time : t - clock \in ClockSteps}

-----------------------------------------------------------------------------
(* diff.ts                                                                  *)

\* No lower clamp.
creditForSigned_M(before, now) ==
  LET elapsed == now - before.observedAt
  IN  IF before.isPaused THEN 0
      ELSE IF elapsed < MaxWatchDelta THEN elapsed ELSE MaxWatchDelta

\* A full increment whatever time has passed.
creditForWhole_M(before, now) == IF before.isPaused THEN 0 ELSE MaxWatchDelta

\* Watch time earned since `before` was observed, clamped at both ends.
creditFor(before, now) ==
  LET elapsed == now - before.observedAt
  IN  IF before.isPaused \/ elapsed <= 0 THEN 0
      ELSE IF elapsed < MaxWatchDelta THEN elapsed ELSE MaxWatchDelta

\* The event of a stream that was `before` and is now `live`.
EventOf(before, live, now) ==
  IF live = None
    THEN IF before = None THEN None
         ELSE [type |-> "ended", watchedMs |-> creditFor(before, now),
               far |-> before.far]
  ELSE IF before = None
    THEN [type |-> "started", watchedMs |-> 0, far |-> live.far]
  ELSE IF before.isPaused /\ ~live.isPaused
    THEN [type |-> "resumed", watchedMs |-> 0, far |-> live.far]
  ELSE [type |-> IF live.isPaused /\ ~before.isPaused THEN "paused"
                 ELSE "progressed",
        watchedMs |-> creditFor(before, now), far |-> live.far]

diffSessions(previous, incoming, now) ==
  [k \in Key |-> EventOf(previous[k], incoming[k], now)]

\* Paused streams are left out.
SnapshotOfPlaying_M(incoming, now) ==
  [k \in Key |->
     IF incoming[k] = None \/ (incoming[k] # None /\ incoming[k].isPaused)
       THEN None
     ELSE [isPaused |-> FALSE, observedAt |-> now, far |-> incoming[k].far]]

\* The snapshot a poll leaves behind.
SnapshotOf(incoming, now) ==
  [k \in Key |->
     IF incoming[k] = None THEN None
     ELSE [isPaused |-> incoming[k].isPaused, observedAt |-> now,
           far |-> incoming[k].far]]

\* No sort.
IsNextUnsorted_M(k) == pending[k] # None

\* The final sort puts ended events first; among the others, and among the
\* ended ones, the order is the payload's, which is arbitrary.
IsNext(k) ==
  /\ pending[k] # None
  /\ \/ pending[k].type = "ended"
     \/ \A j \in Key : pending[j] # None => pending[j].type # "ended"

-----------------------------------------------------------------------------
(* playback.ts: the writes.  Each is one SQL statement, hence atomic.       *)

\* closeSession's `completed`; runtimeKnown says whether its caller passed a
\* runtime.
IsCompleted(runtimeKnown, far) == runtimeKnown /\ far

\* An open row after the poll has written to it.
Seen(row, watchedMs) ==
  [startedAt |-> row.startedAt, lastSeenAt |-> clock,
   watchMs |-> row.watchMs + watchedMs]

\* The conflict clause starts the row afresh.
openSessionAfresh_M(k) ==
  open' = [open EXCEPT ![k] =
             [startedAt |-> clock, lastSeenAt |-> clock, watchMs |-> 0]]

openSession(k) ==
  open' = [open EXCEPT ![k] =
    IF open[k] = None
      THEN [startedAt |-> clock, lastSeenAt |-> clock, watchMs |-> 0]
      ELSE Seen(open[k], 0)]

touchSession(k, watchedMs) ==
  open' = [open EXCEPT ![k] =
    IF open[k] = None THEN None ELSE Seen(open[k], watchedMs)]

\* Closing the open row of k at time `at` moves it to the closed rows of the
\* day it started on.
closeSession(k, watchedMs, at, completed) ==
  IF open[k] = None THEN UNCHANGED <<open, closed>>
  ELSE LET row == open[k]
           Counted(c) == [plays |-> c.plays + 1,
                          watchMs |-> c.watchMs + row.watchMs + watchedMs,
                          span |-> c.span + (at - row.startedAt),
                          completed |->
                            c.completed + (IF completed THEN 1 ELSE 0)]
       IN  /\ open' = [open EXCEPT ![k] = None]
           /\ closed' = [closed EXCEPT ![utcDay(row.startedAt)][k] = Counted(@)]

\* Keyed on the day of the poll.
OwedOnPollDay_M(k, plays, watchedMs) ==
  IF open[k] = None \/ (plays = 0 /\ watchedMs = 0) THEN None
  ELSE [day |-> utcDay(clock), key |-> k,
        plays |-> plays, watchMs |-> watchedMs]

\* The delta a session write owes the rollup, keyed on the day the session
\* started; none if the write found no open row.
Owed(k, plays, watchedMs) ==
  IF open[k] = None \/ (plays = 0 /\ watchedMs = 0) THEN None
  ELSE [day |-> utcDay(open[k].startedAt), key |-> k,
        plays |-> plays, watchMs |-> watchedMs]

\* count(*) without its filter: open rows count as plays.
RecordedUnfiltered_M(d, k) ==
  LET here == open[k] # None /\ utcDay(open[k].startedAt) = d
  IN  [plays |-> closed[d][k].plays + (IF here THEN 1 ELSE 0),
       watchMs |-> closed[d][k].watchMs + (IF here THEN open[k].watchMs ELSE 0)]

\* What playback_sessions holds of stream k on day d, as the rebuild counts
\* it: plays that have ended, watch time of ended and open rows alike.
Recorded(d, k) ==
  [plays |-> closed[d][k].plays,
   watchMs |-> closed[d][k].watchMs
               + IF open[k] # None /\ utcDay(open[k].startedAt) = d
                 THEN open[k].watchMs ELSE 0]

\* The days of rollupWindow: whole UTC days before the one in progress.
RollupWindow(now) ==
  {d \in Day : utcDay(now) - LookbackDays <= d /\ d < utcDay(now)}

\* The entries a dropped delta leaves short.
Dropped == IF delta = None THEN {} ELSE {<<delta.day, delta.key>>}

-----------------------------------------------------------------------------
(* The process.                                                             *)

Init ==
  /\ clock = 0
  /\ phase = "down"
  /\ polls = 0
  /\ snapshot = Nothing
  /\ polled = Nothing
  /\ pending = Nothing
  /\ stale = {}
  /\ delta = None
  /\ open = Nothing
  /\ closed = [d \in Day |-> [k \in Key |->
                [plays |-> 0, watchMs |-> 0, span |-> 0, completed |-> 0]]]
  /\ rollup = [d \in Day |-> [k \in Key |-> [plays |-> 0, watchMs |-> 0]]]
  /\ lost = {}

findStaleOpenSessions(olderThan) ==
  {k \in Key : open[k] # None /\ open[k].lastSeenAt < olderThan}

\* Boot: migrations are done, reconcileOpenSessions looks for open rows not
\* seen since the cutoff.
Boot ==
  /\ phase = "down"
  /\ \E now \in NextReadings :
       /\ clock' = now
       /\ stale' = findStaleOpenSessions(now - StaleAfter)
  /\ phase' = "reconciling"
  /\ UNCHANGED <<polls, snapshot, polled, pending, delta, lost, database>>

\* The play is closed and never counted.
ReconcileCloseUncounted_M(k) ==
  /\ phase = "reconciling"
  /\ k \in stale
  /\ closeSession(k, 0, open[k].lastSeenAt, IsCompleted(FALSE, FALSE))
  /\ stale' = stale \ {k}
  /\ UNCHANGED <<clock, phase, polls, snapshot, polled, pending, delta, rollup,
                 lost>>

\* One found session: closed where it was last seen, and owed to the rollup as
\* a play with no watch time.
ReconcileClose(k) ==
  /\ phase = "reconciling"
  /\ delta = None
  /\ k \in stale
  /\ closeSession(k, 0, open[k].lastSeenAt, IsCompleted(FALSE, FALSE))
  /\ delta' = Owed(k, 1, 0)
  /\ stale' = stale \ {k}
  /\ UNCHANGED <<clock, phase, polls, snapshot, polled, pending, rollup, lost>>

\* The repairs are not awaited.
ReconcileDoneUnawaited_M ==
  /\ phase = "reconciling"
  /\ phase' = "idle"
  /\ stale' = {}
  /\ delta' = None
  /\ lost' = lost \cup Dropped
  /\ UNCHANGED <<clock, polls, snapshot, polled, pending, database>>

ReconcileDone ==
  /\ phase = "reconciling"
  /\ stale = {}
  /\ delta = None
  /\ phase' = "idle"
  /\ UNCHANGED <<clock, polls, snapshot, polled, pending, stale, delta, lost,
                 database>>

\* runSessionPoll up to the diff: the clock is read before the request, the
\* events and the next snapshot all carry that one reading.
PollStart ==
  /\ phase = "idle"
  /\ polls < MaxPolls
  /\ \E now \in NextReadings, incoming \in Incoming :
       /\ clock' = now
       /\ polled' = incoming
       /\ pending' = diffSessions(snapshot, incoming, now)
  /\ phase' = "polling"
  /\ polls' = polls + 1
  /\ UNCHANGED <<snapshot, stale, delta, lost, database>>

\* Taking the next event of the poll; a rollup delta still owed comes first.
Applying(k, types) ==
  /\ phase = "polling"
  /\ delta = None
  /\ IsNext(k)
  /\ pending[k].type \in types
  /\ pending' = [pending EXCEPT ![k] = None]
  /\ UNCHANGED <<clock, phase, polls, snapshot, polled, stale, rollup, lost>>

ApplyStarted(k) ==
  /\ Applying(k, {"started"})
  /\ openSession(k)
  /\ UNCHANGED <<delta, closed>>

ApplyTouched(k) ==
  /\ Applying(k, {"resumed", "paused", "progressed"})
  /\ touchSession(k, pending[k].watchedMs)
  /\ delta' = Owed(k, 0, pending[k].watchedMs)
  /\ UNCHANGED closed

\* The runtime is looked up in the payload of this poll.
ApplyEnded(k) ==
  /\ Applying(k, {"ended"})
  /\ closeSession(k, pending[k].watchedMs, clock,
                  IsCompleted(polled[k] # None, pending[k].far))
  /\ delta' = Owed(k, 1, pending[k].watchedMs)

ApplyRollupDelta ==
  /\ delta # None
  /\ rollup' = [rollup EXCEPT ![delta.day][delta.key] =
                  [plays |-> @.plays + delta.plays,
                   watchMs |-> @.watchMs + delta.watchMs]]
  /\ delta' = None
  /\ UNCHANGED <<clock, phase, polls, snapshot, polled, pending, stale, open,
                 closed, lost>>

\* The snapshot is saved once every write has landed.
SaveSnapshot ==
  /\ phase = "polling"
  /\ pending = Nothing
  /\ delta = None
  /\ snapshot' = SnapshotOf(polled, clock)
  /\ polled' = Nothing
  /\ phase' = "idle"
  /\ UNCHANGED <<clock, polls, pending, stale, delta, lost, database>>

\* The nightly rebuild, one transaction: the window's entries are replaced by
\* what playback_sessions holds, the others are left alone.
Recompute ==
  /\ phase = "idle"
  /\ \E now \in NextReadings :
       /\ clock' = now
       /\ rollup' = [d \in Day |->
            IF d \in RollupWindow(now) THEN [k \in Key |-> Recorded(d, k)]
            ELSE rollup[d]]
       /\ lost' = {e \in lost : e[1] \notin RollupWindow(now)}
  /\ UNCHANGED <<phase, polls, snapshot, polled, pending, stale, delta, open,
                 closed>>

\* A query of the poll rejects: runSessionPoll throws, the scheduler logs it,
\* and nothing that was to follow happens, the saving of the snapshot included.
PollFails ==
  /\ "abort" \in Faults
  /\ phase = "polling"
  /\ phase' = "idle"
  /\ polled' = Nothing
  /\ pending' = Nothing
  /\ delta' = None
  /\ lost' = lost \cup Dropped
  /\ UNCHANGED <<clock, polls, snapshot, stale, database>>

\* The process dies, or a query of the reconciliation rejects and main exits.
Crash ==
  /\ "crash" \in Faults
  /\ phase # "down"
  /\ phase' = "down"
  /\ snapshot' = Nothing
  /\ polled' = Nothing
  /\ pending' = Nothing
  /\ stale' = {}
  /\ delta' = None
  /\ lost' = lost \cup Dropped
  /\ UNCHANGED <<clock, polls, database>>

Next ==
  \/ Boot
  \/ ReconcileDone
  \/ PollStart
  \/ ApplyRollupDelta
  \/ SaveSnapshot
  \/ Recompute
  \/ PollFails
  \/ Crash
  \/ \E k \in Key : \/ ReconcileClose(k)
                    \/ ApplyStarted(k)
                    \/ ApplyTouched(k)
                    \/ ApplyEnded(k)

Spec == Init /\ [][Next]_vars

-----------------------------------------------------------------------------
(* Properties.                                                              *)

\* The shape of the state, and which variables are in use in which phase.
TypeOK ==
  /\ clock \in Time
  /\ phase \in {"down", "reconciling", "idle", "polling"}
  /\ polls \in 0 .. MaxPolls
  /\ snapshot \in [Key -> SnapshotEntry \cup {None}]
  /\ polled \in [Key -> Stream \cup {None}]
  /\ pending \in [Key -> Event \cup {None}]
  /\ stale \subseteq Key
  /\ delta \in Delta \cup {None}
  /\ open \in [Key -> Row \cup {None}]
  /\ closed \in [Day -> [Key -> ClosedRows]]
  /\ rollup \in [Day -> [Key -> Total]]
  /\ lost \subseteq Day \X Key

\* What the rollup has of stream k on day d once the delta in flight lands.
Settled(d, k) ==
  LET owed == delta # None /\ delta.day = d /\ delta.key = k
  IN  [plays |-> rollup[d][k].plays + (IF owed THEN delta.plays ELSE 0),
       watchMs |-> rollup[d][k].watchMs + (IF owed THEN delta.watchMs ELSE 0)]

\* The rollup never counts a play or a millisecond that playback_sessions does
\* not hold, whatever fails and wherever the process dies: a replayed close, a
\* replayed poll, a reconciliation and a rebuild during a stream that is still
\* open all leave it at or below the sessions.
RollupNeverAhead ==
  \A d \in Day, k \in Key :
    /\ Settled(d, k).plays <= Recorded(d, k).plays
    /\ Settled(d, k).watchMs <= Recorded(d, k).watchMs

\* The incremental path and the rebuild agree: an entry of the rollup differs
\* from the sessions only while a delta for it is in flight, or after a fault
\* dropped one and until a rebuild covers its day.
DriftOnlyWhereDeltaLost ==
  \A d \in Day, k \in Key :
    Settled(d, k) # Recorded(d, k) => <<d, k>> \in lost

\* With no fault, a Jellyfin session never has two open rows, not even in the
\* middle of the poll that sees it move on to its next item.
OneOpenRowPerSession ==
  \A j, k \in Key : j[1] = k[1] /\ open[j] # None /\ open[k] # None => j = k

\* With no fault, between polls the open rows are exactly the streams of the
\* snapshot, so each of them will be touched or ended by the next poll.
OpenRowsAreTracked ==
  phase = "idle" => \A k \in Key : open[k] # None <=> snapshot[k] # None

\* A session is credited no more watch time than it lasted (README: watch time
\* is capped so that a stalled app cannot inflate it), summed over the closed
\* rows of a day and for each open row.
WatchWithinSpan ==
  /\ \A k \in Key : open[k] # None =>
       open[k].watchMs <= open[k].lastSeenAt - open[k].startedAt
  /\ \A d \in Day, k \in Key : closed[d][k].watchMs <= closed[d][k].span

\* Watch time already on an open row is never taken back, neither by a clock
\* that steps backwards nor by a replayed start.
WatchNeverDecreases ==
  [][\A k \in Key : open[k] # None /\ open'[k] # None =>
       open'[k].watchMs >= open[k].watchMs]_vars

\* What the statistics promise (PlayLedger.tla), with what playback_sessions holds
\* for `held` and the rollup for `shown`.
Ledger ==
  INSTANCE PlayLedger WITH
    Days <- Day,
    Streams <- Key,
    held <- [d \in Day |-> [k \in Key |-> Recorded(d, k)]],
    shown <- rollup

\* The poll, the reconciliation and the rebuild implement that promise: neither a
\* query that rejects between two writes, nor a crash, nor a replay makes a total
\* go down or run ahead of the sessions, or changes two entries at once.
KeepsLedger == Ledger!Spec

\* After a poll no row is left open that the next poll will not look at: the
\* claim that losing the snapshot costs at most one poll interval because
\* reconciliation repairs anything left open (snapshot-store.ts).
PollLeavesNoOrphan ==
  [][phase = "polling" /\ phase' = "idle" =>
       \A k \in Key : open'[k] # None => snapshot'[k] # None]_vars

\* When reconciliation gives way to polling, no open row is older than the
\* cutoff, even if earlier reconciliations died half way.
ReconcileLeavesNothingStale ==
  [][phase = "reconciling" /\ phase' = "idle" =>
       \A k \in Key : open[k] # None =>
         open[k].lastSeenAt >= clock - StaleAfter]_vars

\* A play that ends past the completion threshold is marked completed.
FinishedPlayIsCompleted ==
  [][\A d \in Day, k \in Key :
       closed'[d][k].plays > closed[d][k].plays /\ pending[k] # None
         /\ pending[k].far
       => closed'[d][k].completed > closed[d][k].completed]_vars
=============================================================================
