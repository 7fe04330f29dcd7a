------------------------- MODULE TrackingCleanProofs -------------------------
(* What holds of PlaybackTracking step by step, and what holds of it when     *)
(* nothing fails, for every value of its constants.                           *)
EXTENDS PlaybackTrackingProofs

-----------------------------------------------------------------------------
(* Steps that may fail.                                                       *)

LEMMA NoRowShrinks ==
  TypeOK /\ [Next]_vars
    => \A k \in Key : open[k] # None /\ open'[k] # None =>
         open'[k].watchMs >= open[k].watchMs
  <1> SUFFICES ASSUME TypeOK, [Next]_vars, NEW k \in Key,
                      open[k] # None, open'[k] # None
               PROVE  open'[k].watchMs >= open[k].watchMs
    OBVIOUS
  <1>1. open[k].watchMs \in Nat
    BY DEF TypeOK, Row
  <1>2. CASE open'[k] = open[k]
    BY <1>1, <1>2, SMT
  <1>3. ASSUME NEW j \in Key, ReconcileClose(j) \/ ApplyEnded(j)
        PROVE  open'[k] = open[k]
    BY <1>3 DEF ReconcileClose, ApplyEnded, closeSession, TypeOK
  <1>4. ASSUME NEW j \in Key, ApplyStarted(j)
        PROVE  open'[k].watchMs >= open[k].watchMs
    <2>1. CASE j = k
      <3>1. open'[k] = Seen(open[k], 0)
        BY <1>4, <2>1 DEF ApplyStarted, openSession, TypeOK
      <3> QED
        BY <1>1, <3>1, SMT DEF Seen
    <2>2. CASE j # k
      <3>1. open'[k] = open[k]
        BY <1>4, <2>2 DEF ApplyStarted, openSession, TypeOK
      <3> QED
        BY <1>1, <3>1, SMT
    <2> QED
      BY <2>1, <2>2
  <1>5. ASSUME NEW j \in Key, ApplyTouched(j)
        PROVE  open'[k].watchMs >= open[k].watchMs
    <2>1. pending[j].watchedMs \in Nat
      BY <1>5, ApplyingType DEF ApplyTouched
    <2>2. CASE j = k
      <3>1. open'[k] = Seen(open[k], pending[j].watchedMs)
        BY <1>5, <2>2 DEF ApplyTouched, touchSession, TypeOK
      <3> QED
        BY <1>1, <2>1, <3>1, SMT DEF Seen
    <2>3. CASE j # k
      <3>1. open'[k] = open[k]
        BY <1>5, <2>3 DEF ApplyTouched, touchSession, TypeOK
      <3> QED
        BY <1>1, <3>1, SMT
    <2> QED
      BY <2>2, <2>3
  <1>6. CASE \/ Boot \/ ReconcileDone \/ PollStart \/ ApplyRollupDelta
             \/ SaveSnapshot \/ Recompute \/ PollFails \/ Crash
             \/ UNCHANGED vars
    BY <1>2, <1>6 DEF Boot, ReconcileDone, PollStart, ApplyRollupDelta,
       SaveSnapshot, Recompute, PollFails, Crash, database, vars
  <1> QED
    BY <1>2, <1>3, <1>4, <1>5, <1>6 DEF Next

\* Whatever fails and however the clock moves, the watch time of an open row
\* never goes down: the credit of an interval is never negative, and a replayed
\* start keeps what the row has.
THEOREM WatchOnlyGrows == Spec => WatchNeverDecreases
  <1>1. TypeOK /\ [Next]_vars
          => [\A k \in Key : open[k] # None /\ open'[k] # None =>
                open'[k].watchMs >= open[k].watchMs]_vars
    BY NoRowShrinks
  <1> QED
    BY <1>1, TypeCorrect, PTL DEF Spec, WatchNeverDecreases

\* While the reconciliation runs, an open row it will not close is fresh.
StaleInv ==
  phase = "reconciling" =>
    \A k \in Key \ stale : open[k] # None => open[k].lastSeenAt >= clock - StaleAfter

LEMMA StaleStep == TypeOK /\ StaleInv /\ [Next]_vars => StaleInv'
  <1> SUFFICES ASSUME TypeOK, StaleInv, [Next]_vars PROVE StaleInv'
    OBVIOUS
  <1>1. CASE Boot
    <2> SUFFICES ASSUME NEW k \in Key, k \notin stale', open'[k] # None
                 PROVE  open'[k].lastSeenAt >= clock' - StaleAfter
      BY DEF StaleInv
    <2>1. PICK now \in NextReadings :
            clock' = now /\ stale' = findStaleOpenSessions(now - StaleAfter)
      BY <1>1 DEF Boot
    <2>2. open' = open
      BY <1>1 DEF Boot, database
    <2>3. ~ (open[k].lastSeenAt < now - StaleAfter)
      BY <2>1, <2>2 DEF findStaleOpenSessions
    <2>4. open[k].lastSeenAt \in Int /\ now \in Int /\ StaleAfter \in Int
      BY <2>2, ConstantsAssumption, SMT DEF TypeOK, Row, Time, NextReadings
    <2> QED
      BY <2>1, <2>2, <2>3, <2>4, SMT
  <1>2. ASSUME NEW k \in Key, ReconcileClose(k) PROVE StaleInv'
    <2>1. /\ stale' = stale \ {k}
          /\ clock' = clock /\ phase' = phase
          /\ open' = [open EXCEPT ![k] = None]
      <3>1. CASE open[k] = None
        BY <1>2, <3>1 DEF ReconcileClose, closeSession, TypeOK
      <3>2. CASE open[k] # None
        BY <1>2, <3>2 DEF ReconcileClose, closeSession
      <3> QED
        BY <3>1, <3>2
    <2> QED
      BY <2>1 DEF StaleInv, TypeOK
  <1>3. CASE ApplyRollupDelta \/ UNCHANGED vars
    BY <1>3 DEF ApplyRollupDelta, vars, StaleInv
  <1>4. CASE \/ ReconcileDone \/ PollStart \/ SaveSnapshot \/ Recompute
             \/ PollFails \/ Crash
             \/ \E k \in Key : ApplyStarted(k) \/ ApplyTouched(k) \/ ApplyEnded(k)
    <2>1. phase' # "reconciling"
      BY <1>4 DEF ReconcileDone, PollStart, SaveSnapshot, Recompute, PollFails,
         Crash, ApplyStarted, ApplyTouched, ApplyEnded, Applying
    <2> QED
      BY <2>1 DEF StaleInv
  <1> QED
    BY <1>1, <1>2, <1>3, <1>4 DEF Next

\* When reconciliation ends, every row it leaves open was seen within the
\* cutoff, also after earlier reconciliations that died half way.
THEOREM RepairIsComplete == Spec => ReconcileLeavesNothingStale
  <1> DEFINE Fresh == phase = "reconciling" /\ phase' = "idle" =>
                        \A k \in Key : open[k] # None =>
                          open[k].lastSeenAt >= clock - StaleAfter
  <1>1. StaleInv /\ [Next]_vars => [Fresh]_vars
    <2> SUFFICES ASSUME StaleInv, Next, phase = "reconciling", phase' = "idle"
                 PROVE  \A k \in Key : open[k] # None =>
                          open[k].lastSeenAt >= clock - StaleAfter
      OBVIOUS
    <2>1. ReconcileDone
      BY DEF Next, Boot, PollStart, ApplyRollupDelta, SaveSnapshot, Recompute,
         PollFails, Crash, ReconcileClose, ApplyStarted, ApplyTouched,
         ApplyEnded, Applying
    <2> QED
      BY <2>1 DEF ReconcileDone, StaleInv
  <1>2. Init => StaleInv
    BY DEF Init, StaleInv
  <1> QED
    BY <1>1, <1>2, StaleStep, TypeCorrect, PTL
       DEF Spec, ReconcileLeavesNothingStale

-----------------------------------------------------------------------------
(* When nothing fails.                                                        *)

\* At most one item per Jellyfin session.
OneItemEach(f) ==
  \A j, k \in Key : j[1] = k[1] /\ f[j] # None /\ f[k] # None => j = k

\* Between polls the open rows are the streams of the snapshot; before the first
\* poll there are none of either.
QuietInv ==
  /\ phase # "polling" => \A k \in Key : open[k] # None <=> snapshot[k] # None
  /\ phase \in {"down", "reconciling"} => \A k \in Key : open[k] = None

\* During a poll an event that waits says what the row, the snapshot and the
\* payload have of its stream; a stream without one is as the payload has it.
EventInv(k) ==
  /\ pending[k] = None => (open[k] # None <=> polled[k] # None)
  /\ pending[k] # None =>
       /\ open[k] # None <=> pending[k].type # "started"
       /\ snapshot[k] # None <=> pending[k].type # "started"
       /\ polled[k] # None <=> pending[k].type # "ended"

EndedWaits == \E k \in Key : pending[k] # None /\ pending[k].type = "ended"

\* While an ended event waits no row has been opened.
PollInv ==
  phase = "polling" =>
    /\ \A k \in Key : EventInv(k)
    /\ EndedWaits => \A k \in Key : open[k] # None => snapshot[k] # None

CleanInv ==
  /\ TypeOK
  /\ OneItemEach(snapshot)
  /\ OneItemEach(polled)
  /\ QuietInv
  /\ PollInv

\* What the diff says of a stream.
LEMMA EventOfKind ==
  ASSUME NEW before \in SnapshotEntry \cup {None}, NEW live \in Stream \cup {None},
         NEW now \in Time
  PROVE  /\ EventOf(before, live, now) = None <=> before = None /\ live = None
         /\ EventOf(before, live, now) # None =>
              /\ before # None <=> EventOf(before, live, now).type # "started"
              /\ live # None <=> EventOf(before, live, now).type # "ended"
  <1> DEFINE e == EventOf(before, live, now)
  <1>1. e \in Event \cup {None}
    BY EventOfType
  <1>2. None \notin Event
    BY NoneAssumption
  <1>3. CASE before = None /\ live = None
    BY <1>3 DEF EventOf
  <1>4. CASE before = None /\ live # None
    <2>1. e = [type |-> "started", watchedMs |-> 0, far |-> live.far]
      BY <1>4 DEF EventOf
    <2>2. live.far \in Progress
      BY <1>4 DEF Stream
    <2>3. e \in Event
      BY <2>1, <2>2, SMT DEF Event
    <2> QED
      BY <1>2, <1>4, <2>1, <2>3
  <1>5. CASE before # None
    <2>1. before \in SnapshotEntry
      BY <1>5
    <2>2. creditFor(before, now) \in Nat
      BY <2>1, creditForType, ConstantsAssumption, SMT
    <2>3. before.far \in Progress
      BY <2>1 DEF SnapshotEntry
    <2>4. live # None => live.far \in Progress
      BY DEF Stream
    <2>5. e \in Event
      BY <1>5, <2>2, <2>3, <2>4, SMT DEF EventOf, Event
    <2>6. CASE live = None
      <3>1. e.type = "ended"
        BY <1>5, <2>6 DEF EventOf
      <3> QED
        BY <1>2, <1>5, <2>5, <2>6, <3>1
    <2>7. CASE live # None
      <3>1. e.type \in {"resumed", "paused", "progressed"}
        BY <1>5, <2>7, SMT DEF EventOf
      <3> QED
        BY <1>2, <1>5, <2>5, <2>7, <3>1, SMT
    <2> QED
      BY <2>6, <2>7
  <1> QED
    BY <1>3, <1>4, <1>5

\* Taking an event of the running poll: the rest waits on.
LEMMA ApplyingClean ==
  ASSUME CleanInv, NEW k \in Key, NEW types, Applying(k, types)
  PROVE  /\ phase = "polling" /\ phase' = "polling"
         /\ pending[k] # None /\ pending[k].type \in types
         /\ pending' = [pending EXCEPT ![k] = None]
         /\ snapshot' = snapshot /\ polled' = polled
         /\ \A j \in Key : EventInv(j)
         /\ EndedWaits => \A j \in Key : open[j] # None => snapshot[j] # None
         /\ EndedWaits' => EndedWaits
         /\ pending[k].type # "ended" => ~EndedWaits
  <1>1. pending' = [pending EXCEPT ![k] = None] /\ pending[k] # None
    BY DEF Applying, IsNext
  <1>2. EndedWaits' => EndedWaits
    BY <1>1 DEF EndedWaits, CleanInv, TypeOK
  <1>3. pending[k].type # "ended" => ~EndedWaits
    BY DEF Applying, IsNext, EndedWaits
  <1> QED
    BY <1>1, <1>2, <1>3 DEF Applying, CleanInv, PollInv

LEMMA CleanStep ==
  ASSUME Faults = {}
  PROVE  CleanInv /\ [Next]_vars => CleanInv'
  <1> SUFFICES ASSUME CleanInv, [Next]_vars PROVE CleanInv'
    OBVIOUS
  <1>1. TypeOK'
    BY NextTypeOK DEF CleanInv
  <1>2. ASSUME NEW k \in Key, ReconcileClose(k) PROVE CleanInv'
    <2>1. open[k] = None
      BY <1>2 DEF CleanInv, QuietInv, ReconcileClose
    <2>2. UNCHANGED <<phase, snapshot, polled, pending, open>>
      BY <1>2, <2>1 DEF ReconcileClose, closeSession
    <2> QED
      BY <1>1, <2>2
         DEF CleanInv, OneItemEach, QuietInv, PollInv, EventInv, EndedWaits
  <1>3. CASE Boot \/ ReconcileDone \/ Recompute
    <2>1. /\ UNCHANGED <<snapshot, polled, pending, open>>
          /\ phase # "polling" /\ phase' # "polling"
          /\ phase' = "reconciling" => phase = "down"
          /\ phase' # "down"
      BY <1>3 DEF Boot, ReconcileDone, Recompute, database
    <2> QED
      BY <1>1, <2>1 DEF CleanInv, OneItemEach, QuietInv, PollInv
  <1>4. CASE PollStart
    <2>1. PICK now \in NextReadings, incoming \in Incoming :
            /\ polled' = incoming
            /\ pending' = diffSessions(snapshot, incoming, now)
      BY <1>4 DEF PollStart
    <2>2. /\ phase = "idle" /\ phase' = "polling"
          /\ UNCHANGED <<snapshot, open>>
      BY <1>4 DEF PollStart, database
    <2>3. now \in Time /\ incoming \in [Key -> Stream \cup {None}]
      BY DEF NextReadings, Incoming
    <2>4. OneItemEach(polled)'
      BY <2>1 DEF OneItemEach, Incoming
    <2>5. ASSUME NEW k \in Key
          PROVE  EventInv(k)' /\ (open'[k] # None => snapshot'[k] # None)
      <3>1. pending'[k] = EventOf(snapshot[k], polled'[k], now)
        BY <2>1 DEF diffSessions
      <3>2. snapshot[k] \in SnapshotEntry \cup {None}
            /\ polled'[k] \in Stream \cup {None}
        BY <2>1, <2>3 DEF CleanInv, TypeOK
      <3>3. open[k] # None <=> snapshot[k] # None
        BY <2>2 DEF CleanInv, QuietInv
      <3>4. EventOf(snapshot[k], polled'[k], now) = None
              <=> snapshot[k] = None /\ polled'[k] = None
        BY <2>3, <3>2, EventOfKind
      <3>5. EventOf(snapshot[k], polled'[k], now) # None =>
              /\ snapshot[k] # None
                   <=> EventOf(snapshot[k], polled'[k], now).type # "started"
              /\ polled'[k] # None
                   <=> EventOf(snapshot[k], polled'[k], now).type # "ended"
        BY <2>3, <3>2, EventOfKind
      <3> QED
        BY <2>2, <3>1, <3>3, <3>4, <3>5 DEF EventInv
    <2>6. OneItemEach(snapshot)'
      BY <2>2 DEF CleanInv, OneItemEach
    <2> QED
      BY <1>1, <2>2, <2>4, <2>5, <2>6 DEF CleanInv, QuietInv, PollInv
  <1>5. CASE ApplyRollupDelta \/ UNCHANGED vars
    <2>1. UNCHANGED <<phase, snapshot, polled, pending, open>>
      BY <1>5 DEF ApplyRollupDelta, vars
    <2> QED
      BY <1>1, <2>1
         DEF CleanInv, OneItemEach, QuietInv, PollInv, EventInv, EndedWaits
  <1>6. CASE SaveSnapshot
    <2>1. /\ phase = "polling" /\ phase' = "idle"
          /\ pending = Nothing /\ polled' = Nothing
          /\ snapshot' = SnapshotOf(polled, clock) /\ open' = open
      BY <1>6 DEF SaveSnapshot, database
    <2>2. ASSUME NEW k \in Key
          PROVE  /\ snapshot'[k] # None <=> polled[k] # None
                 /\ open'[k] # None <=> polled[k] # None
      <3>1. CASE polled[k] = None
        <4>1. snapshot'[k] = None
          BY <2>1, <3>1 DEF SnapshotOf
        <4> QED
          BY <2>1, <3>1, <4>1 DEF Nothing, CleanInv, PollInv, EventInv
      <3>2. CASE polled[k] # None
        <4>1. polled[k] \in Stream /\ clock \in Time
          BY <3>2 DEF CleanInv, TypeOK
        <4>2. snapshot'[k] = [isPaused |-> polled[k].isPaused,
                              observedAt |-> clock, far |-> polled[k].far]
          BY <2>1, <3>2 DEF SnapshotOf
        <4>3. snapshot'[k] \in SnapshotEntry
          BY <4>1, <4>2, SMT DEF SnapshotEntry, Stream
        <4>4. snapshot'[k] # None
          BY <4>3, NoneAssumption
        <4> QED
          BY <2>1, <3>2, <4>4 DEF Nothing, CleanInv, PollInv, EventInv
      <3> QED
        BY <3>1, <3>2
    <2>3. OneItemEach(snapshot)'
      BY <2>2 DEF CleanInv, OneItemEach
    <2>4. OneItemEach(polled)'
      BY <2>1 DEF OneItemEach, Nothing
    <2> QED
      BY <1>1, <2>1, <2>2, <2>3, <2>4 DEF CleanInv, QuietInv, PollInv
  <1>7. ASSUME NEW k \in Key, ApplyStarted(k) PROVE CleanInv'
    <2>1. Applying(k, {"started"})
      BY <1>7 DEF ApplyStarted
    <2>2. /\ pending[k].type = "started" /\ ~EndedWaits'
          /\ phase' = "polling" /\ pending' = [pending EXCEPT ![k] = None]
          /\ pending[k] # None /\ UNCHANGED <<snapshot, polled>>
          /\ \A j \in Key : EventInv(j)
      BY <2>1, ApplyingClean
    <2>3. open[k] = None /\ polled[k] # None
      BY <2>2 DEF EventInv
    <2>4. open' = [open EXCEPT ![k] =
                     [startedAt |-> clock, lastSeenAt |-> clock, watchMs |-> 0]]
      BY <1>7, <2>3 DEF ApplyStarted, openSession
    <2>5. [startedAt |-> clock, lastSeenAt |-> clock, watchMs |-> 0] # None
      <3>1. [startedAt |-> clock, lastSeenAt |-> clock, watchMs |-> 0] \in Row
        BY DEF CleanInv, TypeOK, Row
      <3> QED
        BY <3>1, NoneAssumption
    <2>6. open'[k] # None /\ pending'[k] = None
          /\ \A j \in Key \ {k} : open'[j] = open[j] /\ pending'[j] = pending[j]
      BY <2>2, <2>4, <2>5 DEF CleanInv, TypeOK
    <2>7. \A j \in Key : EventInv(j)'
      BY <2>2, <2>3, <2>6 DEF EventInv
    <2> QED
      BY <1>1, <2>2, <2>7 DEF CleanInv, OneItemEach, QuietInv, PollInv
  <1>8. ASSUME NEW k \in Key, ApplyTouched(k) PROVE CleanInv'
    <2>1. Applying(k, {"resumed", "paused", "progressed"})
      BY <1>8 DEF ApplyTouched
    <2>2. /\ pending[k].type \in {"resumed", "paused", "progressed"}
          /\ EndedWaits' => EndedWaits
          /\ EndedWaits => \A j \in Key : open[j] # None => snapshot[j] # None
          /\ phase' = "polling" /\ pending' = [pending EXCEPT ![k] = None]
          /\ pending[k] # None /\ UNCHANGED <<snapshot, polled>>
          /\ \A j \in Key : EventInv(j)
      BY <2>1, ApplyingClean
    <2>3. open[k] # None /\ polled[k] # None
      BY <2>2, SMT DEF EventInv
    <2>4. open' = [open EXCEPT ![k] = Seen(open[k], pending[k].watchedMs)]
      BY <1>8, <2>3 DEF ApplyTouched, touchSession
    <2>5. Seen(open[k], pending[k].watchedMs) # None
      <3>1. Seen(open[k], pending[k].watchedMs) \in Row
        BY <2>1, <2>3, ApplyingType, SeenType DEF CleanInv, TypeOK
      <3> QED
        BY <3>1, NoneAssumption
    <2>6. open'[k] # None /\ pending'[k] = None
          /\ \A j \in Key \ {k} : open'[j] = open[j] /\ pending'[j] = pending[j]
      BY <2>2, <2>4, <2>5 DEF CleanInv, TypeOK
    <2>7. \A j \in Key : EventInv(j)'
      BY <2>2, <2>3, <2>6 DEF EventInv
    <2>8. EndedWaits' => \A j \in Key : open'[j] # None => snapshot'[j] # None
      BY <2>2, <2>3, <2>6
    <2> QED
      BY <1>1, <2>2, <2>7, <2>8 DEF CleanInv, OneItemEach, QuietInv, PollInv
  <1>9. ASSUME NEW k \in Key, ApplyEnded(k) PROVE CleanInv'
    <2>1. Applying(k, {"ended"})
      BY <1>9 DEF ApplyEnded
    <2>2. /\ pending[k].type = "ended"
          /\ EndedWaits' => EndedWaits
          /\ EndedWaits => \A j \in Key : open[j] # None => snapshot[j] # None
          /\ phase' = "polling" /\ pending' = [pending EXCEPT ![k] = None]
          /\ pending[k] # None /\ UNCHANGED <<snapshot, polled>>
          /\ \A j \in Key : EventInv(j)
      BY <2>1, ApplyingClean
    <2>3. open[k] # None /\ polled[k] = None
      BY <2>2 DEF EventInv
    <2>4. open' = [open EXCEPT ![k] = None]
      BY <1>9, <2>3 DEF ApplyEnded, closeSession
    <2>5. open'[k] = None /\ pending'[k] = None
          /\ \A j \in Key \ {k} : open'[j] = open[j] /\ pending'[j] = pending[j]
      BY <2>2, <2>4 DEF CleanInv, TypeOK
    <2>6. \A j \in Key : EventInv(j)'
      BY <2>2, <2>3, <2>5 DEF EventInv
    <2>7. EndedWaits' => \A j \in Key : open'[j] # None => snapshot'[j] # None
      BY <2>2, <2>5
    <2> QED
      BY <1>1, <2>2, <2>6, <2>7 DEF CleanInv, OneItemEach, QuietInv, PollInv
  <1>10. CASE PollFails \/ Crash
    BY <1>10 DEF PollFails, Crash
  <1> QED
    BY <1>2, <1>3, <1>4, <1>5, <1>6, <1>7, <1>8, <1>9, <1>10 DEF Next

LEMMA CleanInit == Init => CleanInv
  BY InitTypeOK
     DEF Init, CleanInv, OneItemEach, QuietInv, PollInv, Nothing

LEMMA CleanAlways ==
  ASSUME Faults = {}
  PROVE  Spec => []CleanInv
  BY CleanInit, CleanStep, PTL DEF Spec

\* When no poll fails and the process does not die, a Jellyfin session has one
\* open row at most, also in the middle of the poll that sees it move on to its
\* next item: the sort of diffSessions puts the end of the old one first.
THEOREM OneRowWithoutFaults ==
  ASSUME Faults = {}
  PROVE  Spec => []OneOpenRowPerSession
  <1>1. CleanInv => OneOpenRowPerSession
    <2> SUFFICES ASSUME CleanInv, NEW j \in Key, NEW k \in Key, j[1] = k[1],
                        open[j] # None, open[k] # None
                 PROVE  j = k
      BY DEF OneOpenRowPerSession
    <2>1. CASE phase = "polling" /\ ~EndedWaits
      <3>1. ASSUME NEW i \in Key, open[i] # None PROVE polled[i] # None
        BY <2>1, <3>1 DEF CleanInv, PollInv, EventInv, EndedWaits
      <3> QED
        BY <3>1 DEF CleanInv, OneItemEach
    <2>2. CASE phase # "polling" \/ EndedWaits
      <3>1. snapshot[j] # None /\ snapshot[k] # None
        BY <2>2 DEF CleanInv, PollInv, QuietInv
      <3> QED
        BY <3>1 DEF CleanInv, OneItemEach
    <2> QED
      BY <2>1, <2>2
  <1> QED
    BY <1>1, CleanAlways, PTL

\* When no poll fails and the process does not die, the next poll looks at every
\* open row, and at nothing else.
THEOREM RowsAreTrackedWithoutFaults ==
  ASSUME Faults = {}
  PROVE  Spec => []OpenRowsAreTracked
  <1>1. CleanInv => OpenRowsAreTracked
    BY DEF CleanInv, QuietInv, OpenRowsAreTracked
  <1> QED
    BY <1>1, CleanAlways, PTL

-----------------------------------------------------------------------------
(* Watch time against the time that passed.                                   *)

\* The open row of k, and what may still be credited to it: nothing of what an
\* event or the next diff can credit lies before the row was last seen.
RowSpanInv(k) ==
  open[k] # None =>
    /\ open[k].watchMs <= open[k].lastSeenAt - open[k].startedAt
    /\ open[k].lastSeenAt <= clock
    /\ phase # "polling" => open[k].lastSeenAt <= snapshot[k].observedAt
    /\ pending[k] # None =>
         pending[k].watchedMs <= clock - open[k].lastSeenAt

SpanInv ==
  /\ \A k \in Key : RowSpanInv(k)
  /\ \A d \in Day, k \in Key : closed[d][k].watchMs <= closed[d][k].span

\* The credit of an interval is at most the time since any instant before it.
LEMMA creditForBound ==
  ASSUME NEW before \in SnapshotEntry, NEW now \in Time,
         NEW seen \in Int, seen <= before.observedAt, seen <= now
  PROVE  creditFor(before, now) <= now - seen
  BY ConstantsAssumption, SMT DEF creditFor, SnapshotEntry, Time

LEMMA EventOfBound ==
  ASSUME NEW before \in SnapshotEntry, NEW live \in Stream \cup {None},
         NEW now \in Time, NEW seen \in Int, seen <= before.observedAt, seen <= now
  PROVE  EventOf(before, live, now).watchedMs <= now - seen
  <1>1. creditFor(before, now) <= now - seen
    BY creditForBound
  <1>2. before # None
    BY NoneAssumption
  <1>3. \/ EventOf(before, live, now).watchedMs = 0
        \/ EventOf(before, live, now).watchedMs = creditFor(before, now)
    BY <1>2, SMT DEF EventOf
  <1>4. now - seen >= 0
    BY SMT DEF Time
  <1> QED
    BY <1>1, <1>3, <1>4

LEMMA RowNumbers ==
  ASSUME TypeOK, NEW k \in Key, open[k] # None
  PROVE  /\ open[k] \in Row
         /\ open[k].startedAt \in Int /\ open[k].lastSeenAt \in Int
         /\ open[k].startedAt \in Time /\ open[k].watchMs \in Nat
         /\ clock \in Int
  BY SMT DEF TypeOK, Row, Time

\* A write to the open row of k leaves the other rows as they were.
LEMMA OthersKeepSpan ==
  ASSUME SpanInv, CleanInv, NEW k \in Key, phase = "polling", phase' = "polling",
         clock' = clock, pending' = [pending EXCEPT ![k] = None],
         \A j \in Key \ {k} : open'[j] = open[j]
  PROVE  \A j \in Key \ {k} : RowSpanInv(j)'
  BY DEF SpanInv, RowSpanInv, CleanInv, TypeOK

\* A close moves a row whose watch time fits its span to the closed rows.
LEMMA CloseKeepsSpan ==
  ASSUME SpanInv, TypeOK, NEW k \in Key, NEW w \in Nat, NEW completed \in BOOLEAN,
         open[k] # None, w <= clock - open[k].lastSeenAt,
         closeSession(k, w, clock, completed)
  PROVE  \A d \in Day, j \in Key : closed'[d][j].watchMs <= closed'[d][j].span
  <1> SUFFICES ASSUME NEW d \in Day, NEW j \in Key
               PROVE  closed'[d][j].watchMs <= closed'[d][j].span
    OBVIOUS
  <1> DEFINE day == utcDay(open[k].startedAt)
             c == closed[day][k]
             new == [plays |-> c.plays + 1,
                     watchMs |-> c.watchMs + open[k].watchMs + w,
                     span |-> c.span + (clock - open[k].startedAt),
                     completed |-> c.completed + (IF completed THEN 1 ELSE 0)]
  <1>1. /\ open[k].startedAt \in Int /\ open[k].lastSeenAt \in Int
        /\ open[k].startedAt \in Time /\ open[k].watchMs \in Nat /\ clock \in Int
    BY RowNumbers
  <1>2. day \in Day
    BY <1>1, utcDayType
  <1>3. closed' = [closed EXCEPT ![day][k] = new]
    BY DEF closeSession
  <1>4. c \in ClosedRows /\ c.watchMs <= c.span
    BY <1>2 DEF TypeOK, SpanInv
  <1>5. open[k].watchMs <= open[k].lastSeenAt - open[k].startedAt
    BY DEF SpanInv, RowSpanInv
  <1>6. new.watchMs <= new.span
    BY <1>1, <1>4, <1>5, SMT DEF ClosedRows
  <1>7. CASE d = day /\ j = k
    <2>1. closed'[d][j] = new
      BY <1>2, <1>3, <1>7 DEF TypeOK
    <2> QED
      BY <1>6, <2>1
  <1>8. CASE ~(d = day /\ j = k)
    <2>1. closed'[d][j] = closed[d][j]
      BY <1>2, <1>3, <1>8 DEF TypeOK
    <2> QED
      BY <2>1 DEF SpanInv
  <1> QED
    BY <1>7, <1>8

\* The clock moves forward and nothing else changes.
LEMMA LaterKeepsSpan ==
  ASSUME ClockSteps \subseteq Nat, SpanInv, TypeOK, NEW now \in NextReadings,
         clock' = now, phase # "polling", phase' # "polling",
         UNCHANGED <<open, closed, snapshot, pending>>
  PROVE  SpanInv'
  <1>1. clock \in Int /\ now \in Int /\ clock <= now
    BY SMT DEF NextReadings, TypeOK, Time
  <1> SUFFICES ASSUME NEW k \in Key, open[k] # None PROVE RowSpanInv(k)'
    BY DEF SpanInv, RowSpanInv
  <1>2. open[k].lastSeenAt \in Int
    BY RowNumbers
  <1>3. RowSpanInv(k)
    BY DEF SpanInv
  <1>4. open[k].lastSeenAt <= now
    BY <1>1, <1>2, <1>3, SMT DEF RowSpanInv
  <1>5. pending[k] # None => pending[k].watchedMs <= now - open[k].lastSeenAt
    <2> SUFFICES ASSUME pending[k] # None
                 PROVE  pending[k].watchedMs <= now - open[k].lastSeenAt
      OBVIOUS
    <2>1. pending[k].watchedMs \in Nat
      BY DEF TypeOK, Event
    <2> QED
      BY <1>1, <1>2, <1>3, <2>1, SMT DEF RowSpanInv
  <1> QED
    BY <1>3, <1>4, <1>5 DEF RowSpanInv

LEMMA SpanStep ==
  ASSUME Faults = {}, ClockSteps \subseteq Nat
  PROVE  SpanInv /\ CleanInv /\ [Next]_vars => SpanInv'
  <1> SUFFICES ASSUME SpanInv, CleanInv, [Next]_vars PROVE SpanInv'
    OBVIOUS
  <1>1. TypeOK
    BY DEF CleanInv
  <1>2. ASSUME NEW k \in Key, ReconcileClose(k) PROVE SpanInv'
    <2>1. open[k] = None
      BY <1>2 DEF CleanInv, QuietInv, ReconcileClose
    <2>2. UNCHANGED <<clock, phase, snapshot, pending, open, closed>>
      BY <1>2, <2>1 DEF ReconcileClose, closeSession
    <2> QED
      BY <2>2 DEF SpanInv, RowSpanInv
  <1>3. CASE ReconcileDone \/ ApplyRollupDelta \/ UNCHANGED vars
    <2>1. /\ UNCHANGED <<clock, snapshot, pending, open, closed>>
          /\ phase' # "polling" => phase # "polling"
      BY <1>3 DEF ReconcileDone, ApplyRollupDelta, vars, database
    <2> QED
      BY <2>1 DEF SpanInv, RowSpanInv
  <1>4. CASE Boot \/ Recompute
    <2>1. /\ \E now \in NextReadings : clock' = now
          /\ phase # "polling" /\ phase' # "polling"
          /\ UNCHANGED <<open, closed, snapshot, pending>>
      BY <1>4 DEF Boot, Recompute, database
    <2> QED
      BY <1>1, <2>1, LaterKeepsSpan
  <1>5. CASE PollStart
    <2>1. PICK now \in NextReadings, incoming \in Incoming :
            /\ clock' = now
            /\ pending' = diffSessions(snapshot, incoming, now)
      BY <1>5 DEF PollStart
    <2>2. phase = "idle" /\ phase' = "polling" /\ UNCHANGED <<open, closed>>
      BY <1>5 DEF PollStart, database
    <2> SUFFICES ASSUME NEW k \in Key, open[k] # None PROVE RowSpanInv(k)'
      BY <2>2 DEF SpanInv, RowSpanInv
    <2>3. snapshot[k] \in SnapshotEntry
      BY <2>2 DEF CleanInv, QuietInv, TypeOK
    <2>4. /\ open[k].watchMs <= open[k].lastSeenAt - open[k].startedAt
          /\ open[k].lastSeenAt <= clock
          /\ open[k].lastSeenAt <= snapshot[k].observedAt
      BY <2>2 DEF SpanInv, RowSpanInv
    <2>5. clock \in Int /\ now \in Int /\ clock <= now /\ now \in Time
      BY <1>1, SMT DEF NextReadings, TypeOK, Time
    <2>6. open[k].lastSeenAt \in Int
      BY <1>1, RowNumbers
    <2>7. open[k].lastSeenAt <= now
      BY <2>4, <2>5, <2>6, SMT
    <2>8. pending'[k] = EventOf(snapshot[k], incoming[k], now)
          /\ incoming[k] \in Stream \cup {None}
      BY <2>1 DEF diffSessions, Incoming
    <2>9. EventOf(snapshot[k], incoming[k], now).watchedMs
            <= now - open[k].lastSeenAt
      BY <2>3, <2>4, <2>5, <2>6, <2>7, <2>8, EventOfBound
    <2> QED
      BY <2>1, <2>2, <2>4, <2>7, <2>8, <2>9 DEF RowSpanInv
  <1>6. CASE SaveSnapshot
    <2>1. /\ phase = "polling" /\ phase' = "idle" /\ pending = Nothing
          /\ snapshot' = SnapshotOf(polled, clock)
          /\ UNCHANGED <<clock, pending, open, closed>>
      BY <1>6 DEF SaveSnapshot, database
    <2> SUFFICES ASSUME NEW k \in Key, open[k] # None PROVE RowSpanInv(k)'
      BY <2>1 DEF SpanInv, RowSpanInv
    <2>2. pending[k] = None
      BY <2>1 DEF Nothing
    <2>3. polled[k] # None
      BY <2>1, <2>2 DEF CleanInv, PollInv, EventInv
    <2>4. snapshot'[k].observedAt = clock
      BY <2>1, <2>3 DEF SnapshotOf
    <2> QED
      BY <2>1, <2>2, <2>4 DEF SpanInv, RowSpanInv
  <1>7. ASSUME NEW k \in Key, ApplyStarted(k) PROVE SpanInv'
    <2>1. Applying(k, {"started"})
      BY <1>7 DEF ApplyStarted
    <2>2. /\ phase = "polling" /\ phase' = "polling" /\ clock' = clock
          /\ pending[k].type = "started" /\ pending[k] # None
          /\ pending' = [pending EXCEPT ![k] = None] /\ EventInv(k)
      BY <2>1, ApplyingClean DEF Applying
    <2>3. open' = [open EXCEPT ![k] =
                     [startedAt |-> clock, lastSeenAt |-> clock, watchMs |-> 0]]
          /\ closed' = closed
      BY <1>7, <2>2 DEF ApplyStarted, openSession, EventInv
    <2>4. clock \in Int
      BY <1>1, SMT DEF TypeOK, Time
    <2>5. /\ open'[k] = [startedAt |-> clock, lastSeenAt |-> clock, watchMs |-> 0]
          /\ pending'[k] = None
          /\ \A j \in Key \ {k} : open'[j] = open[j]
      BY <1>1, <2>2, <2>3 DEF TypeOK
    <2>6. RowSpanInv(k)'
      BY <2>2, <2>4, <2>5, SMT DEF RowSpanInv
    <2>7. \A j \in Key \ {k} : RowSpanInv(j)'
      BY <2>2, <2>5, OthersKeepSpan
    <2> QED
      BY <2>3, <2>6, <2>7 DEF SpanInv
  <1>8. ASSUME NEW k \in Key, ApplyTouched(k) PROVE SpanInv'
    <2>1. Applying(k, {"resumed", "paused", "progressed"})
      BY <1>8 DEF ApplyTouched
    <2>2. /\ phase = "polling" /\ phase' = "polling" /\ clock' = clock
          /\ pending[k].type \in {"resumed", "paused", "progressed"}
          /\ pending[k] # None
          /\ pending' = [pending EXCEPT ![k] = None] /\ EventInv(k)
      BY <2>1, ApplyingClean DEF Applying
    <2>3. open[k] # None
      BY <2>2, SMT DEF EventInv
    <2> DEFINE w == pending[k].watchedMs
    <2>4. open' = [open EXCEPT ![k] = Seen(open[k], w)] /\ closed' = closed
      BY <1>8, <2>3 DEF ApplyTouched, touchSession
    <2>5. /\ open'[k] = Seen(open[k], w) /\ pending'[k] = None
          /\ \A j \in Key \ {k} : open'[j] = open[j]
      BY <1>1, <2>2, <2>4 DEF TypeOK
    <2>6. RowSpanInv(k)'
      <3>1. w \in Nat
        BY <1>1, <2>1, ApplyingType
      <3>2. /\ open[k].watchMs <= open[k].lastSeenAt - open[k].startedAt
            /\ w <= clock - open[k].lastSeenAt
        BY <2>2, <2>3 DEF SpanInv, RowSpanInv
      <3>3. /\ open[k].startedAt \in Int /\ open[k].lastSeenAt \in Int
            /\ open[k].watchMs \in Nat /\ clock \in Int
        BY <1>1, <2>3, RowNumbers
      <3>4. open[k].watchMs + w <= clock - open[k].startedAt
        BY <3>1, <3>2, <3>3, SMT
      <3> QED
        BY <2>2, <2>5, <3>3, <3>4, SMT DEF RowSpanInv, Seen
    <2>7. \A j \in Key \ {k} : RowSpanInv(j)'
      BY <2>2, <2>5, OthersKeepSpan
    <2> QED
      BY <2>4, <2>6, <2>7 DEF SpanInv
  <1>9. ASSUME NEW k \in Key, ApplyEnded(k) PROVE SpanInv'
    <2>1. Applying(k, {"ended"})
      BY <1>9 DEF ApplyEnded
    <2>2. /\ phase = "polling" /\ phase' = "polling" /\ clock' = clock
          /\ pending[k].type = "ended" /\ pending[k] # None
          /\ pending' = [pending EXCEPT ![k] = None] /\ EventInv(k)
      BY <2>1, ApplyingClean DEF Applying
    <2>3. open[k] # None
      BY <2>2 DEF EventInv
    <2>4. pending[k] \in Event /\ pending[k].watchedMs \in Nat
      BY <1>1, <2>1, ApplyingType
    <2>5. IsCompleted(polled[k] # None, pending[k].far) \in BOOLEAN
      BY <2>4, ConstantsAssumption DEF IsCompleted, Event
    <2>6. pending[k].watchedMs <= clock - open[k].lastSeenAt
      BY <2>2, <2>3 DEF SpanInv, RowSpanInv
    <2>7. \A d \in Day, j \in Key : closed'[d][j].watchMs <= closed'[d][j].span
      BY <1>1, <1>9, <2>3, <2>4, <2>5, <2>6, CloseKeepsSpan DEF ApplyEnded
    <2>8. open' = [open EXCEPT ![k] = None]
      BY <1>9, <2>3 DEF ApplyEnded, closeSession
    <2>9. open'[k] = None /\ \A j \in Key \ {k} : open'[j] = open[j]
      BY <1>1, <2>8 DEF TypeOK
    <2>10. \A j \in Key \ {k} : RowSpanInv(j)'
      BY <2>2, <2>9, OthersKeepSpan
    <2> QED
      BY <2>7, <2>9, <2>10 DEF SpanInv, RowSpanInv
  <1>10. CASE PollFails \/ Crash
    BY <1>10 DEF PollFails, Crash
  <1> QED
    BY <1>2, <1>3, <1>4, <1>5, <1>6, <1>7, <1>8, <1>9, <1>10 DEF Next

\* When no poll fails, the process does not die and the clock does not step back,
\* no session is credited more watch time than it lasted, however long the app
\* stalls between two polls.
THEOREM WatchFitsWithoutFaults ==
  ASSUME Faults = {}, ClockSteps \subseteq Nat
  PROVE  Spec => []WatchWithinSpan
  <1>1. Init => SpanInv
    BY SMT DEF Init, SpanInv, RowSpanInv, Nothing
  <1>2. SpanInv => WatchWithinSpan
    BY DEF SpanInv, RowSpanInv, WatchWithinSpan
  <1> QED
    BY <1>1, <1>2, CleanAlways, SpanStep, PTL DEF Spec
=============================================================================
