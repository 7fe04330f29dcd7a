----------------------- MODULE PlaybackTrackingProofs -----------------------
(* Proofs about PlaybackTracking, for every value of its constants.          *)
EXTENDS PlaybackTracking, TLAPS

-----------------------------------------------------------------------------
(* The operators of the diff return what their types promise.               *)

\* A reading of the clock falls on a day of the model.
LEMMA utcDayType == ASSUME NEW t \in Time PROVE utcDay(t) \in Day
  BY DEF Day

\* The credit of an interval is never negative and never above the cap.
LEMMA creditForType ==
  ASSUME NEW before \in SnapshotEntry, NEW now \in Time
  PROVE  creditFor(before, now) \in 0 .. MaxWatchDelta
  BY ConstantsAssumption, SMT DEF creditFor, SnapshotEntry, Time

LEMMA EventOfType ==
  ASSUME NEW before \in SnapshotEntry \cup {None}, NEW live \in Stream \cup {None},
         NEW now \in Time
  PROVE  EventOf(before, live, now) \in Event \cup {None}
  <1>1. CASE before = None
    BY <1>1, NoneAssumption, SMT DEF EventOf, Event, Stream
  <1>2. CASE before # None
    <2>1. before \in SnapshotEntry
      BY <1>2
    <2>2. creditFor(before, now) \in Nat
      BY <2>1, creditForType, ConstantsAssumption, SMT
    <2>3. before.far \in Progress
      BY <2>1 DEF SnapshotEntry
    <2>4. CASE live = None
      BY <1>2, <2>2, <2>3, <2>4, SMT DEF EventOf, Event
    <2>5. CASE live # None
      <3>1. live.far \in Progress
        BY <2>5 DEF Stream
      <3> QED
        BY <1>2, <2>2, <2>5, <3>1, SMT DEF EventOf, Event
    <2> QED
      BY <2>4, <2>5
  <1> QED
    BY <1>1, <1>2

LEMMA diffSessionsType ==
  ASSUME NEW previous \in [Key -> SnapshotEntry \cup {None}],
         NEW incoming \in [Key -> Stream \cup {None}], NEW now \in Time
  PROVE  diffSessions(previous, incoming, now) \in [Key -> Event \cup {None}]
  BY EventOfType DEF diffSessions

LEMMA SnapshotOfType ==
  ASSUME NEW incoming \in [Key -> Stream \cup {None}], NEW now \in Time
  PROVE  SnapshotOf(incoming, now) \in [Key -> SnapshotEntry \cup {None}]
  BY SMT DEF SnapshotOf, SnapshotEntry, Stream

\* A session write owes a delta of the right type, on the row's start day.
LEMMA OwedType ==
  ASSUME open \in [Key -> Row \cup {None}], NEW k \in Key,
         NEW plays \in Nat, NEW watchedMs \in Nat
  PROVE  Owed(k, plays, watchedMs) \in Delta \cup {None}
  <1>1. CASE open[k] = None
    BY <1>1 DEF Owed
  <1>2. CASE open[k] # None
    <2>1. open[k].startedAt \in Time
      BY <1>2 DEF Row
    <2> QED
      BY <2>1, utcDayType, SMT DEF Owed, Delta
  <1> QED
    BY <1>1, <1>2

\* A row a poll has written to is a row, and its watch time grew by the credit.
LEMMA SeenType ==
  ASSUME NEW row \in Row, NEW w \in Nat, clock \in Time
  PROVE  Seen(row, w) \in Row
  BY SMT DEF Seen, Row

\* What a close does to the two halves of playback_sessions.
LEMMA closeSessionType ==
  ASSUME TypeOK, NEW k \in Key, NEW w \in Nat, NEW at \in Int,
         NEW completed \in BOOLEAN,
         closeSession(k, w, at, completed)
  PROVE  /\ open' \in [Key -> Row \cup {None}]
         /\ closed' \in [Day -> [Key -> ClosedRows]]
  <1>1. CASE open[k] = None
    BY <1>1 DEF closeSession, TypeOK
  <1>2. CASE open[k] # None
    <2>1. open[k] \in Row
      BY <1>2 DEF TypeOK
    <2>2. open[k].startedAt \in Time /\ open[k].startedAt \in Int
      BY <2>1, SMT DEF Row, Time
    <2> DEFINE d == utcDay(open[k].startedAt)
               c == closed[d][k]
               new == [plays |-> c.plays + 1,
                       watchMs |-> c.watchMs + open[k].watchMs + w,
                       span |-> c.span + (at - open[k].startedAt),
                       completed |-> c.completed + (IF completed THEN 1 ELSE 0)]
    <2>3. d \in Day
      BY <2>2, utcDayType
    <2>4. c \in ClosedRows
      BY <2>3 DEF TypeOK
    <2>5. open[k].watchMs \in Nat
      BY <2>1 DEF Row
    <2>6. new \in ClosedRows
      BY <2>2, <2>4, <2>5, SMT DEF ClosedRows
    <2>7. closed' = [closed EXCEPT ![d][k] = new] /\ open' = [open EXCEPT ![k] = None]
      BY <1>2 DEF closeSession
    <2>8. closed' \in [Day -> [Key -> ClosedRows]]
      BY <2>3, <2>6, <2>7 DEF TypeOK
    <2> QED
      BY <2>7, <2>8 DEF TypeOK
  <1> QED
    BY <1>1, <1>2

-----------------------------------------------------------------------------
(* Type correctness.                                                        *)

LEMMA InitTypeOK == Init => TypeOK
  <1> SUFFICES ASSUME Init PROVE TypeOK
    OBVIOUS
  <1> USE DEF Init
  <1>1. Nothing \in [Key -> Stream \cup {None}]
        /\ Nothing \in [Key -> SnapshotEntry \cup {None}]
        /\ Nothing \in [Key -> Event \cup {None}]
        /\ Nothing \in [Key -> Row \cup {None}]
    BY DEF Nothing
  <1>2. closed \in [Day -> [Key -> ClosedRows]]
    BY DEF ClosedRows
  <1>3. rollup \in [Day -> [Key -> Total]]
    BY DEF Total
  <1>4. clock \in Time /\ polls \in 0 .. MaxPolls
    BY ConstantsAssumption DEF Time
  <1> QED
    BY <1>1, <1>2, <1>3, <1>4 DEF TypeOK

\* The state an action of Applying leaves alone, and the event it consumes.
LEMMA ApplyingType ==
  ASSUME TypeOK, NEW k \in Key, NEW types, Applying(k, types)
  PROVE  /\ pending[k] \in Event
         /\ pending[k].watchedMs \in Nat
         /\ clock \in Time /\ clock \in Int
         /\ pending' \in [Key -> Event \cup {None}]
  BY SMT DEF TypeOK, Applying, IsNext, Event, Time

LEMMA NextTypeOK == TypeOK /\ [Next]_vars => TypeOK'
  <1> SUFFICES ASSUME TypeOK, [Next]_vars PROVE TypeOK'
    OBVIOUS
  <1>1. Nothing \in [Key -> Stream \cup {None}]
        /\ Nothing \in [Key -> SnapshotEntry \cup {None}]
        /\ Nothing \in [Key -> Event \cup {None}]
    BY DEF Nothing
  <1>2. NextReadings \subseteq Time
    BY DEF NextReadings
  <1>3. Incoming \subseteq [Key -> Stream \cup {None}]
    BY DEF Incoming
  <1>4. Dropped \subseteq Day \X Key
    BY DEF Dropped, TypeOK, Delta
  <1>5. CASE Boot
    BY <1>2, <1>5 DEF Boot, findStaleOpenSessions, database, TypeOK
  <1>6. CASE ReconcileDone
    BY <1>6 DEF ReconcileDone, database, TypeOK
  <1>7. CASE PollStart
    <2>1. PICK now \in NextReadings, incoming \in Incoming :
            /\ clock' = now
            /\ polled' = incoming
            /\ pending' = diffSessions(snapshot, incoming, now)
      BY <1>7 DEF PollStart
    <2>2. pending' \in [Key -> Event \cup {None}]
      BY <1>2, <1>3, <2>1, diffSessionsType DEF TypeOK
    <2>3. polls' \in 0 .. MaxPolls
      BY <1>7, ConstantsAssumption, SMT DEF PollStart, TypeOK
    <2> QED
      BY <1>2, <1>3, <1>7, <2>1, <2>2, <2>3 DEF PollStart, database, TypeOK
  <1>8. CASE ApplyRollupDelta
    <2>1. delta \in Delta
      BY <1>8 DEF ApplyRollupDelta, TypeOK
    <2>2. delta.day \in Day /\ delta.key \in Key /\ delta.plays \in Nat
          /\ delta.watchMs \in Nat
      BY <2>1 DEF Delta
    <2> DEFINE was == rollup[delta.day][delta.key]
               new == [plays |-> was.plays + delta.plays,
                       watchMs |-> was.watchMs + delta.watchMs]
    <2>3. was \in Total
      BY <2>2 DEF TypeOK
    <2>4. new \in Total
      BY <2>2, <2>3, SMT DEF Total
    <2>5. rollup' = [rollup EXCEPT ![delta.day][delta.key] = new]
      BY <1>8 DEF ApplyRollupDelta
    <2>6. rollup' \in [Day -> [Key -> Total]]
      BY <2>2, <2>4, <2>5 DEF TypeOK
    <2> QED
      BY <1>8, <2>6 DEF ApplyRollupDelta, TypeOK
  <1>9. CASE SaveSnapshot
    BY <1>1, <1>9, SnapshotOfType DEF SaveSnapshot, database, TypeOK
  <1>10. CASE Recompute
    <2>1. PICK now \in NextReadings :
            /\ clock' = now
            /\ rollup' = [d \in Day |->
                 IF d \in RollupWindow(now) THEN [k \in Key |-> Recorded(d, k)]
                 ELSE rollup[d]]
            /\ lost' = {e \in lost : e[1] \notin RollupWindow(now)}
      BY <1>10 DEF Recompute
    <2>2. ASSUME NEW d \in Day, NEW k \in Key
          PROVE  Recorded(d, k) \in Total
      <3>1. closed[d][k].plays \in Nat /\ closed[d][k].watchMs \in Nat
        BY DEF TypeOK, ClosedRows
      <3>2. open[k] # None => open[k].watchMs \in Nat
        BY DEF TypeOK, Row
      <3> QED
        BY <3>1, <3>2, SMT DEF Recorded, Total
    <2>3. rollup' \in [Day -> [Key -> Total]]
      BY <2>1, <2>2 DEF TypeOK
    <2> QED
      BY <1>2, <1>10, <2>1, <2>3 DEF Recompute, TypeOK
  <1>11. CASE PollFails
    BY <1>1, <1>4, <1>11 DEF PollFails, database, TypeOK
  <1>12. CASE Crash
    BY <1>1, <1>4, <1>12 DEF Crash, database, TypeOK
  <1>13. ASSUME NEW k \in Key, ReconcileClose(k) PROVE TypeOK'
    <2>1. CASE open[k] = None
      <3>1. open' = open /\ closed' = closed
        BY <1>13, <2>1 DEF ReconcileClose, closeSession
      <3>2. delta' = None
        BY <1>13, <2>1 DEF ReconcileClose, Owed
      <3> QED
        BY <1>13, <3>1, <3>2 DEF ReconcileClose, TypeOK
    <2>2. CASE open[k] # None
      <3>1. open[k].lastSeenAt \in Int
        BY <2>2, SMT DEF TypeOK, Row, Time
      <3>2. IsCompleted(FALSE, FALSE) \in BOOLEAN
        BY DEF IsCompleted
      <3>3. closed' \in [Day -> [Key -> ClosedRows]]
            /\ open' \in [Key -> Row \cup {None}]
        BY <1>13, <3>1, <3>2, closeSessionType DEF ReconcileClose
      <3>4. delta' \in Delta \cup {None}
        BY <1>13, OwedType DEF ReconcileClose, TypeOK
      <3> QED
        BY <1>13, <3>3, <3>4 DEF ReconcileClose, TypeOK
    <2> QED
      BY <2>1, <2>2
  <1>14. ASSUME NEW k \in Key, ApplyStarted(k) PROVE TypeOK'
    <2>1. Applying(k, {"started"})
      BY <1>14 DEF ApplyStarted
    <2>2. pending' \in [Key -> Event \cup {None}]
      BY <2>1, ApplyingType
    <2>3. [startedAt |-> clock, lastSeenAt |-> clock, watchMs |-> 0] \in Row
      BY DEF TypeOK, Row
    <2>4. open[k] # None => Seen(open[k], 0) \in Row
      BY SeenType DEF TypeOK
    <2>5. open' \in [Key -> Row \cup {None}]
      BY <1>14, <2>3, <2>4 DEF ApplyStarted, openSession, TypeOK
    <2> QED
      BY <1>14, <2>2, <2>5 DEF ApplyStarted, Applying, TypeOK
  <1>15. ASSUME NEW k \in Key, ApplyTouched(k) PROVE TypeOK'
    <2>1. Applying(k, {"resumed", "paused", "progressed"})
      BY <1>15 DEF ApplyTouched
    <2>2. pending' \in [Key -> Event \cup {None}] /\ pending[k].watchedMs \in Nat
      BY <2>1, ApplyingType
    <2> DEFINE row == Seen(open[k], pending[k].watchedMs)
    <2>3. open[k] # None => row \in Row
      BY <2>2, SeenType DEF TypeOK
    <2>4. open' = [open EXCEPT ![k] = IF open[k] = None THEN None ELSE row]
      BY <1>15 DEF ApplyTouched, touchSession
    <2>5. open' \in [Key -> Row \cup {None}]
      BY <2>3, <2>4 DEF TypeOK
    <2>6. delta' \in Delta \cup {None}
      BY <1>15, <2>2, OwedType DEF ApplyTouched, TypeOK
    <2> QED
      BY <1>15, <2>1, <2>2, <2>5, <2>6 DEF ApplyTouched, Applying, TypeOK
  <1>16. ASSUME NEW k \in Key, ApplyEnded(k) PROVE TypeOK'
    <2>1. Applying(k, {"ended"})
      BY <1>16 DEF ApplyEnded
    <2>2. pending' \in [Key -> Event \cup {None}] /\ pending[k].watchedMs \in Nat
          /\ clock \in Int /\ pending[k] \in Event
      BY <2>1, ApplyingType
    <2>3. IsCompleted(polled[k] # None, pending[k].far) \in BOOLEAN
      BY <2>2, ConstantsAssumption DEF IsCompleted, Event
    <2>4. closed' \in [Day -> [Key -> ClosedRows]]
          /\ open' \in [Key -> Row \cup {None}]
      BY <1>16, <2>2, <2>3, closeSessionType DEF ApplyEnded
    <2>5. delta' \in Delta \cup {None}
      BY <1>16, <2>2, OwedType DEF ApplyEnded, TypeOK
    <2> QED
      BY <2>1, <2>2, <2>4, <2>5 DEF Applying, TypeOK
  <1>17. CASE UNCHANGED vars
    BY <1>17 DEF vars, TypeOK
  <1> QED
    BY <1>5, <1>6, <1>7, <1>8, <1>9, <1>10, <1>11, <1>12, <1>13, <1>14, <1>15,
       <1>16, <1>17 DEF Next

\* Every reachable state has the shape TypeOK describes.
THEOREM TypeCorrect == Spec => []TypeOK
  BY InitTypeOK, NextTypeOK, PTL DEF Spec

-----------------------------------------------------------------------------
(* The rollup against playback_sessions.                                    *)

\* No delta is in flight between two jobs or while the process is down.
DeltaOnlyInFlight == phase \in {"idle", "down"} => delta = None

AgreementInv ==
  /\ TypeOK
  /\ DeltaOnlyInFlight
  /\ RollupNeverAhead
  /\ DriftOnlyWhereDeltaLost

\* The entry of k on d is at or below the sessions, and below only if a fault
\* dropped a delta for it.
Agrees(d, k) ==
  /\ Settled(d, k).plays <= Recorded(d, k).plays
  /\ Settled(d, k).watchMs <= Recorded(d, k).watchMs
  /\ \/ /\ Settled(d, k).plays = Recorded(d, k).plays
        /\ Settled(d, k).watchMs = Recorded(d, k).watchMs
     \/ <<d, k>> \in lost

LEMMA AgreesIff ==
  RollupNeverAhead /\ DriftOnlyWhereDeltaLost
    <=> \A d \in Day, k \in Key : Agrees(d, k)
  <1>1. ASSUME NEW d \in Day, NEW k \in Key
        PROVE  Settled(d, k) = Recorded(d, k)
                 <=> /\ Settled(d, k).plays = Recorded(d, k).plays
                     /\ Settled(d, k).watchMs = Recorded(d, k).watchMs
    BY SMT DEF Settled, Recorded
  <1> QED
    BY <1>1 DEF RollupNeverAhead, DriftOnlyWhereDeltaLost, Agrees

LEMMA AgreesIffNext ==
  (\A d \in Day, k \in Key : Agrees(d, k)')
    => RollupNeverAhead' /\ DriftOnlyWhereDeltaLost'
  <1>1. (RollupNeverAhead /\ DriftOnlyWhereDeltaLost
           <=> \A d \in Day, k \in Key : Agrees(d, k))'
    BY AgreesIff, PTL
  <1> QED
    BY <1>1

LEMMA TotalsType ==
  ASSUME TypeOK, NEW d \in Day, NEW k \in Key
  PROVE  /\ Recorded(d, k) \in Total
         /\ Settled(d, k) \in Total
         /\ rollup[d][k].plays \in Nat
         /\ rollup[d][k].watchMs \in Nat
  <1>1. closed[d][k].plays \in Nat /\ closed[d][k].watchMs \in Nat
    BY DEF TypeOK, ClosedRows
  <1>2. open[k] # None => open[k].watchMs \in Nat
    BY DEF TypeOK, Row
  <1>3. rollup[d][k].plays \in Nat /\ rollup[d][k].watchMs \in Nat
    BY DEF TypeOK, Total
  <1>4. delta # None => delta.plays \in Nat /\ delta.watchMs \in Nat
    BY DEF TypeOK, Delta
  <1> QED
    BY <1>1, <1>2, <1>3, <1>4, SMT DEF Recorded, Settled, Total

\* The watch time of an open row, on the day it started.
OpenWatch(d, k) ==
  IF open[k] # None /\ utcDay(open[k].startedAt) = d THEN open[k].watchMs ELSE 0

\* Whether a write to the open row of k is a write to the entry of j on d.
Hits(k, d, j) == open[k] # None /\ j = k /\ utcDay(open[k].startedAt) = d

\* A session write that owes the rollup exactly what it adds to the sessions
\* keeps the two in agreement.
LEMMA OwedStep ==
  ASSUME AgreementInv, NEW k \in Key, NEW p \in Nat, NEW w \in Nat,
         delta = None, delta' = Owed(k, p, w), rollup' = rollup, lost' = lost,
         \A d \in Day, j \in Key :
           /\ Recorded(d, j).plays' =
                Recorded(d, j).plays + (IF Hits(k, d, j) THEN p ELSE 0)
           /\ Recorded(d, j).watchMs' =
                Recorded(d, j).watchMs + (IF Hits(k, d, j) THEN w ELSE 0)
  PROVE  RollupNeverAhead' /\ DriftOnlyWhereDeltaLost'
  <1> SUFFICES ASSUME NEW d \in Day, NEW j \in Key PROVE Agrees(d, j)'
    BY AgreesIffNext
  <1>1. Agrees(d, j)
    BY AgreesIff DEF AgreementInv
  <1>2. /\ Recorded(d, j).plays \in Nat /\ Recorded(d, j).watchMs \in Nat
        /\ rollup[d][j].plays \in Nat /\ rollup[d][j].watchMs \in Nat
    BY TotalsType DEF AgreementInv, Total
  <1>3. Settled(d, j).plays = rollup[d][j].plays
        /\ Settled(d, j).watchMs = rollup[d][j].watchMs
    BY <1>2, SMT DEF Settled
  <1>4. None \notin Delta
    BY NoneAssumption
  <1>5. Owed(k, p, w) # None =>
          /\ Owed(k, p, w).day = utcDay(open[k].startedAt)
          /\ Owed(k, p, w).key = k
          /\ Owed(k, p, w).plays = p
          /\ Owed(k, p, w).watchMs = w
          /\ open[k] # None
    BY SMT DEF Owed
  <1>6. Owed(k, p, w) = None => open[k] = None \/ (p = 0 /\ w = 0)
    <2>1. Owed(k, p, w) \in Delta \/ open[k] = None \/ (p = 0 /\ w = 0)
      <3>1. CASE open[k] = None
        BY <3>1
      <3>2. CASE open[k] # None
        <4>1. utcDay(open[k].startedAt) \in Day
          BY <3>2, utcDayType DEF AgreementInv, TypeOK, Row
        <4> QED
          BY <4>1 DEF Owed, Delta
      <3> QED
        BY <3>1, <3>2
    <2> QED
      BY <2>1, <1>4
  <1>7. /\ Settled(d, j).plays' =
             rollup[d][j].plays + (IF Hits(k, d, j) THEN p ELSE 0)
        /\ Settled(d, j).watchMs' =
             rollup[d][j].watchMs + (IF Hits(k, d, j) THEN w ELSE 0)
    BY <1>2, <1>5, <1>6, SMT DEF Settled, Hits
  <1> QED
    BY <1>1, <1>2, <1>3, <1>7, SMT DEF Agrees

\* A close adds one play and the final credit to the sessions.
LEMMA CloseStep ==
  ASSUME AgreementInv, NEW k \in Key, NEW w \in Nat, NEW at, NEW completed,
         closeSession(k, w, at, completed)
  PROVE  \A d \in Day, j \in Key :
           /\ Recorded(d, j).plays' =
                Recorded(d, j).plays + (IF Hits(k, d, j) THEN 1 ELSE 0)
           /\ Recorded(d, j).watchMs' =
                Recorded(d, j).watchMs + (IF Hits(k, d, j) THEN w ELSE 0)
  <1> SUFFICES ASSUME NEW d \in Day, NEW j \in Key
               PROVE  /\ Recorded(d, j).plays' =
                           Recorded(d, j).plays + (IF Hits(k, d, j) THEN 1 ELSE 0)
                      /\ Recorded(d, j).watchMs' =
                           Recorded(d, j).watchMs + (IF Hits(k, d, j) THEN w ELSE 0)
    OBVIOUS
  <1>1. closed[d][j].plays \in Nat /\ closed[d][j].watchMs \in Nat
    BY DEF AgreementInv, TypeOK, ClosedRows
  <1>2. open[j] # None => open[j].watchMs \in Nat
    BY DEF AgreementInv, TypeOK, Row
  <1>3. CASE open[k] = None
    BY <1>1, <1>2, <1>3, SMT DEF closeSession, Recorded, Hits
  <1>4. CASE open[k] # None
    <2> DEFINE day == utcDay(open[k].startedAt)
               c == closed[day][k]
               new == [plays |-> c.plays + 1,
                       watchMs |-> c.watchMs + open[k].watchMs + w,
                       span |-> c.span + (at - open[k].startedAt),
                       completed |-> c.completed + (IF completed THEN 1 ELSE 0)]
    <2>1. day \in Day
      BY <1>4, utcDayType DEF AgreementInv, TypeOK, Row
    <2>2. closed' = [closed EXCEPT ![day][k] = new] /\ open' = [open EXCEPT ![k] = None]
      BY <1>4 DEF closeSession
    <2>3. closed \in [Day -> [Key -> ClosedRows]] /\ open \in [Key -> Row \cup {None}]
      BY DEF AgreementInv, TypeOK
    <2>4. new.plays = c.plays + 1 /\ new.watchMs = c.watchMs + open[k].watchMs + w
      OBVIOUS
    <2>5. CASE j = k /\ d = day
      <3>1. closed'[d][j] = new /\ open'[j] = None
        BY <2>1, <2>2, <2>3, <2>5
      <3>2. Hits(k, d, j)
        BY <1>4, <2>5 DEF Hits
      <3>3. Recorded(d, j).plays' = new.plays /\ Recorded(d, j).watchMs' = new.watchMs + 0
        BY <3>1 DEF Recorded
      <3>4. Recorded(d, j).plays = c.plays
            /\ Recorded(d, j).watchMs = c.watchMs + open[k].watchMs
        BY <1>4, <2>5 DEF Recorded
      <3> HIDE DEF new, c, day
      <3> QED
        BY <1>1, <1>2, <1>4, <2>4, <2>5, <3>2, <3>3, <3>4, SMT DEF c
    <2>6. CASE ~(j = k /\ d = day)
      <3>1. closed'[d][j] = closed[d][j]
        BY <2>1, <2>2, <2>3, <2>6
      <3>2. ~Hits(k, d, j)
        BY <2>6 DEF Hits
      <3>3. OpenWatch(d, j)' = OpenWatch(d, j)
        BY <1>4, <2>2, <2>3, <2>6 DEF OpenWatch
      <3>4. Recorded(d, j).plays = closed[d][j].plays
            /\ Recorded(d, j).watchMs = closed[d][j].watchMs + OpenWatch(d, j)
        BY DEF Recorded, OpenWatch
      <3>5. Recorded(d, j).plays' = closed'[d][j].plays
            /\ Recorded(d, j).watchMs' = closed'[d][j].watchMs + OpenWatch(d, j)'
        BY DEF Recorded, OpenWatch
      <3>6. OpenWatch(d, j) \in Nat
        BY <1>2 DEF OpenWatch
      <3> QED
        BY <1>1, <3>1, <3>2, <3>3, <3>4, <3>5, <3>6, SMT
    <2> QED
      BY <2>5, <2>6
  <1> QED
    BY <1>3, <1>4

\* Opening a row, or finding it open, records nothing yet.
LEMMA StartStep ==
  ASSUME AgreementInv, NEW k \in Key, ApplyStarted(k),
         NEW d \in Day, NEW j \in Key
  PROVE  Recorded(d, j)' = Recorded(d, j)
  <1>0. openSession(k) /\ closed' = closed
    BY DEF ApplyStarted
  <1>1. open[j] # None => open[j].watchMs \in Nat
    BY DEF AgreementInv, TypeOK, Row
  <1>2. open \in [Key -> Row \cup {None}]
    BY DEF AgreementInv, TypeOK
  <1>3. CASE j # k
    <2>1. open'[j] = open[j]
      BY <1>0, <1>2, <1>3 DEF openSession
    <2> QED
      BY <1>0, <2>1 DEF Recorded
  <1>4. CASE j = k
    <2> DEFINE fresh == [startedAt |-> clock, lastSeenAt |-> clock, watchMs |-> 0]
    <2>1. open'[k] = IF open[k] = None THEN fresh ELSE Seen(open[k], 0)
      BY <1>0, <1>2 DEF openSession
    <2>2. clock \in Time
      BY DEF AgreementInv, TypeOK
    <2>3. fresh \in Row
      BY <2>2 DEF Row
    <2>4. open[k] # None =>
            /\ Seen(open[k], 0) \in Row
            /\ Seen(open[k], 0).watchMs = open[k].watchMs
            /\ Seen(open[k], 0).startedAt = open[k].startedAt
      <3> SUFFICES ASSUME open[k] # None
                   PROVE  /\ Seen(open[k], 0) \in Row
                          /\ Seen(open[k], 0).watchMs = open[k].watchMs
                          /\ Seen(open[k], 0).startedAt = open[k].startedAt
        OBVIOUS
      <3>1. open[k] \in Row
        BY <1>2
      <3>2. Seen(open[k], 0) \in Row
        BY <2>2, <3>1, SeenType
      <3> QED
        BY <1>1, <1>4, <3>2, SMT DEF Seen
    <2>5. open'[k] # None
      BY <2>1, <2>3, <2>4, NoneAssumption
    <2>6. OpenWatch(d, k)' = OpenWatch(d, k)
      <3>1. CASE open[k] = None
        BY <2>1, <3>1 DEF OpenWatch
      <3>2. CASE open[k] # None
        BY <2>1, <2>4, <2>5, <3>2 DEF OpenWatch
      <3> QED
        BY <3>1, <3>2
    <2> QED
      BY <1>0, <1>4, <2>6 DEF Recorded, OpenWatch
  <1> QED
    BY <1>3, <1>4

\* A touch records the credit of its event, if the row is open.
LEMMA TouchStep ==
  ASSUME AgreementInv, NEW k \in Key, ApplyTouched(k),
         NEW d \in Day, NEW j \in Key, NEW w, w = pending[k].watchedMs
  PROVE  /\ Recorded(d, j).plays' =
              Recorded(d, j).plays + (IF Hits(k, d, j) THEN 0 ELSE 0)
         /\ Recorded(d, j).watchMs' =
              Recorded(d, j).watchMs + (IF Hits(k, d, j) THEN w ELSE 0)
  <1>a. touchSession(k, w) /\ closed' = closed
    BY DEF ApplyTouched, Applying
  <1>b. w \in Nat
    BY ApplyingType DEF ApplyTouched, AgreementInv
  <1>1. open[j] # None => open[j].watchMs \in Nat
    BY DEF AgreementInv, TypeOK, Row
  <1>2. open \in [Key -> Row \cup {None}] /\ clock \in Time
    BY DEF AgreementInv, TypeOK
  <1>3. closed[d][j].plays \in Nat /\ closed[d][j].watchMs \in Nat
    BY DEF AgreementInv, TypeOK, ClosedRows
  <1>4. open'[j] = IF j = k /\ open[k] # None THEN Seen(open[k], w) ELSE open[j]
    BY <1>a, <1>2 DEF touchSession
  <1>5. open[k] # None =>
          /\ Seen(open[k], w).watchMs = open[k].watchMs + w
          /\ Seen(open[k], w).startedAt = open[k].startedAt
    BY DEF Seen
  <1>6. open[k] # None => Seen(open[k], w) # None
    BY <1>b, <1>2, SeenType, NoneAssumption
  <1>7. OpenWatch(d, j)' = OpenWatch(d, j) + (IF Hits(k, d, j) THEN w ELSE 0)
    <2>1. CASE j = k /\ open[k] # None
      BY <1>b, <1>1, <1>4, <1>5, <1>6, <2>1, SMT DEF OpenWatch, Hits
    <2>2. CASE ~(j = k /\ open[k] # None)
      <3>1. OpenWatch(d, j)' = OpenWatch(d, j) /\ ~Hits(k, d, j)
        BY <1>4, <2>2 DEF OpenWatch, Hits
      <3>2. OpenWatch(d, j) \in Nat
        BY <1>1 DEF OpenWatch
      <3> QED
        BY <3>1, <3>2, SMT
    <2> QED
      BY <2>1, <2>2
  <1>8. OpenWatch(d, j) \in Nat
    BY <1>1 DEF OpenWatch
  <1>9. /\ Recorded(d, j).plays = closed[d][j].plays
        /\ Recorded(d, j).watchMs = closed[d][j].watchMs + OpenWatch(d, j)
        /\ Recorded(d, j).plays' = closed[d][j].plays
        /\ Recorded(d, j).watchMs' = closed[d][j].watchMs + OpenWatch(d, j)'
    BY <1>a DEF Recorded, OpenWatch
  <1> QED
    BY <1>b, <1>3, <1>7, <1>8, <1>9, SMT

\* A step that writes neither table, and drops no delta unless it records the
\* loss, keeps the two in agreement.
LEMMA NoWriteStep ==
  ASSUME AgreementInv, UNCHANGED database,
         \/ delta' = delta /\ lost' = lost
         \/ delta' = None /\ lost' = lost \cup Dropped
  PROVE  RollupNeverAhead' /\ DriftOnlyWhereDeltaLost'
  <1> SUFFICES ASSUME NEW d \in Day, NEW k \in Key PROVE Agrees(d, k)'
    BY AgreesIffNext
  <1>1. Agrees(d, k)
    BY AgreesIff DEF AgreementInv
  <1>2. Recorded(d, k)' = Recorded(d, k)
    BY DEF Recorded, database
  <1>3. rollup' = rollup
    BY DEF database
  <1>4. CASE delta' = delta /\ lost' = lost
    <2>1. Settled(d, k)' = Settled(d, k)
      BY <1>3, <1>4 DEF Settled
    <2> QED
      BY <1>1, <1>2, <1>4, <2>1 DEF Agrees
  <1>5. CASE delta' = None /\ lost' = lost \cup Dropped
    <2> DEFINE owed == delta # None /\ delta.day = d /\ delta.key = k
    <2>1. /\ Settled(d, k)'.plays = rollup[d][k].plays
          /\ Settled(d, k)'.watchMs = rollup[d][k].watchMs
      <3>1. Settled(d, k)' = [plays |-> rollup[d][k].plays + 0,
                              watchMs |-> rollup[d][k].watchMs + 0]
        BY <1>3, <1>5 DEF Settled
      <3> QED
        BY <3>1, TotalsType, SMT DEF AgreementInv
    <2>2. CASE owed
      <3>1. <<d, k>> \in lost'
        BY <1>5, <2>2 DEF Dropped
      <3>2. delta.plays \in Nat /\ delta.watchMs \in Nat
        BY <2>2 DEF AgreementInv, TypeOK, Delta
      <3>3. Settled(d, k) = [plays |-> rollup[d][k].plays + delta.plays,
                             watchMs |-> rollup[d][k].watchMs + delta.watchMs]
        BY <2>2 DEF Settled
      <3>4. Recorded(d, k) \in Total /\ rollup[d][k].plays \in Nat
            /\ rollup[d][k].watchMs \in Nat
        BY TotalsType DEF AgreementInv
      <3>5. /\ rollup[d][k].plays <= Recorded(d, k).plays
            /\ rollup[d][k].watchMs <= Recorded(d, k).watchMs
        BY <1>1, <3>2, <3>3, <3>4, SMT DEF Agrees, Total
      <3> QED
        BY <1>2, <2>1, <3>1, <3>5 DEF Agrees
    <2>3. CASE ~owed
      <3>1. Settled(d, k) = [plays |-> rollup[d][k].plays + 0,
                             watchMs |-> rollup[d][k].watchMs + 0]
        BY <2>3 DEF Settled
      <3>2. Settled(d, k).plays = rollup[d][k].plays
            /\ Settled(d, k).watchMs = rollup[d][k].watchMs
        BY <3>1, TotalsType, SMT DEF AgreementInv
      <3> QED
        BY <1>1, <1>2, <1>5, <2>1, <3>2 DEF Agrees
    <2> QED
      BY <2>2, <2>3
  <1> QED
    BY <1>4, <1>5

LEMMA NextAgreement == AgreementInv /\ [Next]_vars => AgreementInv'
  <1> SUFFICES ASSUME AgreementInv, [Next]_vars PROVE AgreementInv'
    OBVIOUS
  <1>1. TypeOK'
    BY NextTypeOK DEF AgreementInv
  <1>2. DeltaOnlyInFlight'
    BY DEF AgreementInv, DeltaOnlyInFlight, Next, vars, Boot, ReconcileDone,
           PollStart, ApplyRollupDelta, SaveSnapshot, Recompute, PollFails, Crash,
           ReconcileClose, ApplyStarted, ApplyTouched, ApplyEnded, Applying
  <1> SUFFICES RollupNeverAhead' /\ DriftOnlyWhereDeltaLost'
    BY <1>1, <1>2 DEF AgreementInv
  <1>3. CASE Boot
    BY <1>3, NoWriteStep DEF Boot
  <1>4. CASE ReconcileDone
    BY <1>4, NoWriteStep DEF ReconcileDone
  <1>5. CASE PollStart
    BY <1>5, NoWriteStep DEF PollStart
  <1>6. CASE SaveSnapshot
    BY <1>6, NoWriteStep DEF SaveSnapshot
  <1>7. CASE PollFails
    BY <1>7, NoWriteStep DEF PollFails
  <1>8. CASE Crash
    BY <1>8, NoWriteStep DEF Crash
  <1>9. CASE ApplyRollupDelta
    <2> SUFFICES ASSUME NEW d \in Day, NEW k \in Key PROVE Agrees(d, k)'
      BY AgreesIffNext
    <2>1. Agrees(d, k)
      BY AgreesIff DEF AgreementInv
    <2>2. delta \in Delta
      BY <1>9 DEF ApplyRollupDelta, AgreementInv, TypeOK
    <2>3. delta.day \in Day /\ delta.key \in Key /\ delta.plays \in Nat
          /\ delta.watchMs \in Nat
      BY <2>2 DEF Delta
    <2>4. Recorded(d, k)' = Recorded(d, k) /\ lost' = lost
      BY <1>9 DEF ApplyRollupDelta, Recorded
    <2> DEFINE was == rollup[delta.day][delta.key]
               new == [plays |-> was.plays + delta.plays,
                       watchMs |-> was.watchMs + delta.watchMs]
               owed == delta.day = d /\ delta.key = k
    <2>5. delta # None /\ delta' = None
          /\ rollup' = [rollup EXCEPT ![delta.day][delta.key] = new]
      BY <1>9 DEF ApplyRollupDelta
    <2>6. rollup \in [Day -> [Key -> Total]]
      BY DEF AgreementInv, TypeOK
    <2>7. rollup'[d][k] = IF owed THEN new ELSE rollup[d][k]
      BY <2>3, <2>5, <2>6
    <2>8. /\ Settled(d, k)'.plays = rollup'[d][k].plays + 0
          /\ Settled(d, k)'.watchMs = rollup'[d][k].watchMs + 0
      BY <2>5 DEF Settled
    <2>9. /\ Settled(d, k).plays =
               rollup[d][k].plays + (IF owed THEN delta.plays ELSE 0)
          /\ Settled(d, k).watchMs =
               rollup[d][k].watchMs + (IF owed THEN delta.watchMs ELSE 0)
      BY <2>5 DEF Settled
    <2>10. rollup[d][k].plays \in Nat /\ rollup[d][k].watchMs \in Nat
      BY TotalsType DEF AgreementInv
    <2>11. Settled(d, k)'.plays = Settled(d, k).plays
           /\ Settled(d, k)'.watchMs = Settled(d, k).watchMs
      <3>1. CASE owed
        <4>1. new.plays = rollup[d][k].plays + delta.plays
              /\ new.watchMs = rollup[d][k].watchMs + delta.watchMs
          BY <3>1
        <4> HIDE DEF new
        <4> QED
          BY <2>3, <2>7, <2>8, <2>9, <2>10, <3>1, <4>1, SMT
      <3>2. CASE ~owed
        BY <2>7, <2>8, <2>9, <3>2
      <3> QED
        BY <3>1, <3>2
    <2> QED
      BY <2>1, <2>4, <2>11 DEF Agrees
  <1>10. CASE Recompute
    <2> SUFFICES ASSUME NEW d \in Day, NEW k \in Key PROVE Agrees(d, k)'
      BY AgreesIffNext
    <2>1. Agrees(d, k)
      BY AgreesIff DEF AgreementInv
    <2>2. delta = None /\ delta' = None
      BY <1>10 DEF Recompute, AgreementInv, DeltaOnlyInFlight
    <2>3. Recorded(d, k)' = Recorded(d, k)
      BY <1>10 DEF Recompute, Recorded
    <2>4. PICK now \in NextReadings :
            /\ rollup' = [day \in Day |->
                 IF day \in RollupWindow(now) THEN [j \in Key |-> Recorded(day, j)]
                 ELSE rollup[day]]
            /\ lost' = {e \in lost : e[1] \notin RollupWindow(now)}
      BY <1>10 DEF Recompute
    <2>5. /\ Settled(d, k)'.plays = rollup'[d][k].plays + 0
          /\ Settled(d, k)'.watchMs = rollup'[d][k].watchMs + 0
          /\ Settled(d, k).plays = rollup[d][k].plays + 0
          /\ Settled(d, k).watchMs = rollup[d][k].watchMs + 0
      BY <2>2 DEF Settled
    <2>6. Recorded(d, k) \in Total
      BY TotalsType DEF AgreementInv
    <2>7. CASE d \in RollupWindow(now)
      <3>1. rollup'[d][k] = Recorded(d, k)
        BY <2>4, <2>7
      <3> QED
        BY <2>3, <2>5, <2>6, <3>1, SMT DEF Agrees, Total
    <2>8. CASE d \notin RollupWindow(now)
      <3>1. rollup'[d][k] = rollup[d][k]
        BY <2>4, <2>8
      <3>2. <<d, k>> \in lost => <<d, k>> \in lost'
        BY <2>4, <2>8
      <3> QED
        BY <2>1, <2>3, <2>5, <3>1, <3>2 DEF Agrees
    <2> QED
      BY <2>7, <2>8
  <1>11. ASSUME NEW k \in Key, ReconcileClose(k)
         PROVE  RollupNeverAhead' /\ DriftOnlyWhereDeltaLost'
    <2>1. closeSession(k, 0, open[k].lastSeenAt, IsCompleted(FALSE, FALSE))
          /\ delta = None /\ delta' = Owed(k, 1, 0) /\ rollup' = rollup
          /\ lost' = lost
      BY <1>11 DEF ReconcileClose
    <2>2. \A d \in Day, j \in Key :
            /\ Recorded(d, j).plays' =
                 Recorded(d, j).plays + (IF Hits(k, d, j) THEN 1 ELSE 0)
            /\ Recorded(d, j).watchMs' =
                 Recorded(d, j).watchMs + (IF Hits(k, d, j) THEN 0 ELSE 0)
      BY <2>1, CloseStep
    <2>3. 0 \in Nat /\ 1 \in Nat
      OBVIOUS
    <2> QED
      BY <2>1, <2>2, <2>3, OwedStep
  <1>12. ASSUME NEW k \in Key, ApplyStarted(k)
         PROVE  RollupNeverAhead' /\ DriftOnlyWhereDeltaLost'
    <2>1. openSession(k) /\ delta = None /\ delta' = None /\ rollup' = rollup
          /\ lost' = lost /\ closed' = closed
      BY <1>12 DEF ApplyStarted, Applying
    <2>2. ASSUME NEW d \in Day, NEW j \in Key
          PROVE  Recorded(d, j)' = Recorded(d, j)
      BY <1>12, StartStep
    <2> SUFFICES ASSUME NEW d \in Day, NEW j \in Key PROVE Agrees(d, j)'
      BY AgreesIffNext
    <2>3. Agrees(d, j)
      BY AgreesIff DEF AgreementInv
    <2>4. Settled(d, j)' = Settled(d, j)
      BY <2>1 DEF Settled
    <2> QED
      BY <2>1, <2>2, <2>3, <2>4 DEF Agrees
  <1>13. ASSUME NEW k \in Key, ApplyTouched(k)
         PROVE  RollupNeverAhead' /\ DriftOnlyWhereDeltaLost'
    <2> DEFINE w == pending[k].watchedMs
    <2>1. touchSession(k, w) /\ delta = None /\ delta' = Owed(k, 0, w)
          /\ rollup' = rollup /\ lost' = lost /\ closed' = closed
      BY <1>13 DEF ApplyTouched, Applying
    <2>2. w \in Nat
      BY <1>13, ApplyingType DEF ApplyTouched, AgreementInv
    <2> HIDE DEF w
    <2>3. ASSUME NEW d \in Day, NEW j \in Key
          PROVE  /\ Recorded(d, j).plays' =
                      Recorded(d, j).plays + (IF Hits(k, d, j) THEN 0 ELSE 0)
                 /\ Recorded(d, j).watchMs' =
                      Recorded(d, j).watchMs + (IF Hits(k, d, j) THEN w ELSE 0)
      BY <1>13, TouchStep DEF w
    <2> QED
      BY <2>1, <2>2, <2>3, OwedStep
  <1>14. ASSUME NEW k \in Key, ApplyEnded(k)
         PROVE  RollupNeverAhead' /\ DriftOnlyWhereDeltaLost'
    <2> DEFINE w == pending[k].watchedMs
    <2>1. closeSession(k, w, clock, IsCompleted(polled[k] # None, pending[k].far))
          /\ delta = None /\ delta' = Owed(k, 1, w) /\ rollup' = rollup
          /\ lost' = lost
      BY <1>14 DEF ApplyEnded, Applying
    <2>2. w \in Nat
      BY <1>14, ApplyingType DEF ApplyEnded, AgreementInv
    <2> QED
      BY <2>1, <2>2, CloseStep, OwedStep
  <1>15. CASE UNCHANGED vars
    BY <1>15, NoWriteStep DEF vars, database
  <1> QED
    BY <1>3, <1>4, <1>5, <1>6, <1>7, <1>8, <1>9, <1>10, <1>11, <1>12, <1>13,
       <1>14, <1>15 DEF Next

LEMMA InitAgreement == Init => AgreementInv
  <1> SUFFICES ASSUME Init PROVE AgreementInv
    OBVIOUS
  <1>1. TypeOK
    BY InitTypeOK
  <1>2. DeltaOnlyInFlight
    BY DEF Init, DeltaOnlyInFlight
  <1>3. ASSUME NEW d \in Day, NEW k \in Key PROVE Agrees(d, k)
    <2>1. open[k] = None /\ delta = None
      BY DEF Init, Nothing
    <2>2. closed[d][k].plays = 0 /\ closed[d][k].watchMs = 0
          /\ rollup[d][k].plays = 0 /\ rollup[d][k].watchMs = 0
      BY DEF Init
    <2>3. Recorded(d, k).plays = 0 /\ Recorded(d, k).watchMs = 0 + 0
      BY <2>1, <2>2 DEF Recorded
    <2>4. Settled(d, k).plays = 0 + 0 /\ Settled(d, k).watchMs = 0 + 0
      BY <2>1, <2>2 DEF Settled
    <2> QED
      BY <2>3, <2>4, SMT DEF Agrees
  <1> QED
    BY <1>1, <1>2, <1>3, AgreesIff DEF AgreementInv

LEMMA AgreementAlways == Spec => []AgreementInv
  BY InitAgreement, NextAgreement, PTL DEF Spec

\* Whatever faults strike and however the clock moves, the rollup holds no play
\* and no watch time that playback_sessions does not.
THEOREM NeverAhead == Spec => []RollupNeverAhead
  <1>1. AgreementInv => RollupNeverAhead
    BY DEF AgreementInv
  <1> QED
    BY <1>1, AgreementAlways, PTL

\* The rollup and playback_sessions disagree only where a fault dropped a delta
\* that no rebuild has covered since.
THEOREM DriftOnlyByFault == Spec => []DriftOnlyWhereDeltaLost
  <1>1. AgreementInv => DriftOnlyWhereDeltaLost
    BY DEF AgreementInv
  <1> QED
    BY <1>1, AgreementAlways, PTL

-----------------------------------------------------------------------------
(* PlaybackTracking implements PlayLedger: the initial state maps to the     *)
(* ledger's, and every step to a step of the ledger or to none.              *)

\* What the mapping puts in the place of `held`.
Held == [d \in Day |-> [k \in Key |-> Recorded(d, k)]]

\* Two entries that agree in both fields are the same entry.
LEMMA TotalEqual ==
  ASSUME NEW a \in Total, NEW b \in Total,
         a.plays = b.plays, a.watchMs = b.watchMs
  PROVE  a = b
  BY DEF Total

LEMMA HeldType == TypeOK => Held \in [Day -> [Key -> Total]]
  BY TotalsType DEF Held

LEMMA LedgerInit == Init => Ledger!Init
  <1> SUFFICES ASSUME Init PROVE Ledger!Init
    OBVIOUS
  <1>1. ASSUME NEW d \in Day, NEW k \in Key
        PROVE  Recorded(d, k) = [plays |-> 0, watchMs |-> 0]
    <2>1. open[k] = None /\ closed[d][k].plays = 0 /\ closed[d][k].watchMs = 0
      BY <1>1 DEF Init, Nothing
    <2>2. Recorded(d, k) = [plays |-> 0, watchMs |-> 0 + 0]
      BY <2>1 DEF Recorded
    <2> QED
      BY <2>2, SMT
  <1>2. rollup = [d \in Day |-> [k \in Key |-> [plays |-> 0, watchMs |-> 0]]]
    BY DEF Init
  <1> QED
    BY <1>1, <1>2 DEF Ledger!Init

\* A step that leaves both tables as they are is no step of the ledger.
LEMMA SilentStep ==
  ASSUME \A d \in Day, k \in Key : Recorded(d, k)' = Recorded(d, k),
         rollup' = rollup
  PROVE  UNCHANGED Ledger!vars
  <1>1. Held' = Held
    BY DEF Held
  <1> QED
    BY <1>1 DEF Held, Ledger!vars

\* A write to the open row of k adds p plays and w of watch time to what is held.
Adds(k, p, w) ==
  \A d \in Day, j \in Key :
    /\ Recorded(d, j).plays' =
         Recorded(d, j).plays + (IF Hits(k, d, j) THEN p ELSE 0)
    /\ Recorded(d, j).watchMs' =
         Recorded(d, j).watchMs + (IF Hits(k, d, j) THEN w ELSE 0)

\* A session write is a Record of the entry of the row's start day, or nothing
\* if it found no open row.
LEMMA RecordStep ==
  ASSUME AgreementInv, TypeOK', NEW k \in Key, NEW p \in Nat, NEW w \in Nat,
         rollup' = rollup, Adds(k, p, w)
  PROVE  Ledger!Next \/ UNCHANGED Ledger!vars
  <1>1. ASSUME NEW d \in Day, NEW j \in Key
        PROVE  Recorded(d, j) \in Total /\ Recorded(d, j)' \in Total
    <2>1. Recorded(d, j) \in Total
      BY <1>1, TotalsType DEF AgreementInv
    <2>2. (Held \in [Day -> [Key -> Total]])'
      BY HeldType, PTL
    <2> QED
      BY <1>1, <2>1, <2>2 DEF Held
  <1>2. ASSUME NEW d \in Day, NEW j \in Key, ~Hits(k, d, j)
        PROVE  Recorded(d, j)' = Recorded(d, j)
    <2>1. Recorded(d, j).plays \in Nat /\ Recorded(d, j).watchMs \in Nat
      BY <1>1, <1>2 DEF Total
    <2>2. Recorded(d, j).plays' = Recorded(d, j).plays
          /\ Recorded(d, j).watchMs' = Recorded(d, j).watchMs
      BY <1>2, <2>1 DEF Adds
    <2> QED
      BY <1>1, <1>2, <2>2, TotalEqual
  <1>3. CASE open[k] = None
    <2>1. \A d \in Day, j \in Key : ~Hits(k, d, j)
      BY <1>3 DEF Hits
    <2> QED
      BY <1>2, <2>1, SilentStep
  <1>4. CASE open[k] # None
    <2>1. PICK day \in Day : day = utcDay(open[k].startedAt)
      BY <1>4, utcDayType DEF AgreementInv, TypeOK, Row
    <2>2. Hits(k, day, k)
      BY <1>4, <2>1 DEF Hits
    <2>3. \A d \in Day, j \in Key : <<d, j>> # <<day, k>> => ~Hits(k, d, j)
      BY <2>1 DEF Hits
    <2>4. (Held \in [Day -> [Key -> Total]])'
      BY HeldType, PTL
    <2>5. Ledger!AtMost(Held[day][k], Held'[day][k])
      <3>1. Recorded(day, k).plays \in Nat /\ Recorded(day, k).watchMs \in Nat
        BY <1>1, <2>1 DEF Total
      <3>2. Recorded(day, k).plays' = Recorded(day, k).plays + p
            /\ Recorded(day, k).watchMs' = Recorded(day, k).watchMs + w
        BY <2>1, <2>2 DEF Adds
      <3>3. Held[day][k] = Recorded(day, k) /\ Held'[day][k] = Recorded(day, k)'
        BY <2>1 DEF Held
      <3> QED
        BY <3>1, <3>2, <3>3, SMT DEF Ledger!AtMost
    <2>6. Ledger!OnlyEntry(day, k, Held, Held')
      BY <1>2, <2>3 DEF Ledger!OnlyEntry, Held
    <2>7. Ledger!Record(day, k)
      BY <2>4, <2>5, <2>6 DEF Ledger!Record, Ledger!Amount, Held, Total
    <2> QED
      BY <2>1, <2>7 DEF Ledger!Next
  <1> QED
    BY <1>3, <1>4

\* The delta that was in flight reaches the rollup: a Show of its entry, which
\* stays at or below the sessions because the delta was counted as settled.
LEMMA ShowStep ==
  ASSUME AgreementInv, TypeOK', ApplyRollupDelta
  PROVE  Ledger!Next
  <1>1. delta \in Delta /\ delta # None
    BY DEF ApplyRollupDelta, AgreementInv, TypeOK
  <1> DEFINE d == delta.day
             k == delta.key
             was == rollup[d][k]
             new == [plays |-> was.plays + delta.plays,
                     watchMs |-> was.watchMs + delta.watchMs]
  <1>2. d \in Day /\ k \in Key /\ delta.plays \in Nat /\ delta.watchMs \in Nat
    BY <1>1 DEF Delta
  <1>3. rollup' = [rollup EXCEPT ![d][k] = new] /\ open' = open /\ closed' = closed
    BY DEF ApplyRollupDelta
  <1>4. rollup \in [Day -> [Key -> Total]] /\ rollup' \in [Day -> [Key -> Total]]
    BY DEF AgreementInv, TypeOK
  <1>5. rollup'[d][k] = new
    BY <1>2, <1>3, <1>4
  <1>6. new.plays = was.plays + delta.plays
        /\ new.watchMs = was.watchMs + delta.watchMs
    OBVIOUS
  <1>7. Settled(d, k).plays = was.plays + delta.plays
        /\ Settled(d, k).watchMs = was.watchMs + delta.watchMs
    BY <1>1 DEF Settled
  <1>8. Settled(d, k).plays <= Recorded(d, k).plays
        /\ Settled(d, k).watchMs <= Recorded(d, k).watchMs
    BY <1>2 DEF AgreementInv, RollupNeverAhead
  <1>9. was.plays \in Nat /\ was.watchMs \in Nat
    BY <1>2, <1>4 DEF Total
  <1>10. \A e \in Day, j \in Key : <<e, j>> # <<d, k>> => rollup'[e][j] = rollup[e][j]
    BY <1>2, <1>3, <1>4
  <1>11. Held[d][k] = Recorded(d, k)
    BY <1>2 DEF Held
  <1> HIDE DEF new, was, d, k
  <1>12. Ledger!AtMost(rollup[d][k], rollup'[d][k])
    BY <1>2, <1>5, <1>6, <1>9, SMT DEF Ledger!AtMost, was
  <1>13. Ledger!AtMost(rollup'[d][k], Held[d][k])
    BY <1>5, <1>6, <1>7, <1>8, <1>11 DEF Ledger!AtMost
  <1>14. Ledger!OnlyEntry(d, k, rollup, rollup')
    BY <1>10 DEF Ledger!OnlyEntry
  <1>15. Held' = Held
    BY <1>3 DEF Held, Recorded
  <1>16. Ledger!Show(d, k)
    BY <1>4, <1>12, <1>13, <1>14, <1>15
       DEF Ledger!Show, Ledger!Amount, Held, Total
  <1> QED
    BY <1>2, <1>16 DEF Ledger!Next

\* The rebuild of the window is a Rebuild of its days.
LEMMA RebuildStep ==
  ASSUME AgreementInv, Recompute
  PROVE  Ledger!Next
  <1>1. PICK now \in NextReadings :
          rollup' = [d \in Day |->
            IF d \in RollupWindow(now) THEN [k \in Key |-> Recorded(d, k)]
            ELSE rollup[d]]
    BY DEF Recompute
  <1>2. RollupWindow(now) \in SUBSET Day
    BY DEF RollupWindow
  <1>3. Held' = Held
    BY DEF Recompute, Held, Recorded
  <1>4. Ledger!Rebuild(RollupWindow(now))
    BY <1>1, <1>3 DEF Ledger!Rebuild, Held
  <1> QED
    BY <1>2, <1>4 DEF Ledger!Next

LEMMA LedgerStep ==
  ASSUME AgreementInv, TypeOK', [Next]_vars
  PROVE  Ledger!Next \/ UNCHANGED Ledger!vars
  <1>1. ASSUME UNCHANGED database PROVE Ledger!Next \/ UNCHANGED Ledger!vars
    <2>1. \A d \in Day, k \in Key : Recorded(d, k)' = Recorded(d, k)
      BY <1>1 DEF database, Recorded
    <2> QED
      BY <1>1, <2>1, SilentStep DEF database
  <1>2. CASE Boot
    BY <1>1, <1>2 DEF Boot
  <1>3. CASE ReconcileDone
    BY <1>1, <1>3 DEF ReconcileDone
  <1>4. CASE PollStart
    BY <1>1, <1>4 DEF PollStart
  <1>5. CASE SaveSnapshot
    BY <1>1, <1>5 DEF SaveSnapshot
  <1>6. CASE PollFails
    BY <1>1, <1>6 DEF PollFails
  <1>7. CASE Crash
    BY <1>1, <1>7 DEF Crash
  <1>8. CASE ApplyRollupDelta
    BY <1>8, ShowStep
  <1>9. CASE Recompute
    BY <1>9, RebuildStep
  <1>10. ASSUME NEW k \in Key, ReconcileClose(k)
         PROVE  Ledger!Next \/ UNCHANGED Ledger!vars
    <2>1. closeSession(k, 0, open[k].lastSeenAt, IsCompleted(FALSE, FALSE))
          /\ rollup' = rollup
      BY <1>10 DEF ReconcileClose
    <2>2. Adds(k, 1, 0)
      BY <2>1, CloseStep DEF Adds
    <2>3. 0 \in Nat /\ 1 \in Nat
      OBVIOUS
    <2> QED
      BY <2>1, <2>2, <2>3, RecordStep
  <1>11. ASSUME NEW k \in Key, ApplyStarted(k)
         PROVE  Ledger!Next \/ UNCHANGED Ledger!vars
    <2>1. rollup' = rollup
      BY <1>11 DEF ApplyStarted, Applying
    <2> QED
      BY <1>11, <2>1, StartStep, SilentStep
  <1>12. ASSUME NEW k \in Key, ApplyTouched(k)
         PROVE  Ledger!Next \/ UNCHANGED Ledger!vars
    <2> DEFINE w == pending[k].watchedMs
    <2>1. w \in Nat
      BY <1>12, ApplyingType DEF ApplyTouched, AgreementInv
    <2>2. rollup' = rollup
      BY <1>12 DEF ApplyTouched, Applying
    <2> HIDE DEF w
    <2>3. Adds(k, 0, w)
      BY <1>12, TouchStep DEF w, Adds
    <2> QED
      BY <2>1, <2>2, <2>3, RecordStep
  <1>13. ASSUME NEW k \in Key, ApplyEnded(k)
         PROVE  Ledger!Next \/ UNCHANGED Ledger!vars
    <2> DEFINE w == pending[k].watchedMs
    <2>1. closeSession(k, w, clock, IsCompleted(polled[k] # None, pending[k].far))
          /\ rollup' = rollup
      BY <1>13 DEF ApplyEnded, Applying
    <2>2. w \in Nat
      BY <1>13, ApplyingType DEF ApplyEnded, AgreementInv
    <2>3. Adds(k, 1, w)
      BY <2>1, <2>2, CloseStep DEF Adds
    <2> QED
      BY <2>1, <2>2, <2>3, RecordStep
  <1>14. CASE UNCHANGED vars
    BY <1>1, <1>14 DEF vars, database
  <1> QED
    BY <1>2, <1>3, <1>4, <1>5, <1>6, <1>7, <1>8, <1>9, <1>10, <1>11, <1>12,
       <1>13, <1>14 DEF Next

\* The poll, the reconciliation and the rebuild implement the ledger: whatever
\* fails and however the clock moves, what the dashboard shows of a day only
\* grows, one entry at a time, and is never ahead of playback_sessions; a rebuild
\* makes the days of its window exact.
THEOREM ImplementsLedger == Spec => KeepsLedger
  <1>1. AgreementInv /\ AgreementInv' /\ [Next]_vars => [Ledger!Next]_(Ledger!vars)
    BY LedgerStep DEF AgreementInv
  <1> QED
    BY <1>1, LedgerInit, AgreementAlways, PTL DEF Spec, KeepsLedger, Ledger!Spec

=============================================================================
