-------------------------- MODULE SchedulerProofs --------------------------
(* The scheduler's concurrency limit, for any number of jobs, any schedules   *)
(* and any number of overlapping reads of job_runs.                           *)
EXTENDS Scheduler, TLAPS

Stages == {"idle", "running", "writing"}

\* What the proof needs of the types.
SlotInv ==
  /\ startIndex \in Job
  /\ stage \in [Job -> Stages]
  /\ OneJobInFlight

\* Two jobs never have the same place in the rotation.
LEMMA TurnIsInjective ==
  ASSUME startIndex \in Job, NEW i \in Job, NEW j \in Job, Turn(i) = Turn(j)
  PROVE  i = j
  <1>1. /\ JobCount \in Int /\ startIndex \in Int /\ i \in Int /\ j \in Int
        /\ 0 <= i /\ i < JobCount /\ 0 <= j /\ j < JobCount
    BY SchedulerAssumption, SMT DEF Job
  <1>2. CASE i >= startIndex
    BY <1>1, <1>2, SMT DEF Turn
  <1>3. CASE i < startIndex
    BY <1>1, <1>3, SMT DEF Turn
  <1> QED
    BY <1>1, <1>2, <1>3, SMT

\* Of the jobs a read finds due, at most one comes first.
LEMMA OneFirst ==
  ASSUME startIndex \in Job, NEW runs,
         NEW i \in FirstToStart(runs), NEW j \in FirstToStart(runs)
  PROVE  i = j
  <1>1. i \in Job /\ j \in Job /\ Turn(i) <= Turn(j) /\ Turn(j) <= Turn(i)
    BY DEF FirstToStart
  <1>2. Turn(i) \in Int /\ Turn(j) \in Int
    BY <1>1, SchedulerAssumption, SMT DEF Turn, Job
  <1>3. Turn(i) = Turn(j)
    BY <1>1, <1>2, SMT
  <1> QED
    BY <1>1, <1>3, TurnIsInjective

\* A step that starts nothing keeps the slot to one job at most.
LEMMA NothingStarts ==
  ASSUME SlotInv, stage' \in [Job -> Stages], startIndex' = startIndex,
         \A j \in Job : stage'[j] # "idle" => stage[j] # "idle"
  PROVE  SlotInv'
  BY DEF SlotInv, OneJobInFlight, InFlight

LEMMA SlotStep == SlotInv /\ [Next]_vars => SlotInv'
  <1> SUFFICES ASSUME SlotInv, [Next]_vars PROVE SlotInv'
    OBVIOUS
  <1>1. ASSUME NEW r \in 1 .. MaxReads, RunDueJobs(r) PROVE SlotInv'
    <2> DEFINE chosen == Chosen(reads[r].runs)
    <2>1. stage' = [j \in Job |-> IF j \in chosen THEN "running" ELSE stage[j]]
      BY <1>1 DEF RunDueJobs
    <2>2. startIndex' = (startIndex + 1) % JobCount
      BY <1>1 DEF RunDueJobs
    <2>3. startIndex' \in Job
      BY <2>2, SchedulerAssumption, SMT DEF SlotInv, Job
    <2>4. stage' \in [Job -> Stages]
      BY <2>1 DEF SlotInv, Stages
    <2>5. CASE InFlight = {}
      <3>1. chosen = FirstToStart(reads[r].runs)
        BY <2>5 DEF Chosen
      <3>2. \A j \in Job : stage'[j] # "idle" => j \in chosen
        BY <2>1, <2>5 DEF InFlight
      <3>3. \A i, j \in chosen : i = j
        BY <3>1, OneFirst DEF SlotInv
      <3> HIDE DEF chosen
      <3> QED
        BY <2>3, <2>4, <3>2, <3>3 DEF SlotInv, OneJobInFlight, InFlight
    <2>6. CASE InFlight # {}
      <3>1. chosen = {}
        BY <2>6 DEF Chosen
      <3>2. stage' = stage
        BY <2>1, <3>1 DEF SlotInv
      <3> QED
        BY <2>3, <3>2 DEF SlotInv, OneJobInFlight, InFlight
    <2> QED
      BY <2>5, <2>6
  <1>2. ASSUME NEW j \in Job,
               JobSucceeds(j) \/ JobFails(j) \/ WriteRun(j) \/ WriteRunFails(j)
        PROVE  SlotInv'
    <2>1. /\ stage[j] # "idle"
          /\ startIndex' = startIndex
          /\ \/ stage' = [stage EXCEPT ![j] = "writing"]
             \/ stage' = [stage EXCEPT ![j] = "idle"]
      BY <1>2 DEF JobSucceeds, JobFails, WriteRun, WriteRunFails, Settles
    <2>2. stage' \in [Job -> Stages]
      BY <2>1 DEF SlotInv, Stages
    <2>3. \A i \in Job : stage'[i] # "idle" => stage[i] # "idle"
      BY <2>1 DEF SlotInv
    <2> QED
      BY <2>1, <2>2, <2>3, NothingStarts
  <1>3. CASE \/ TimePasses \/ Stop \/ StopResolves
             \/ \E r \in 1 .. MaxReads : ReadJobRuns(r) \/ ReadFails(r)
             \/ UNCHANGED vars
    <2>1. stage' = stage /\ startIndex' = startIndex
      BY <1>3 DEF TimePasses, Stop, StopResolves, ReadJobRuns, ReadFails, vars
    <2> QED
      BY <2>1, NothingStarts DEF SlotInv
  <1> QED
    BY <1>1, <1>2, <1>3 DEF Next

\* At most one job is in flight in every reachable state: the check of the
\* in-flight map and the dispatch happen in one synchronous stretch, and of the
\* jobs that are due only the first of the rotation is taken.
THEOREM SingleSlot == Spec => []OneJobInFlight
  <1>1. Init => SlotInv
    BY SchedulerAssumption, SMT
       DEF Init, SlotInv, OneJobInFlight, InFlight, Stages, Job
  <1>2. SlotInv => OneJobInFlight
    BY DEF SlotInv
  <1> QED
    BY <1>1, <1>2, SlotStep, PTL DEF Spec

-----------------------------------------------------------------------------
(* The backoff.                                                              *)

Retried == Job \ FastRetry

\* What makes lastAttemptAt, which a success drops and a dispatch overwrites,
\* a safe stand-in for the last failure: it is never older than that failure,
\* a job that holds the slot had no recent failure, and the entry of a running
\* job is as old as the job.
BackoffInv ==
  /\ stage \in [Job -> Stages]
  /\ jobAge \in Ages
  /\ attemptAge \in [Job -> 0 .. Backoff]
  /\ failedAge \in [Job -> 0 .. Backoff]
  /\ \A j \in Retried :
       /\ attemptAge[j] <= failedAge[j]
       /\ stage[j] # "idle" => failedAge[j] = Backoff
       /\ stage[j] = "running" => attemptAge[j] <= jobAge[j]

LEMMA BackoffInit == Init => BackoffInv
  BY SchedulerAssumption, SMT
     DEF Init, BackoffInv, Retried, Stages, Ages, Job

LEMMA BackoffTick == BackoffInv /\ TimePasses => BackoffInv'
  <1> SUFFICES ASSUME BackoffInv, TimePasses PROVE BackoffInv'
    OBVIOUS
  <1> USE SchedulerAssumption
  <1>1. /\ stage' = stage
        /\ jobAge' = [j \in Job |-> IF stage[j] = "idle" THEN 0
                                    ELSE Older(jobAge[j], DayTicks)]
        /\ attemptAge' = [j \in Job |-> Older(attemptAge[j], Backoff)]
        /\ failedAge' = [j \in Job |-> Older(failedAge[j], Backoff)]
    BY DEF TimePasses
  <1>2. jobAge' \in Ages
    BY <1>1, SMT DEF BackoffInv, Ages, Older
  <1>3. attemptAge' \in [Job -> 0 .. Backoff]
    BY <1>1, SMT DEF BackoffInv, Older
  <1>4. failedAge' \in [Job -> 0 .. Backoff]
    BY <1>1, SMT DEF BackoffInv, Older
  <1>5. ASSUME NEW j \in Retried
        PROVE  /\ attemptAge'[j] <= failedAge'[j]
               /\ stage'[j] # "idle" => failedAge'[j] = Backoff
               /\ stage'[j] = "running" => attemptAge'[j] <= jobAge'[j]
    BY <1>1, <1>5, SMT DEF BackoffInv, Retried, Ages, Older
  <1> QED
    BY <1>1, <1>2, <1>3, <1>4, <1>5 DEF BackoffInv

LEMMA BackoffDispatch ==
  ASSUME BackoffInv, NEW r \in 1 .. MaxReads, RunDueJobs(r)
  PROVE  /\ BackoffInv'
         /\ \A j \in Retried :
              stage[j] = "idle" /\ stage'[j] = "running" => failedAge[j] >= Backoff
  <1> USE SchedulerAssumption
  <1> DEFINE chosen == Chosen(reads[r].runs)
  <1>1. /\ stage' = [j \in Job |-> IF j \in chosen THEN "running" ELSE stage[j]]
        /\ jobAge' = [j \in Job |-> IF j \in chosen THEN 0 ELSE jobAge[j]]
        /\ attemptAge' = [j \in Job |-> IF j \in chosen THEN 0 ELSE attemptAge[j]]
        /\ failedAge' = failedAge
    BY DEF RunDueJobs
  <1>2. \A j \in Retried : j \in chosen => attemptAge[j] >= Backoff
    BY DEF Chosen, FirstToStart, MayStart, Retried
  <1> HIDE DEF chosen
  <1>3. ASSUME NEW j \in Retried, j \in chosen PROVE failedAge[j] = Backoff
    BY <1>2, <1>3, SMT DEF BackoffInv, Retried
  <1>4. stage' \in [Job -> Stages]
    BY <1>1 DEF BackoffInv, Stages
  <1>5. jobAge' \in Ages
    BY <1>1, SMT DEF BackoffInv, Ages
  <1>6. attemptAge' \in [Job -> 0 .. Backoff]
    BY <1>1, SMT DEF BackoffInv
  <1>7. ASSUME NEW j \in Retried
        PROVE  /\ attemptAge'[j] <= failedAge'[j]
               /\ stage'[j] # "idle" => failedAge'[j] = Backoff
               /\ stage'[j] = "running" => attemptAge'[j] <= jobAge'[j]
    BY <1>1, <1>3, SMT DEF BackoffInv, Retried, Ages
  <1>8. BackoffInv'
    BY <1>1, <1>4, <1>5, <1>6, <1>7 DEF BackoffInv
  <1>9. ASSUME NEW j \in Retried, stage[j] = "idle", stage'[j] = "running"
        PROVE  failedAge[j] >= Backoff
    BY <1>1, <1>3, <1>9, SMT DEF Retried
  <1> QED
    BY <1>8, <1>9

LEMMA BackoffJob ==
  ASSUME BackoffInv, NEW k \in Job,
         JobSucceeds(k) \/ JobFails(k) \/ WriteRun(k) \/ WriteRunFails(k)
  PROVE  BackoffInv' /\ \A j \in Job : stage'[j] = "running" => stage[j] # "idle"
  <1> USE SchedulerAssumption
  <1>1. CASE JobSucceeds(k)
    BY <1>1, SMT DEF JobSucceeds, BackoffInv, Retried, Stages, Ages
  <1>2. CASE JobFails(k)
    BY <1>2, SMT
       DEF JobFails, Settles, SinceStart, BackoffInv, Retried, Stages, Ages
  <1>3. CASE WriteRun(k) \/ WriteRunFails(k)
    <2>1. /\ stage' = [stage EXCEPT ![k] = "idle"]
          /\ jobAge' = [jobAge EXCEPT ![k] = 0]
          /\ UNCHANGED <<attemptAge, failedAge>>
      BY <1>3 DEF WriteRun, WriteRunFails, Settles
    <2> QED
      BY <2>1, SMT DEF BackoffInv, Retried, Stages, Ages
  <1> QED
    BY <1>1, <1>2, <1>3

LEMMA BackoffElse ==
  ASSUME BackoffInv,
         \/ Stop \/ StopResolves
         \/ \E r \in 1 .. MaxReads : ReadJobRuns(r) \/ ReadFails(r)
         \/ UNCHANGED vars
  PROVE  BackoffInv' /\ stage' = stage
  <1>1. UNCHANGED <<stage, jobAge, attemptAge, failedAge>>
    BY DEF Stop, StopResolves, ReadJobRuns, ReadFails, vars
  <1> QED
    BY <1>1 DEF BackoffInv

Spaced ==
  \A j \in Job \ FastRetry :
    stage[j] = "idle" /\ stage'[j] = "running" => failedAge[j] >= Backoff

LEMMA BackoffStep == BackoffInv /\ [Next]_vars => BackoffInv' /\ Spaced
  <1> SUFFICES ASSUME BackoffInv, [Next]_vars PROVE BackoffInv' /\ Spaced
    OBVIOUS
  <1>1. CASE TimePasses
    <2>1. stage' = stage
      BY <1>1 DEF TimePasses
    <2> QED
      BY <1>1, <2>1, BackoffTick DEF Spaced
  <1>2. ASSUME NEW r \in 1 .. MaxReads, RunDueJobs(r) PROVE BackoffInv' /\ Spaced
    BY <1>2, BackoffDispatch DEF Spaced, Retried
  <1>3. ASSUME NEW k \in Job,
               JobSucceeds(k) \/ JobFails(k) \/ WriteRun(k) \/ WriteRunFails(k)
        PROVE  BackoffInv' /\ Spaced
    BY <1>3, BackoffJob DEF Spaced
  <1>4. CASE \/ Stop \/ StopResolves
             \/ \E r \in 1 .. MaxReads : ReadJobRuns(r) \/ ReadFails(r)
             \/ UNCHANGED vars
    BY <1>4, BackoffElse DEF Spaced
  <1> QED
    BY <1>1, <1>2, <1>3, <1>4 DEF Next

\* A job outside FAST_RETRY_JOBS is never started within FAILURE_BACKOFF_MS of
\* the start of an attempt that failed, for any number of jobs, any schedules
\* and any number of overlapping, possibly outdated reads of job_runs.
THEOREM Spacing == Spec => RetriesAreSpaced
  <1>1. BackoffInv /\ [Next]_vars => [Spaced]_vars
    BY BackoffStep
  <1> QED
    BY <1>1, BackoffInit, BackoffStep, PTL DEF Spec, RetriesAreSpaced, Spaced

-----------------------------------------------------------------------------
(* Type correctness.                                                         *)

LEMMA OlderType ==
  ASSUME NEW cap \in Nat, NEW age \in 0 .. cap
  PROVE  Older(age, cap) \in 0 .. cap
  BY SMT DEF Older

ReadStates == {NoRead, Asked} \cup {Answered(a) : a \in Ages}

\* A read is in one of three states, and only an answered one carries ages.
LEMMA AnsweredType ==
  ASSUME NEW read \in ReadStates, read.state = "answered"
  PROVE  read.runs \in Ages /\ read = Answered(read.runs)
  BY DEF ReadStates, NoRead, Asked, Answered

\* The ages an answered read carries grow with time, up to the cap.
LEMMA AgedType ==
  ASSUME NEW read \in ReadStates
  PROVE  (IF read.state = "answered"
            THEN Answered([j \in Job |-> Older(read.runs[j], DayTicks)])
            ELSE read) \in ReadStates
  <1>1. CASE read.state = "answered"
    <2>1. read.runs \in [Job -> 0 .. DayTicks]
      BY <1>1, AnsweredType DEF Ages
    <2>2. [j \in Job |-> Older(read.runs[j], DayTicks)] \in Ages
      BY <2>1, OlderType, SchedulerAssumption DEF Ages
    <2> QED
      BY <1>1, <2>2 DEF ReadStates
  <1>2. CASE read.state # "answered"
    BY <1>2
  <1> QED
    BY <1>1, <1>2

LEMMA TickType == TypeOK /\ TimePasses => TypeOK'
  <1> SUFFICES ASSUME TypeOK, TimePasses PROVE TypeOK'
    OBVIOUS
  <1>1. timeOfDay' \in 0 .. DayTicks - 1
    BY SchedulerAssumption, SMT DEF TimePasses, TypeOK
  <1>2. runAge' \in Ages
    BY OlderType, SchedulerAssumption DEF TimePasses, TypeOK, Ages
  <1>3. jobAge' \in Ages
    <2>1. 0 \in 0 .. DayTicks
      BY SchedulerAssumption, SMT
    <2>2. jobAge' = [j \in Job |-> IF stage[j] = "idle" THEN 0
                                   ELSE Older(jobAge[j], DayTicks)]
      BY DEF TimePasses
    <2>3. \A j \in Job : Older(jobAge[j], DayTicks) \in 0 .. DayTicks
      BY OlderType, SchedulerAssumption DEF TypeOK, Ages
    <2> QED
      BY <2>1, <2>2, <2>3 DEF Ages
  <1>4. attemptAge' \in [Job -> 0 .. Backoff] /\ failedAge' \in [Job -> 0 .. Backoff]
    <2>1. Backoff \in Nat
      BY SchedulerAssumption, SMT
    <2> QED
      BY <2>1, OlderType DEF TimePasses, TypeOK
  <1>5. reads' \in [1 .. MaxReads -> ReadStates]
    <2> DEFINE aged == [q \in 1 .. MaxReads |->
                 IF reads[q].state = "answered"
                   THEN Answered([j \in Job |->
                                    Older(reads[q].runs[j], DayTicks)])
                   ELSE reads[q]]
    <2>1. aged \in [1 .. MaxReads -> ReadStates]
      <3>1. \A q \in 1 .. MaxReads : reads[q] \in ReadStates
        BY DEF TypeOK, ReadStates
      <3> QED
        BY <3>1, AgedType
    <2>2. PICK r \in 1 .. MaxReads :
            reads' = IF stop = "no" THEN [aged EXCEPT ![r] = Asked] ELSE aged
      BY DEF TimePasses
    <2> HIDE DEF aged
    <2>3. Asked \in ReadStates
      BY DEF ReadStates
    <2> QED
      BY <2>1, <2>2, <2>3
  <1> QED
    BY <1>1, <1>2, <1>3, <1>4, <1>5 DEF TimePasses, TypeOK, ReadStates

LEMMA DispatchType ==
  ASSUME TypeOK, NEW r \in 1 .. MaxReads, RunDueJobs(r)
  PROVE  TypeOK'
  <1> DEFINE chosen == Chosen(reads[r].runs)
  <1>1. /\ stage' = [j \in Job |-> IF j \in chosen THEN "running" ELSE stage[j]]
        /\ jobAge' = [j \in Job |-> IF j \in chosen THEN 0 ELSE jobAge[j]]
        /\ attemptAge' = [j \in Job |-> IF j \in chosen THEN 0 ELSE attemptAge[j]]
    BY DEF RunDueJobs
  <1> HIDE DEF chosen
  <1>2. stage' \in [Job -> {"idle", "running", "writing"}]
    BY <1>1 DEF TypeOK
  <1>3. 0 \in 0 .. DayTicks /\ 0 \in 0 .. Backoff
    BY SchedulerAssumption, SMT
  <1>4. jobAge' \in Ages /\ attemptAge' \in [Job -> 0 .. Backoff]
    BY <1>1, <1>3 DEF TypeOK, Ages
  <1>5. startIndex' \in Job
    BY SchedulerAssumption, SMT DEF RunDueJobs, TypeOK, Job
  <1> QED
    BY <1>2, <1>4, <1>5 DEF RunDueJobs, TypeOK

LEMMA SettlesType ==
  ASSUME TypeOK, NEW j \in Job, Settles(j)
  PROVE  /\ stage' \in [Job -> {"idle", "running", "writing"}]
         /\ jobAge' \in Ages
         /\ awaited' \subseteq Job
  <1>1. 0 \in 0 .. DayTicks
    BY SchedulerAssumption, SMT
  <1> QED
    BY <1>1 DEF Settles, TypeOK, Ages

LEMMA JobType ==
  ASSUME TypeOK, NEW j \in Job,
         JobSucceeds(j) \/ JobFails(j) \/ WriteRun(j) \/ WriteRunFails(j)
  PROVE  TypeOK'
  <1>1. Backoff \in 0 .. Backoff
    BY SchedulerAssumption, SMT
  <1>2. CASE JobSucceeds(j)
    BY <1>1, <1>2 DEF JobSucceeds, TypeOK
  <1>3. CASE JobFails(j)
    <2>1. SinceStart(j) \in 0 .. Backoff
      BY SchedulerAssumption, SMT DEF SinceStart, TypeOK, Ages
    <2> QED
      BY <1>3, <2>1, SettlesType DEF JobFails, Settles, TypeOK
  <1>4. CASE WriteRun(j)
    BY <1>4, SettlesType DEF WriteRun, Settles, TypeOK, Ages
  <1>5. CASE WriteRunFails(j)
    <2>1. faults' \in 0 .. MaxFaults
      BY <1>5, SchedulerAssumption, SMT DEF WriteRunFails, TypeOK
    <2> QED
      BY <1>5, <2>1, SettlesType DEF WriteRunFails, Settles, TypeOK
  <1> QED
    BY <1>2, <1>3, <1>4, <1>5

LEMMA TypeStep == TypeOK /\ [Next]_vars => TypeOK'
  <1> SUFFICES ASSUME TypeOK, [Next]_vars PROVE TypeOK'
    OBVIOUS
  <1>1. ASSUME NEW r \in 1 .. MaxReads, ReadJobRuns(r) PROVE TypeOK'
    BY <1>1 DEF ReadJobRuns, TypeOK
  <1>2. ASSUME NEW r \in 1 .. MaxReads, ReadFails(r) PROVE TypeOK'
    <2>1. faults' \in 0 .. MaxFaults
      BY <1>2, SchedulerAssumption, SMT DEF ReadFails, TypeOK
    <2> QED
      BY <1>2, <2>1 DEF ReadFails, TypeOK
  <1>3. CASE Stop
    BY <1>3 DEF Stop, InFlight, TypeOK
  <1>4. CASE StopResolves \/ UNCHANGED vars
    BY <1>4 DEF StopResolves, vars, TypeOK
  <1> QED
    BY <1>1, <1>2, <1>3, <1>4, TickType, DispatchType, JobType DEF Next

\* Every reachable state has the shape TypeOK describes; a read that is delivered
\* always carries an age for every job, so isDue is never asked about none.
THEOREM TypeCorrect == Spec => []TypeOK
  <1>1. Init => TypeOK
    <2>1. /\ 0 \in 0 .. DayTicks /\ DayTicks \in 0 .. DayTicks
          /\ Backoff \in 0 .. Backoff /\ 0 \in 0 .. MaxFaults /\ 0 \in Job
      BY SchedulerAssumption, SMT DEF Job
    <2> QED
      BY <2>1 DEF Init, TypeOK, Ages
  <1> QED
    BY <1>1, TypeStep, PTL DEF Spec
=============================================================================
