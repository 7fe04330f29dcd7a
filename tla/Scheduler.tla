----------------------------- MODULE Scheduler -----------------------------
(***************************************************************************)
(* The in-process job scheduler (apps/server/src/scheduler.ts and          *)
(* sync/schedule.ts) over the job_runs table (packages/db, jobs.ts).       *)
(*                                                                         *)
(* A timer fires every tick and starts a read of job_runs; when a read     *)
(* resolves, runDueJobs decides in one synchronous stretch which job, if   *)
(* any, to start.  Reads overlap each other and the jobs.  A job is named  *)
(* by its position in JOB_NAMES.                                           *)
(*                                                                         *)
(* Only differences of timestamps matter, so a timestamp is modelled by    *)
(* its age in ticks.  An age stops growing at the value past which no      *)
(* comparison of the code can tell it from a missing timestamp, and a      *)
(* missing timestamp is that value.                                        *)
(***************************************************************************)
EXTENDS Integers, FiniteSets

CONSTANTS
  JobCount,     \* JOB_NAMES.length
  FastRetry,    \* FAST_RETRY_JOBS
  Daily,        \* the jobs with a daily schedule; the others have an interval
  Every,        \* an interval job's everyMs, in ticks
  TimeOfDay,    \* a daily job's hour and minute, in ticks after midnight
  DayTicks,     \* ticks in a day
  Backoff,      \* FAILURE_BACKOFF_MS, in ticks
  MaxFaults,    \* bound: queries on job_runs that are rejected
  MaxReads,     \* bound: reads of job_runs outstanding at once
  MaxJobTicks   \* bound: ticks each job lasts at most

Job == 0 .. JobCount - 1

ASSUME SchedulerAssumption ==
  /\ JobCount \in Nat \ {0}
  /\ FastRetry \subseteq Job
  /\ Daily \subseteq Job
  /\ Every \in [Job -> Nat \ {0}]
  /\ TimeOfDay \in [Job -> Nat]
  /\ DayTicks \in Nat \ {0}
  /\ \A j \in Job : Every[j] <= DayTicks
  /\ Backoff \in 0 .. DayTicks
  /\ MaxReads \in Nat \ {0}
  /\ MaxFaults \in Nat
  /\ MaxJobTicks \in [Job -> Nat]

VARIABLES
  timeOfDay,   \* the local time of day
  runAge,      \* job_runs: time since each job's recorded run
  reads,       \* the outstanding reads of job_runs
  faults,      \* rejected queries so far, counted only to bound the model
  startIndex,  \* SchedulerDeps.startIndex
  stage,       \* "idle", or in SchedulerDeps.inFlight: "running" the job or
               \* "writing" its run
  jobAge,      \* time since the `now` an in-flight job was dispatched with
  attemptAge,  \* SchedulerDeps.lastAttemptAt
  failedAge,   \* history: time since the start of the last attempt whose job
               \* failed
  stop,        \* "no", "waiting" for stop()'s promises, or "done"
  awaited      \* the jobs whose promises stop() collected

vars == <<timeOfDay, runAge, reads, faults, startIndex, stage, jobAge,
          attemptAge, failedAge, stop, awaited>>

Ages == [Job -> 0 .. DayTicks]

\* A read is not asked, asked and not yet executed by the database, or answered
\* with the ages the SELECT saw and not yet delivered to the tick.
NoRead == [state |-> "none"]
Asked == [state |-> "asked"]
Answered(ages) == [state |-> "answered", runs |-> ages]

InFlight == {j \in Job : stage[j] # "idle"}

\* Time since the in-flight job j was started, as the backoff counts it.
SinceStart(j) == IF jobAge[j] < Backoff THEN jobAge[j] ELSE Backoff

Older(age, cap) == IF age < cap THEN age + 1 ELSE cap

-----------------------------------------------------------------------------
(* schedule.ts                                                              *)

\* Whether a job last run `age` ago is due.  The age of a daily job is compared
\* with the time since its most recent target.
isDue(j, age) ==
  IF j \in Daily THEN (timeOfDay - TimeOfDay[j]) % DayTicks < age
                 ELSE age >= Every[j]

\* Every job is checked in the order of JOB_NAMES.
Turn_M(j) == j

\* The place of j in rotatedJobNames(startIndex): the names from startIndex on,
\* then those before it.
Turn(j) == IF j >= startIndex THEN j - startIndex ELSE j - startIndex + JobCount

\* Due by the given read, and not in backoff.
MayStart(j, runs) ==
  /\ isDue(j, runs[j])
  /\ j \in FastRetry \/ attemptAge[j] >= Backoff

-----------------------------------------------------------------------------

Init ==
  /\ timeOfDay \in 0 .. DayTicks - 1
  /\ runAge = [j \in Job |-> DayTicks]
  /\ reads = [r \in 1 .. MaxReads |-> NoRead]
  /\ faults = 0
  /\ startIndex = 0
  /\ stage = [j \in Job |-> "idle"]
  /\ jobAge = [j \in Job |-> 0]
  /\ attemptAge = [j \in Job |-> Backoff]
  /\ failedAge = [j \in Job |-> Backoff]
  /\ stop = "no"
  /\ awaited = {}

\* One tick of time.  The timer, unless stop() cleared it, starts a read.
TimePasses ==
  /\ \A j \in InFlight : jobAge[j] < MaxJobTicks[j]
  /\ timeOfDay' = (timeOfDay + 1) % DayTicks
  /\ runAge' = [j \in Job |-> Older(runAge[j], DayTicks)]
  /\ jobAge' = [j \in Job |-> IF stage[j] = "idle" THEN 0
                              ELSE Older(jobAge[j], DayTicks)]
  /\ attemptAge' = [j \in Job |-> Older(attemptAge[j], Backoff)]
  /\ failedAge' = [j \in Job |-> Older(failedAge[j], Backoff)]
  /\ \E r \in 1 .. MaxReads :
       /\ reads[r] = NoRead
       /\ LET aged == [q \in 1 .. MaxReads |->
                IF reads[q].state = "answered"
                  THEN Answered([j \in Job |->
                                   Older(reads[q].runs[j], DayTicks)])
                  ELSE reads[q]]
          IN  reads' = IF stop = "no" THEN [aged EXCEPT ![r] = Asked]
                       ELSE aged
  /\ UNCHANGED <<faults, startIndex, stage, stop, awaited>>

\* The database executes the SELECT of readJobRuns.
ReadJobRuns(r) ==
  /\ reads[r] = Asked
  /\ reads' = [reads EXCEPT ![r] = Answered(runAge)]
  /\ UNCHANGED <<timeOfDay, runAge, faults, startIndex, stage, jobAge,
                 attemptAge, failedAge, stop, awaited>>

\* The read rejects: the tick logs it and does not reach runDueJobs.
ReadFails(r) ==
  /\ faults < MaxFaults
  /\ reads[r] # NoRead
  /\ faults' = faults + 1
  /\ reads' = [reads EXCEPT ![r] = NoRead]
  /\ UNCHANGED <<timeOfDay, runAge, startIndex, stage, jobAge, attemptAge,
                 failedAge, stop, awaited>>

\* The first job of the rotation that may start, if there is one.
FirstToStart(runs) ==
  LET able == {j \in Job : MayStart(j, runs)}
  IN  {j \in able : \A i \in able : Turn(j) <= Turn(i)}

\* The slot is not checked.
Chosen_M(runs) == FirstToStart(runs)

\* The jobs this tick starts: none while any job is in flight.
Chosen(runs) == IF InFlight = {} THEN FirstToStart(runs) ELSE {}

\* A tick whose read has resolved: the rotation moves on whatever happens, and
\* the chosen job goes in flight.
RunDueJobs(r) ==
  /\ reads[r].state = "answered"
  /\ LET chosen == Chosen(reads[r].runs)
         Started(value, others) ==
           [j \in Job |-> IF j \in chosen THEN value ELSE others[j]]
     IN  /\ stage' = Started("running", stage)
         /\ jobAge' = Started(0, jobAge)
         /\ attemptAge' = Started(0, attemptAge)
  /\ startIndex' = (startIndex + 1) % JobCount
  /\ reads' = [reads EXCEPT ![r] = NoRead]
  /\ UNCHANGED <<timeOfDay, runAge, faults, failedAge, stop, awaited>>

\* runJob resolved: the backoff entry is dropped and the run is being written.
JobSucceeds(j) ==
  /\ stage[j] = "running"
  /\ stage' = [stage EXCEPT ![j] = "writing"]
  /\ attemptAge' = [attemptAge EXCEPT ![j] = Backoff]
  /\ UNCHANGED <<timeOfDay, runAge, reads, faults, startIndex, jobAge,
                 failedAge, stop, awaited>>

\* The promise of an in-flight job settles: the finally clause takes it out.
Settles(j) ==
  /\ stage' = [stage EXCEPT ![j] = "idle"]
  /\ jobAge' = [jobAge EXCEPT ![j] = 0]
  /\ awaited' = awaited \ {j}
  /\ UNCHANGED <<timeOfDay, reads, startIndex, stop>>

\* The failure drops the backoff entry too.
JobFailsForgetting_M(j) ==
  /\ stage[j] = "running"
  /\ Settles(j)
  /\ failedAge' = [failedAge EXCEPT ![j] = SinceStart(j)]
  /\ attemptAge' = [attemptAge EXCEPT ![j] = Backoff]
  /\ UNCHANGED <<runAge, faults>>

\* No finally clause on this path: the job stays in the in-flight map.
JobFailsStaying_M(j) ==
  /\ stage[j] = "running"
  /\ failedAge' = [failedAge EXCEPT ![j] = SinceStart(j)]
  /\ stage' = [stage EXCEPT ![j] = "failed"]
  /\ UNCHANGED <<timeOfDay, runAge, reads, faults, startIndex, jobAge,
                 attemptAge, stop, awaited>>

\* runJob rejected: logged, job_runs untouched.
JobFails(j) ==
  /\ stage[j] = "running"
  /\ Settles(j)
  /\ failedAge' = [failedAge EXCEPT ![j] = SinceStart(j)]
  /\ UNCHANGED <<runAge, faults, attemptAge>>

\* The run is recorded at the time the job was dispatched.
WriteRun(j) ==
  /\ stage[j] = "writing"
  /\ Settles(j)
  /\ runAge' = [runAge EXCEPT ![j] = jobAge[j]]
  /\ UNCHANGED <<faults, attemptAge, failedAge>>

\* The write is rejected: logged as a failed job, although its backoff entry is
\* already gone.
WriteRunFails(j) ==
  /\ faults < MaxFaults
  /\ stage[j] = "writing"
  /\ Settles(j)
  /\ faults' = faults + 1
  /\ UNCHANGED <<runAge, attemptAge, failedAge>>

\* stop(): the timer is cleared and the promises in flight are collected.
Stop ==
  /\ stop = "no"
  /\ stop' = "waiting"
  /\ awaited' = InFlight
  /\ UNCHANGED <<timeOfDay, runAge, reads, faults, startIndex, stage, jobAge,
                 attemptAge, failedAge>>

\* They have all settled, and stop() resolves.
StopResolves ==
  /\ stop = "waiting"
  /\ awaited = {}
  /\ stop' = "done"
  /\ UNCHANGED <<timeOfDay, runAge, reads, faults, startIndex, stage, jobAge,
                 attemptAge, failedAge, awaited>>

Next ==
  \/ TimePasses
  \/ Stop
  \/ StopResolves
  \/ \E r \in 1 .. MaxReads : ReadJobRuns(r) \/ ReadFails(r) \/ RunDueJobs(r)
  \/ \E j \in Job :
       JobSucceeds(j) \/ JobFails(j) \/ WriteRun(j) \/ WriteRunFails(j)

\* Time passes, the database answers (only finitely many queries are rejected),
\* and a job settles: its requests time out and its queries return.
Fairness ==
  /\ WF_vars(TimePasses)
  /\ WF_vars(StopResolves)
  /\ \A r \in 1 .. MaxReads :
       /\ WF_vars(ReadJobRuns(r))
       /\ WF_vars(RunDueJobs(r))
  /\ \A j \in Job :
       /\ WF_vars(JobSucceeds(j) \/ JobFails(j))
       /\ WF_vars(WriteRun(j) \/ WriteRunFails(j))

Spec == Init /\ [][Next]_vars

FairSpec == Spec /\ Fairness

-----------------------------------------------------------------------------
(* Properties.                                                              *)

TypeOK ==
  /\ timeOfDay \in 0 .. DayTicks - 1
  /\ runAge \in Ages
  /\ reads \in [1 .. MaxReads ->
                {NoRead, Asked} \cup {Answered(a) : a \in Ages}]
  /\ faults \in 0 .. MaxFaults
  /\ startIndex \in Job
  /\ stage \in [Job -> {"idle", "running", "writing"}]
  /\ jobAge \in Ages
  /\ attemptAge \in [Job -> 0 .. Backoff]
  /\ failedAge \in [Job -> 0 .. Backoff]
  /\ stop \in {"no", "waiting", "done"}
  /\ awaited \subseteq Job

\* However ticks and reads overlap, at most one job is in flight: a rebuild of
\* the rollup never runs beside a poll, nor two reference syncs together.
OneJobInFlight == \A i, j \in InFlight : i = j

\* A job outside FAST_RETRY_JOBS is not started again until FAILURE_BACKOFF_MS
\* after the start of an attempt that failed, whatever the other jobs do in the
\* meantime (scheduler.ts, FAILURE_BACKOFF_MS).
RetriesAreSpaced ==
  [][\A j \in Job \ FastRetry :
       stage[j] = "idle" /\ stage'[j] = "running"
         => failedAge[j] >= Backoff]_vars

\* A job that is due and out of backoff gets the slot, whichever other jobs keep
\* failing (scheduler.ts, startIndex), unless the scheduler is stopped.
DueJobIsDispatched ==
  \A j \in Job :
    MayStart(j, runAge) ~> stage[j] # "idle" \/ stop # "no"

\* stop() resolves once the jobs in flight have settled.
StopTerminates == stop = "waiting" ~> stop = "done"

\* Once stop() has resolved no job is running and none starts, so the pool can
\* be closed (main.ts, shutdownApp).
NothingRunsAfterStop == stop = "done" => InFlight = {}
=============================================================================
