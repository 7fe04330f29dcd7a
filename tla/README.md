# jellyfin-stats in TLA+

A verification project for jellyfin-stats: one Node process that polls a Jellyfin
server, keeps what was watched in Postgres, and serves a dashboard. The modules
model its core logic, TLC checks them on small instances, and the TLA+ proof
system proves their main invariants for every value of the constants.

Paths below are relative to the repository (`src/`).

## The system

`apps/server/src/main.ts` is the only long-lived process: it migrates the
database, repairs it (`reconcileOpenSessions`), starts the scheduler and then
listens for HTTP. Postgres holds all durable state; the process keeps the last
poll's snapshot and the last published list of streams in memory.

| component | state | operations | modelled |
|---|---|---|---|
| session poll (`sync/diff.ts`, `sync/applier.ts`) | snapshot; `playback_sessions`, `playback_rollup_daily` | diff the payload of `/Sessions` with the snapshot, apply one event at a time, save the snapshot | `PlaybackTracking` |
| startup reconciliation (`sync/reconcile.ts`) | same tables | close open rows not seen for two poll intervals, count the plays | `PlaybackTracking` |
| playback repository (`packages/db`, `playback.ts`) | same tables | `openSession`, `touchSession`, `closeSession`, `applyRollupDelta`, `recomputeRollupRange` | `PlaybackTracking`; backfill ranges and library ids in `Reporting` |
| snapshot store (`sync/snapshot-store.ts`) | snapshot, live list, listeners | load, save, publish, subscribe | split between `PlaybackTracking` (snapshot), `Shutdown` (subscriptions) and `LiveFeed` (publish) |
| scheduler (`scheduler.ts`, `sync/schedule.ts`, `jobs.ts`) | `inFlight`, `lastAttemptAt`, `startIndex`; `job_runs` | tick, dispatch, settle, stop | `Scheduler` |
| lifecycle (`main.ts`, `shutdown.ts`) | stage of startup or teardown | start, signal, teardown, timeout | `Shutdown` |
| live route (`api/routes/live.ts`) | registry of open streams | subscribe, greet, abort, `closeAll` | `Shutdown`; what is sent is in `LiveFeed` |
| dashboard sessions, login, rate limit (`api/sessions.ts`, `api/routes/auth.ts`, `middleware/auth.ts`, `auth.ts`) | `sessions`, `rate_limits`; the browser's cookie | login, slide, logout, sweep | `AuthSessions` |
| browser session (`auth/session.tsx`, `client.ts`, `unauthorized.ts`) | status, user | bootstrap, login, logout, 401 | `AuthSessions`; a probe's 401 in `LiveFeed` |
| live feed and screen (`useLiveSessions.ts`, `routes/live.tsx`) | list shown, `connected`, the EventSource | publish, first event, errors, probes, reconnection | `LiveFeed` |
| reference sync (`sync/reference-sync.ts`, `reference.ts`, catalogue requests of `client.ts`) | `items`, `libraries`, `jellyfin_users` | enumerate, upsert in chunks, archive the missing | `Catalogue` |
| backfill (`backfill.ts`) | `playback_rollup_daily` | rebuild a range, from a second process | `Reporting` |
| statistics and history (`stats.ts`, `history.ts`, their routes) | none of their own | queries over the tables above, ranges and limits | `Reporting` |
| screens (`routes/*.tsx`, `lib/range.ts`) | filter, page, range, cached answers | paging, picking a range, the gate | login and gate in `AuthSessions`, live in `LiveFeed`, history and range in `Reporting`; the others render query results |
| images, settings, static files, seed, configuration, logging, migrations | none of their own | pure I/O, declarations, development data | no |

How they interact: the scheduler runs one job at a time; `session-poll` writes
the tables and then the snapshot, `rollup-recompute` rebuilds past days of the
rollup, `session-cleanup` sweeps sessions and rate limits, `reference-sync` and
`item-sync` refresh the catalogue. A poll ends by publishing its payload to
the listeners that live streams have attached. Requests run between the awaits of
the jobs. A signal stops the scheduler, ends the streams, closes the server and
closes the pool, in that order, with a timeout behind all of it.

What makes each component correct, and what is hard about it:

- **Tracking.** The rollup and the sessions agree; no play is counted twice, none
  is lost without a fault; watch time stays within the time that passed. Hard
  because every write is awaited: a query may be rejected, or the process may
  die, between any two of them; because a failed poll is diffed again; because a
  stream may cross midnight and the nightly rebuild; and because the clock may stall
  or step back.
- **Scheduler.** One job at a time, spaced retries, no starvation, a `stop()`
  that means it. Hard because reads of `job_runs` overlap ticks and jobs.
- **Lifecycle and streams.** A signal ends in an exit, nothing uses the pool after it
  is closed, every listener goes with its stream. Hard because a client may
  leave, and a signal may come, at any step of a stream's setup.
- **Sessions and login.** A session that is logged out never answers again and is not
  shown, its cookie lasts as long as its row, the limit bounds the attempts and refuses
  nobody without cause. Hard because requests of one page are answered in any order or
  never, each answer re-issues the cookie, and expiry, sweep and logout touch the same
  row.
- **Live feed.** The list on the screen is the latest, or is marked as old, and a
  screen whose stream broke is connected again or taken away. Hard because a publish
  may fall between any two steps of a stream's setup, and EventSource reports every
  failure alike.
- **Catalogue.** Archived means missing while it was enumerated; the tables catch up
  with Jellyfin. Hard because users and libraries come and go, libraries answer at different moments and a sync may end
  between any two statements.
- **Reporting.** Rollup rows add up to their sessions although a second process
  rebuilds them beside the poll, the figures of a dashboard agree with each other although
  users and libraries reach their tables later than their plays, and paging through a history that grows skips nothing.

`PROJECT.json` lists every hazard at its line, with the properties that
cover it.

## Modules

| module | is |
|---|---|
| `PlaybackTracking`, `MCPlaybackTracking`, `PlaybackTrackingProofs` | poll, reconciliation and nightly rebuild over the two playback tables; theorems `TypeCorrect`, `NeverAhead`, `DriftOnlyByFault` and, against `PlayLedger`, `ImplementsLedger` |
| `TrackingCleanProofs` | more about it: `WatchOnlyGrows`, `RepairIsComplete`, and what holds when nothing fails, `OneRowWithoutFaults`, `RowsAreTrackedWithoutFaults`, `WatchFitsWithoutFaults` |
| `PlayLedger` | what tracking promises, as a ledger |
| `Scheduler`, `MCScheduler`, `SchedulerProofs` | the scheduler; theorems `TypeCorrect`, `SingleSlot`, `Spacing` |
| `Shutdown`, `MCShutdown`, `ShutdownProofs` | lifecycle and live streams; theorems `ShapeHolds`, `ListenersReachable`, `PoolIsClosedLast` |
| `AuthSessions`, `MCAuthSessions`, `AuthSessionsProofs` | login, session, logout, rate limit and the page that hears the answers; theorems `TypeCorrect`, `LogoutIsFinal`, `LogoutIsNotShown`, `CookieLasts`, `LoadingEnds`, `AttemptsBounded`, `RefusalsHaveCause` |
| `LiveFeed`, `MCLiveFeed`, `LiveFeedProofs` | what one live screen is sent and shows; theorems `TypeCorrect`, `NothingIsSkipped`, `CaughtUpTabLagsOne`, `LiveMeansStreaming`, `SignOutIsDeserved` |
| `Catalogue` | the reference sync |
| `Reporting`, `MCReporting`, `ReportingProofs` | extends `Catalogue`: poll, backfill, statistics and the history screen over the same tables; theorems `TypeCorrect`, `ArchivingIsJustified`, `AttributionKept`, `DriftExplained`, `FiguresAlwaysAgree`, `TotalsCover`, `NothingSkipped` |
| `FiniteSums` | lemmas about sums over finite sets, for the proofs of the rate limiter and of `Reporting` |

Definitions keep the names of the source where TLA+ allows it. A definition whose
name ends in `_M` is the one after it with a plausible bug; `PROJECT.json` pairs
each with the property that notices it.

### PlaybackTracking

A stream is a pair of session id and item id (`snapshotKey`). `open[k]` is the
one row with `ended_at IS NULL` the partial unique index allows. Closed rows
are never written again, so they are kept as sums per day and stream.
The code's rollup row is per user and item; the model keeps an entry per stream,
and the code's row is the sum of the entries of its streams. `far` stands for the
position: whether it is past `COMPLETION_THRESHOLD` of the runtime.

`PlaybackTracking.phase` is where the process is. A poll is `PollStart` (clock, request, diff),
one action per event (`ApplyStarted`, `ApplyTouched`, `ApplyEnded`),
`ApplyRollupDelta` for the second write of an event, and `SaveSnapshot`.
`delta` is the rollup write that is owed between the two; every step of a
poll but that one waits for it, as the code awaits. `PollFails` ends a poll anywhere,
`Crash` ends the process anywhere, `Boot`, `ReconcileClose`, `ReconcileDone`
start it again. `lost` is a history variable: the rollup entries whose delta a
fault dropped and no rebuild has covered since.

Not in the model: devices (written before a row is opened, read by nobody here), the
position and pause flag of a row, the library id of a rollup row (`Reporting` has it),
seeded rows, and sessions without an identity, which `getSessions` and `diffSessions` drop.

`PlayLedger` is the abstract specification: a book of amounts that were recorded, and
the same book as it is shown. It has three steps: an entry is recorded, part of what
is recorded and not shown is shown, and a span of days is shown as recorded. Shown
never passes recorded. `PlaybackTracking` implements it with `Recorded` for the book and
the rollup for what is shown (`Ledger == INSTANCE PlayLedger WITH ...`); a session write
is the first step, `applyRollupDelta` the second, the nightly rebuild the third, and
everything else, faults included, leaves the ledger alone.

### Scheduler

A job is its index in `JOB_NAMES`. Only differences of timestamps are ever compared,
so a timestamp is modelled by its age in ticks, which stops growing where no
comparison can tell it from a missing timestamp; that makes the state finite
without bounding time. `reads` are the ticks that await `job_runs`; each is
answered with the ages at that moment and delivered later. `RunDueJobs` is the
synchronous stretch from the resolved read to the dispatch. `stage[j]` is the
promise of a job: running, or writing its run. Days have one length: the
changes to and from summer time are left out.

### Shutdown

`stage` is how far `startApp` or `shutdownApp` has come, `request[t]` how far the
server has come with the request of tab `t`. `subscribing` is the await of
`deps.subscribe`, `greeting` the await of the first event, `parked` the final
promise. An abort handler that is installed after the abort is not called (Hono's
`onAbort`; the `aborted` flag in `live.ts` exists for it): a stream aborted while
`greeting` is `stuck`, its handler never returns, and its connection stays in use
until the client leaves. The scheduler is reduced to one job and one read.

### AuthSessions

`request[s]` is a request of the page: sent, let through the rate limit
(`checking`), or answered and on its way. The server executes it in one step per
statement, which may reject. `Deliver` is the arrival: the browser applies Set-Cookie,
then the page, if it still waits (`heard`), does what `session.tsx` does with the
answer. `ConnectionFails` and `Reload` stop the waiting, not the request: the server may
still execute it and the browser still takes its cookie, or it may `Vanish`. `row` and
`jar` hold what is left of a lifetime. `spent` is a history variable: the attempts the limit let
through within the last window. `astray` says that the last cookie re-issued for the
session of the jar was lost on its way, which is the one thing that may leave a
cookie behind its row.

A tick is long beside a query, so reading the clock and the statement it is read for
are one step. One logout is under way at a time. Users and names are the session they came with;
the fallback account is an administrator like any other.

### LiveFeed

One screen, one stream at a time. `handler` is how far `registerLiveRoute` has come with
it, `channel` what is under way to the tab, `source` the state of the EventSource,
`probe` the requests to `/api/auth/me` that errors have started. A probe is answered 200, 401 or
500 (`AnswerProbe`, `ProbeFails`), finds no server (`LoseProbe`) or breaks off (`BreakProbe`); the hook
swallows all but the 401. Lists are numbered; `seen` is the history of those shown from this
stream. `stranded` is a history variable: EventSource has given up, which it does after a handshake answered
401 or 500, and the last of its probes ended without a 401 (`Untold`), so that no event will
come any more. The next poll is an interval away, so at most one publish falls between
the read of the first event and its write.

### Catalogue and Reporting

`jellyfin` holds Jellyfin's users and libraries, `where` its content; both change while they
are asked for. `known` holds the ids in the tables of users and libraries, which are no
foreign keys of anything: a user may have plays, and an item a library, that is not among them.
`sync` is the job: `asking`, `users`, `libraries`, `folders` (the second request for the
libraries, in `getItems`), `items` (libraries answer one by one), `writing` (chunks, then the
archiving). Users come and go, libraries only come. The two answers of `asking` are
taken at one moment, since nothing compares users with libraries.

`Reporting` adds the plays of a script, each with one unit of watch time, their
rollup rows, and the delta of the poll in flight. The poll and the sync share the
scheduler's slot; the backfill and the screens do not. `rebuild` is the backfill's
transaction: `gone` are the rows its DELETE holds, `made` those of its INSERT, both
invisible until `CommitRebuild`, and both blocking `applyRollupDelta`. `marked` is
a history variable: rollup rows with a delta that was lost, or that the backfill counted
and the poll then added. The statistics are operators over this state, and the history
screen is `page`: its request is two statements, with anything between them, and its
answers are kept by the query cache for a while; when they are too old is a free choice.
`Budgets` gives TLC one corner of the system after the other, since their product is too
large; every action is in `Next` in all of them.

The history has one filter, a user or a library.

Not in the model: the history's date range and a filter by user and library at once (both
restrict the rows and move none), the nightly rebuild beside a backfill, seeded rows, the order of
items with equal watch time and name, `from` and `to` defaults of the API (the screens
always send both), and an answer that arrives after the page was left.

## Runs

| run | shows | instance |
|---|---|---|
| `tracking_clean` | `OneOpenRowPerSession`, `OpenRowsAreTracked`, `WatchWithinSpan` hold when nothing fails | one session, two items, six polls, three days |
| `tracking_faults` | `TypeOK`, `RollupNeverAhead`, `DriftOnlyWhereDeltaLost`, `WatchNeverDecreases`, `ReconcileLeavesNothingStale`, `KeepsLedger` hold when polls fail, the process dies and the clock steps back | one session, two items, three polls, two days |
| `replay_inflates` | `WatchWithinSpan` is violated when a poll fails half way | as `tracking_clean`, with failing polls |
| `orphan_after_restart` | `PollLeavesNoOrphan` is violated by a quick restart | as `tracking_clean`, with crashes |
| `never_completed` | `FinishedPlayIsCompleted` is violated without any fault | as `tracking_clean`, both values of `far` |
| `scheduler` | `TypeOK`, `OneJobInFlight`, `RetriesAreSpaced`, `DueJobIsDispatched`, `StopTerminates` hold | three jobs; polls settle within their tick, the others within the next |
| `starved_by_hanging_polls` | `DueJobIsDispatched` is violated when failing polls hang for a whole rotation | three jobs; polls of up to three ticks |
| `job_after_stop` | `NothingRunsAfterStop` is violated | as `scheduler` |
| `shutdown` | `TypeOK`, `ListenersAreReachable`, `PoolOutlivesItsUsers`, `LeftTabsAreReleased`, `SignalIsAnswered` hold | two tabs |
| `accounts` | `TypeOK`, `ConfirmedLogoutIsFinal`, `SignedOutIsNotShown`, `CookieOutlivesRow`, `AttemptsAreBounded`, `RefusalHasCause`, `LoadingHasAnEnd` hold | two sessions, two requests in flight, one reload, a limit of two |
| `live_feed` | `TypeOK`, `NoListIsSkipped`, `LagsOnePublish`, `StaleListIsMarked`, `NoFalseSignOut`, `ScreenRecovers` hold | two publishes per process, two faults, two visits, two probes |
| `reporting` | `TypeOK`, `DriftIsExplained`, `StatsAgree`, `NothingIsSkipped`, `TotalCoversPage`, `ArchivedWasMissing`, `AttributionIsKept`, `CatalogueCatchesUp` hold | seven corners, up to two items, libraries and users, three days and three plays |

### Bounds

*Tracking.* A tick is half a poll interval, so that `MaxWatchDelta` (1.5 intervals) is 3
and `StaleAfter` (2 intervals) is 4, the ratios of `env.ts`. A day is 6 ticks: with clock
steps of 2 (a normal poll) and 5 (a stall, beyond both limits) streams cross one and
two midnights. With `LookbackDays` 1 a rebuild covers yesterday and misses the day
before, so a loss can be repaired in time or too late. Two items on one session
give auto-play of the next item, and watching the first again; sessions of different
clients share no row, so a second one adds only the order of independent writes. Three
polls with faults are a start, a touch or a failed touch, and its replay or the end.
`MaxTime` and `MaxPolls` only bound the counters. The runs stop at these bounds,
so deadlock is not checked.

*Scheduler.* Three jobs are one of each kind: retried at once, interval, daily. The backoff
equals the day, the longest the model can tell apart. `MaxReads` is 1 in the runs: a read is
answered before the next tick. `MaxFaults` is 1. The theorems hold for any `MaxReads`
and `MaxFaults`.

*Shutdown.* Nothing is bounded but the number of tabs, and a tab may reconnect for ever.

*Accounts.* A lifetime of two ticks lets a session slide, expire and be swept while a
request is under way. The real lifetime, window and retention are 7 days, 15 minutes and
24 hours; the model keeps what the properties depend on, that the retention is not
shorter than the window. `Limit` is 2 (10 in the code): attempts are turned
down, and two windows that meet let three attempts through in a span of one window, so the
bound of `AttemptsAreBounded`, one less than twice the limit, is reached. `Explored` leaves
out windows beyond the limit once both sessions exist: no login can succeed any more then, and an
attempt that is turned down looks to the page like one whose row could not be written, which stays. After a
reload it leaves out the limit itself, too. Sessions and slots are symmetric; all properties of the run are safety.

*Live feed.* Two lists make one skipped, repeated or overtaken; two visits let the probe of the
first answer in the second; two probes are under way at once, and a third error waits for
one to end. `MaxFaults` counts broken connections and probes, rejected queries and restarts; with
two, a refused handshake can lose its probe before or after a restart. Nothing continues at the bounds once the last visit is over, so deadlock is not checked.

*Reporting.* `MovingContent` starts from any content of two items in two
libraries, with two moves, one failure and both kinds of sync. `Backfills` has two plays on two days and
two ranges, with a fault: a delta lost or doubled before, during and after a rebuild. `Dashboards` and
`Attribution` have plays whose items are synced, moved and archived meanwhile. In `Newcomers` users are
created and removed and one of them plays, before, between and after the syncs; in `Arrivals` a
library is created and an item moved while a sync runs, so that an item has a library that
is not in the table. `Paging` has three
plays, one over before the visit, pages of one row and two visits. A range of two days
out of three makes the picker clamp. A corner whose script is played and that runs no
sync stops, so deadlock is not checked.

### Fairness

*Scheduler.* Time passes; a query on `job_runs` is answered; a job settles, because its
requests time out (`packages/jellyfin/src/client.ts`) and its queries return.
Which way it settles is free, so a job may fail for ever. Nothing makes
`stop()` be called. `MaxJobTicks` says how long each job may last; the two liveness
runs differ in it: with polls that settle within a tick no job starves, with polls
that hang for a multiple of the rotation the others do.

*Shutdown.* Timers fire, promises continue, the socket of a client that left is noticed.
No client has to leave and nobody has to send a signal.

*Live feed.* A server that is down is started again (the restart policy of the compose
file), it answers what reaches it, messages arrive and EventSource retries. No fault is forced: no
connection and no probe has to break, and no query has to be rejected. Nobody has to open the
screen, leave it or sign in, and polls need not come.

*Reporting.* Requests have timeouts and statements end, so a sync, a delta and a backfill
that are under way go on. Strong fairness for the start of a full sync: the slot is free
again and again, not for ever, and `DueJobIsDispatched` gives it to a sync that is due. That holds
where polls settle within their tick; where they hang for the length of a rotation
(`starved_by_hanging_polls`) it does not, and `CatalogueCatchesUp` is not claimed there.

*Tracking* and *Accounts* state safety only.

## Disagreements between code and documents

Each is a run that TLC ends with a counterexample.

1. **A failed poll is credited twice** (`replay_inflates`). The snapshot is saved only
   after every write. When a write is rejected half way, the next poll measures from
   the old observation, although rows applied before the failure already hold that
   time. The README says a stalled app cannot inflate watch time.
2. **A quick restart orphans a row** (`orphan_after_restart`). A stream that stops while
   the process restarts within two poll intervals is too fresh for reconciliation and
   unknown to the empty snapshot. Its row stays open until another restart.
3. **No play is ever completed** (`never_completed`). The runtime of an ended stream is looked up
   in the payload the stream is absent from.
4. **Hanging polls starve the other jobs** (`starved_by_hanging_polls`). The rotation
   advances on every tick, also while the slot is taken, so a poll that fails
   after a multiple of `JOB_NAMES.length` ticks always leads when the slot is free. A request times
   out after 15 s, which is three rotations of five one-second ticks.
5. **A job can start after `stop()`** (`job_after_stop`): `stop()` does not await the
   tick that awaits `job_runs`.

Seen while modelling, without a run of their own; the properties concerned say in their
definition what they exclude:

- A logout that fails (500, or no connection) leaves the cookie and the row, though
  the page says signed out; the comment in `session.tsx:199-201` says the cookie is gone either way,
  and `README.md:247` that logout always answers 200.
- An answer under way re-issues the cookie it was asked with (`middleware/auth.ts:36`), also over
  the cookie of a newer login, and a late 401 of an old query signs out a fresh
  session (`client.ts:30`); queries have no flag like the hook's `cancelled`.
- A connection that is half open and never reported stays "Live".
- A refused live screen can stay disconnected (`stranded`). EventSource does not retry after a
  handshake answered 401 or 500: it fires one error, which starts one probe. If that probe
  breaks off or is answered 500, nothing follows, while the comments in `useLiveSessions.ts:53-54`
  and `133-134` count on further retries and probes, and the pill in `live.tsx:30` says "reconnecting".
- A user who is created, plays and is removed between two reference syncs never gets a row in
  `jellyfin_users`: the overview counts the plays, the history shows them under "Unknown user"
  (`history.ts:136`), and no list of users has them. For a user who stays this lasts until the next
  sync (`stats.ts:180-184`, `FiguresAgree`, `CatalogueCatchesUp`).
- A backfill that counts a session whose delta is in flight doubles that delta (`marked`), until the
  day is rebuilt.
- An item in two libraries can put the same row twice into one INSERT, which Postgres refuses: every item sync
  then fails (`Overlapping`).
- A history filtered by library skips a row when a sync moves an item (`ItemsStayPut`), and any
  history may skip one on a second visit within the cache's stale time, whose pages are of
  different ages (`page.old`).
- `to` without `from`, older than 30 days, is answered 400, because `from` then defaults to a
  later day (`parseRange`).

## Proofs

The theorems hold for every value of the constants that satisfies the named
assumptions: `ConstantsAssumption` and `NoneAssumption` (`PlaybackTracking`),
`SchedulerAssumption`, `AuthAssumption`, `LiveAssumption`, and `CatalogueAssumption`,
`ReportingAssumption` and `ReportingNoneAssumption` (`Reporting`). They say what the
intervals, counts and sets are, that a bound is a natural number, that `None` is told from
data, that the tables of users and libraries are finite, and (`Budget`) what a corner of
the system may be given to do. `Shutdown` has none.

*Sums* (`FiniteSums`)

The induction theorems of the library take the statement as an operator, which no prover
at hand instantiates. `NatSets` and `SetsGrow` state them for a set in its place: the numbers, or
the subsets of a finite set, for which the statement holds. They follow from `WFMin`
and from `<` on the naturals and the strict subsets of a finite set being well founded.
With them the fold behind `SumFunction` is shown to exist and not to depend on
the order (`TallyExists`, `SumTally`, `SumRemove`), and from there on sums are taken apart
by named lemmas: one term changes (`SumChange`), an interval moves (`SumShift`, `SumSplit`), a sum is
taken part by part (`SumParts`).

*Tracking* (`PlaybackTrackingProofs`, `TrackingCleanProofs`)

- `TypeCorrect`, `NeverAhead`, `DriftOnlyByFault`. The inductive invariant is
  `AgreementInv`: the types, the fact that a delta is owed only while a poll or a
  reconciliation runs, and the two properties. The types alone do not say that
  `Recompute`, which starts from an idle process, finds no delta in flight;
  with one, it would count that delta and leave it to be counted again. The arithmetic
  is in one place: a session write changes `Recorded` for one day and stream by exactly the
  delta it owes (the lemmas on opening, touching and closing), so
  `Settled - Recorded` changes only in `PollFails`, `Crash` and `Recompute`.
- `ImplementsLedger`. Every step, from a state of `AgreementInv`, is a step of `PlayLedger` or
  leaves it alone: `RecordStep` for the session writes, `ShowStep` for `ApplyRollupDelta`,
  `RebuildStep`, `SilentStep` for the rest. That shown never passes recorded
  after a rollup write is `RollupNeverAhead` before it.
- `WatchOnlyGrows` follows from the types. `RepairIsComplete` needs `StaleInv`: while the
  reconciliation runs, a row it has not in hand is fresh.
- `OneRowWithoutFaults`, `RowsAreTrackedWithoutFaults` assume `Faults = {}`. `CleanInv`
  says what a waiting event knows of its row, the snapshot and the payload, and that no row
  is opened while an ended event waits; with the payloads, which name one item per
  session, that gives one open row, out of the snapshot before the last end
  and out of the payload after it.
- `WatchFitsWithoutFaults` also assumes that the clock does not step back. `SpanInv` adds that
  what an event will credit lies after the row was last seen, for which the snapshot may
  not be older than the rows; that is what a failed poll breaks (`replay_inflates`).

*Scheduler* (`SchedulerProofs`)

- `TypeCorrect` is inductive by itself.
- `SingleSlot`. `SlotInv` adds the type of `stage` and the range of `startIndex`. The step
  that matters is the dispatch: `Turn` is injective, so the first job of the rotation is
  unique.
- `Spacing`. `RetriesAreSpaced` is about `failedAge`, which the code does not keep; it
  keeps `lastAttemptAt`, which a later success erases. `BackoffInv` relates the two: the
  entry is never older than the last failure, a job that holds the slot had no
  failure within the backoff, and the entry of a running job is as old as the job.

*Shutdown* (`ShutdownProofs`)

- `ListenersReachable`, `ShapeHolds`. `ListenersAreReachable` is inductive with the types it
  needs (`StreamInv`); the cases that matter are aborts before, during and after the setup
  of a stream.
- `PoolIsClosedLast`. `TeardownInv` says what each stage of the teardown has behind it: once
  the server closes nothing that `stop()` awaited is left, and once the pool is released no
  connection is.

*Accounts* (`AuthSessionsProofs`)

- `TypeCorrect` needs that an answer to a request that signs in carries an id (`AnswersHaveIds`).
- `LogoutIsFinal`. `IdsAreCreated` (every id in use was handed out, so a login takes a fresh
  one) and `LogoutsAreDone` (the row of a logout answered with success is gone) make
  `ConfirmedLogoutIsFinal` inductive.
- `LogoutIsNotShown`. `PageInv` is about the answers the page still listens to: one that signs in at
  most, none while it is signed in, none for a session whose logout is confirmed or under way.
- `CookieLasts` and `LoadingEnds` are inductive with the types.
- `AttemptsBounded`, `RefusalsHaveCause`. `LimiterInv`: the attempts let through since the row's
  window began add up to its count, cut at the limit, and those before it, as far as the last
  window reaches, stay below the limit. `RefusalHasCause` speaks of the row; `rate-limit.ts` also refuses
  when the row cannot be written (it fails closed), which has no such cause and is outside it. A row that refuses was therefore filled within the last
  window, and a span of one window meets two rows at most. The step that matters is the tick, which
  moves every age: the sums over the ages move with it (`SumShift`).

*Live feed* (`LiveFeedProofs`)

- `NothingIsSkipped`, `CaughtUpTabLagsOne`, `LiveMeansStreaming`. `StreamInv` describes the end of
  the channel: the last message of a parked handler is the latest list or the one before, a
  channel that is not listened to ends with the end of the stream, and the list a handler
  has read is at most one publish old when it is written.
- `SignOutIsDeserved`. `ProbeInv`: a probe that is not cancelled belongs to a mounted hook, and its
  401 says that the session is over.

*Reporting* (`ReportingProofs`)

- `ArchivingIsJustified`. `SyncInv`: the libraries of an item that stayed put since `getItems` began
  are among those it asks, and the item is in every answer of one, hence in the set that the
  archiving spares.
- `TypeCorrect`. `TypeInv` is the types with `SyncInv`: that the sync gathers nothing but items
  does not follow from the types alone. Counts and watch time are naturals because the
  sessions of a rollup row are finitely many.
- `AttributionKept`. `RowsHavePlays` (no row, delta or mark without a session), `RebuildShape` (the
  backfill holds rows of its range only) and `AttrInv`: a row with a library has an
  items row, and what the backfill inserts has a library wherever what it deletes had one. The
  commit is the step that matters: it may drop a row only if the row has no sessions.
- `DriftExplained`. `DriftInv` adds to the property what the backfill is about to commit: a row it
  has inserted, and will not mark, is exact as well, and every marked row of its range is either
  inserted again or marked again. Without that, `CommitRebuild` could clear a mark over a wrong row.
- `FiguresAlwaysAgree`. The figures are sums over one state of the tables, so no invariant is
  needed but the types, `RowsHavePlays` (the rows are finitely many) and `DriftInv` (for the devices, which
  are counted from the sessions). The series and the top list partition the rows of the range by day and
  by item; the lists of users and libraries partition those whose user or library is in its table,
  and no others (`SumParts`, `StatsSum`). While nothing has drifted, the overview counts every session
  that is over and each listed user has theirs (`EndedAgree`), so what a list of users lacks
  is what unknown users played. `StatsAgree` compares the figures while the history screen is
  closed and no request of a sync is under way, which is all TLC needs; the theorem is about every state.
- `TotalsCover`, `NothingSkipped`. `TotalInv`: every answer on the screen, kept or under way
  fits its total. `SkipInv`: up to the page on the screen, every play that was due has been
  shown. It is inductive because the list only grows at its front while items stay
  put, which moves each play back and never forward (`BeforeGrows`, `CoversStays`), so that a
  page turned forward starts at or before where the last one ended.

Only model-checked is liveness (`DueJobIsDispatched`, `StopTerminates`, `LeftTabsAreReleased`,
`SignalIsAnswered`, `ScreenRecovers`, `CatalogueCatchesUp`), which the installed backends do not
do under fairness. Every invariant and every safety property of a step that a passing run checks
has its theorem.

No module uses a `RECURSIVE` operator.

## Not modelled

- Images (`api/routes/images.ts`), settings (`api/routes/settings.ts`) and static files
  (`api/static.ts`): a request in, a response out, no state.
- Configuration (`env.ts`) and logging: parsing and wording. The derived intervals and their
  ratios are constants of `PlaybackTracking`.
- The seed script: it fills an empty development database once.
- Migrations, indexes, and columns that no behaviour depends on. The tables are variables, their
  keys the domains of these.
- URLs, headers and payload parsing of the Jellyfin client; names, series and artwork of items.
- The remaining screens (overview, item, user, charts): they render query results that `Reporting`
  computes, and hold no state beyond the selected range.
- Tests.

What the modules themselves leave out is said with each of them above.

## Left

A nightly rebuild beside a backfill is not composed in one instance; each is modelled on
its own. `FiguresAlwaysAgree` says of a list that was cut only that nothing is longer watched than its
first entry. The rate limiter and the history have no abstract specification; their theorems
speak of history variables instead.
