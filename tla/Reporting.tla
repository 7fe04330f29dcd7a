----------------------------- MODULE Reporting -----------------------------
(***************************************************************************)
(* What the dashboards read.  The rows of playback_sessions and their      *)
(* daily totals in playback_rollup_daily, written by the server's jobs and *)
(* rebuilt by the backfill script (apps/server/src/backfill.ts,            *)
(* recomputeRollupRange and applyRollupDelta in                            *)
(* packages/db/src/repositories/playback.ts), the statistics computed from *)
(* them (repositories/stats.ts, api/routes/stats.ts, web lib/range.ts) and *)
(* one visitor paging through the history (repositories/history.ts,        *)
(* api/routes/history.ts, web routes/history.tsx, PlaybackHistoryTable).   *)
(*                                                                         *)
(* The poll and the reference sync are jobs of one process, which runs one *)
(* at a time (Scheduler.tla); how a poll makes its writes, and the nightly *)
(* rebuild, are in PlaybackTracking.tla.  The backfill and the page are    *)
(* other processes and interleave with everything: the backfill's          *)
(* transaction runs at READ COMMITTED, each of its statements seeing what  *)
(* is committed when it starts, and holds the rows it has touched.         *)
(*                                                                         *)
(* A definition whose name ends in _M is the one after it with a plausible *)
(* bug put in; it is used only to see that a property notices the bug.     *)
(***************************************************************************)
EXTENDS Catalogue, Sequences, Functions

CONSTANTS
  Days,          \* the UTC days of the model: an interval
  NameRank,      \* the order of the items' names; two may be the same
  PageSize,      \* PAGE_SIZE of the history screen
  MaxLimit,      \* MAX_HISTORY_LIMIT, and MAX_TOP_ITEMS
  DefaultLimit,  \* DEFAULT_HISTORY_LIMIT, and DEFAULT_TOP_ITEMS
  MaxRangeDays   \* MAX_RANGE_DAYS, of the server and of the client

\* A budget also holds the plays of a behaviour in the order they start, how many
\* of them are over when it begins, the ranges to be rebuilt, each at most once,
\* the filters the visitor of the history sets, and how often.
Budget ==
  [jellyfin : Reference, contents : SUBSET [Items -> SUBSET Libraries],
   synced : BOOLEAN, syncs : SUBSET BOOLEAN,
   script : Seq([day : Days, user : Users, item : Items]),
   changes : Nat, moves : Nat, faults : Nat, backfills : SUBSET [from : Days, to : Days],
   filters : SUBSET (Users \cup Libraries \cup {None}), visits : Nat, played : Nat]

ASSUME ReportingAssumption ==
  /\ Budgets \subseteq Budget
  /\ Days \subseteq Nat
  /\ IsFiniteSet(Users) /\ IsFiniteSet(Libraries)
  /\ NameRank \in [Items -> Nat]
  /\ PageSize \in 1 .. MaxLimit
  /\ MaxLimit \in Nat
  /\ DefaultLimit \in 1 .. MaxLimit
  /\ MaxRangeDays \in Nat \ {0}

VARIABLES
  play,     \* playback_sessions: the row of each play of the script
  rollup,   \* playback_rollup_daily, as committed
  pending,  \* a rollup delta whose session write has landed and it has not
  rebuild,  \* the backfill's transaction
  marked,   \* history: the rollup rows a lost or a doubled delta has left wrong
  page      \* the history screen

reporting == <<play, rollup, pending, rebuild, marked, page>>

vars == <<catalogue, reporting>>

-----------------------------------------------------------------------------
(* Data.                                                                    *)

Key == Days \X Users \X Items

Plays == DOMAIN budget.script

keyOf(n) == <<budget.script[n].day, budget.script[n].user, budget.script[n].item>>

Row == [watch : 0 .. 1, ended : BOOLEAN]

RollupRow == [plays : Nat, watch : Nat, library : Libraries \cup {None}]

Delta == [key : Key, plays : 0 .. 1, watch : 0 .. 1]

DateRange == [from : Days, to : Days]

\* No row, no delta, no range and no number is None, nor is a user or an item.
ASSUME ReportingNoneAssumption ==
  None \notin Users \cup Items \cup Nat \cup ItemRow \cup Row \cup RollupRow
               \cup Delta \cup DateRange

\* The library the items table gives an item.
libraryOf(i) == IF item[i] = None THEN None ELSE item[i].library

\* The committed rows of playback_sessions of one rollup row.
PlaysOf(k) == {n \in Plays : keyOf(n) = k /\ play[n] # None}

EndedOf(k) == {n \in PlaysOf(k) : play[n].ended}

WatchOf(k) == SumFunction([n \in PlaysOf(k) |-> play[n].watch])

\* The rollup row its sessions add up to.
Counted(k) ==
  [plays |-> Cardinality(EndedOf(k)), watch |-> WatchOf(k),
   library |-> libraryOf(k[3])]

\* `gone`: the rows the backfill has deleted.  `made`: those it has inserted.
\* `dirty`: history, the rows it will commit a lost or a doubled delta of.
RebuildState ==
  [stage : {"idle", "deleted", "inserted"}, range : DateRange \cup {None},
   gone : SUBSET Key, made : [Key -> RollupRow \cup {None}], dirty : SUBSET Key]

NoRebuild == [stage |-> "idle", range |-> None, gone |-> {},
              made |-> [k \in Key |-> None], dirty |-> {}]

\* The filter of the history screen: a user, a library or neither.
Filter == Users \cup Libraries \cup {None}

KeptAnswer ==
  [filter : Filter, number : Nat \ {0}, rows : SUBSET Plays, total : Nat,
   recent : BOOLEAN]

\* `rows` and `total`: the answer on the screen.  `fetched`: the rows of the
\* request under way, between its two statements.  `due`: history, the plays the
\* filter matched when it was set.  `seen`: history, the plays shown since.
\* `kept`: the answers the query cache holds, with the page they are of, and
\* whether they came since the filter was set.  `old`: history, a page shown since
\* was kept from before.
PageState ==
  [stage : {"closed", "asked", "fetched", "shown"}, filter : Filter,
   number : Nat \ {0}, fetched : SUBSET Plays, rows : SUBSET Plays, total : Nat,
   due : SUBSET Plays, seen : SUBSET Plays, kept : SUBSET KeptAnswer, old : BOOLEAN]

NoPage == [stage |-> "closed", filter |-> None, number |-> 1, fetched |-> {},
           rows |-> {}, total |-> 0, due |-> {}, seen |-> {}, kept |-> {},
           old |-> FALSE]

Init ==
  /\ CatalogueInit
  /\ play = [n \in Plays |->
               IF n <= budget.played THEN [watch |-> 1, ended |-> TRUE] ELSE None]
  /\ rollup = [k \in Key |-> IF PlaysOf(k) = {} THEN None ELSE Counted(k)]
  /\ pending = None
  /\ rebuild = NoRebuild
  /\ marked = {}
  /\ page = NoPage

-----------------------------------------------------------------------------
(* The poll: a session row is written, then its rollup delta.               *)

\* The running job is a poll that has no delta to write.
PollMayWrite == sync.stage = "idle" /\ pending = None

\* openSession: the plays start in the order of the script.  Whoever plays is a
\* user of Jellyfin, known here or not.
Start(n) ==
  /\ PollMayWrite
  /\ keyOf(n)[2] \in jellyfin.users
  /\ play[n] = None
  /\ \A m \in 1 .. n - 1 : play[m] # None
  /\ play' = [play EXCEPT ![n] = [watch |-> 0, ended |-> FALSE]]
  /\ UNCHANGED <<rollup, pending, rebuild, marked, page>>

\* touchSession: watch time is credited.
Credit(n) ==
  /\ PollMayWrite
  /\ play[n] # None
  /\ ~play[n].ended
  /\ play[n].watch = 0
  /\ play' = [play EXCEPT ![n].watch = 1]
  /\ pending' = [key |-> keyOf(n), plays |-> 0, watch |-> 1]
  /\ UNCHANGED <<rollup, rebuild, marked, page>>

\* closeSession: the row ends, with some last watch time or none.
End(n) ==
  /\ PollMayWrite
  /\ play[n] # None
  /\ ~play[n].ended
  /\ \E w \in 0 .. 1 - play[n].watch :
       /\ play' = [play EXCEPT ![n] = [watch |-> play[n].watch + w, ended |-> TRUE]]
       /\ pending' = [key |-> keyOf(n), plays |-> 1, watch |-> w]
  /\ UNCHANGED <<rollup, rebuild, marked, page>>

coalesce(a, b) == IF a # None THEN a ELSE b

\* A row the backfill's transaction has deleted or inserted.
Held(k) == k \in rebuild.gone \/ rebuild.made[k] # None

\* The row takes the library of the delta, known or not, and none is resolved.
applyRollupDelta_M ==
  /\ pending # None
  /\ ~Held(pending.key)
  /\ rollup' =
       [rollup EXCEPT ![pending.key] =
          IF @ = None
            THEN [plays |-> pending.plays, watch |-> pending.watch,
                  library |-> libraryOf(pending.key[3])]
          ELSE [plays |-> @.plays + pending.plays, watch |-> @.watch + pending.watch,
                library |-> None]]
  /\ pending' = None
  /\ UNCHANGED <<play, rebuild, marked, page>>

\* INSERT ... ON CONFLICT DO UPDATE; it waits for a transaction that holds the
\* row.
applyRollupDelta ==
  /\ pending # None
  /\ ~Held(pending.key)
  /\ rollup' =
       [rollup EXCEPT ![pending.key] =
          LET library == libraryOf(pending.key[3])
          IN  IF @ = None
                THEN [plays |-> pending.plays, watch |-> pending.watch,
                      library |-> library]
              ELSE [plays |-> @.plays + pending.plays,
                    watch |-> @.watch + pending.watch,
                    library |-> coalesce(library, @.library)]]
  /\ pending' = None
  /\ UNCHANGED <<play, rebuild, marked, page>>

\* The statement fails or the process dies: the session row keeps what the
\* rollup never gets.
DeltaIsLost ==
  /\ pending # None
  /\ budget.faults > 0
  /\ budget' = [budget EXCEPT !.faults = @ - 1]
  /\ pending' = None
  /\ marked' = marked \cup {pending.key}
  /\ rebuild' = IF rebuild.stage = "inserted"
                  THEN [rebuild EXCEPT !.dirty = @ \cup {pending.key}]
                ELSE rebuild
  /\ UNCHANGED <<jellyfin, where, item, known, sync, steady, play, rollup, page>>

-----------------------------------------------------------------------------
(* The backfill.                                                            *)

\* --to is handed on as it is, so that its day is left out.
rebuiltDays_M(range) == {d \in Days : range.from <= d /\ d < range.to}

\* The days runBackfill rebuilds for --from and --to: parseBackfillArgs lets
\* through whole days in order, and recomputeRollupRange takes [from, to + 1).
rebuiltDays(range) == {d \in Days : range.from <= d /\ d < range.to + 1}

Rebuilt == {k \in Key : rebuild.range # None /\ k[1] \in rebuiltDays(rebuild.range)}

\* What the operator asked for, --to included.
Asked == {k \in Key : k[1] \in rebuild.range.from .. rebuild.range.to}

\* DELETE: the committed rows of the range.
BeginRebuild(range) ==
  /\ rebuild.stage = "idle"
  /\ range \in budget.backfills
  /\ range.from <= range.to
  /\ budget' = [budget EXCEPT !.backfills = @ \ {range}]
  /\ rebuild' = [NoRebuild EXCEPT
                   !.stage = "deleted", !.range = range,
                   !.gone = {k \in Key : k[1] \in rebuiltDays(range)
                                           /\ rollup[k] # None}]
  /\ UNCHANGED <<jellyfin, where, item, known, sync, steady>>
  /\ UNCHANGED <<play, rollup, pending, marked, page>>

\* INSERT ... SELECT: the rows counted afresh.  A row committed since the DELETE
\* is a duplicate key, and the transaction is rolled back.
InsertRebuilt ==
  /\ rebuild.stage = "deleted"
  /\ IF \E k \in Rebuilt \ rebuild.gone : rollup[k] # None /\ PlaysOf(k) # {}
       THEN rebuild' = NoRebuild
       ELSE rebuild' =
              [rebuild EXCEPT
                 !.stage = "inserted",
                 !.made = [k \in Key |->
                             IF k \in Rebuilt /\ PlaysOf(k) # {} THEN Counted(k)
                             ELSE None],
                 !.dirty = IF pending = None THEN {}
                           ELSE {pending.key} \cap Rebuilt]
  /\ UNCHANGED <<play, rollup, pending, marked, page>>

CommitRebuild ==
  /\ rebuild.stage = "inserted"
  /\ rollup' = [k \in Key |-> IF Held(k) THEN rebuild.made[k] ELSE rollup[k]]
  /\ marked' = (marked \ Asked) \cup rebuild.dirty
  /\ rebuild' = NoRebuild
  /\ UNCHANGED <<play, pending, page>>

\* The script dies or loses its connection: the transaction is rolled back.
RollBack ==
  /\ rebuild.stage # "idle"
  /\ budget.faults > 0
  /\ budget' = [budget EXCEPT !.faults = @ - 1]
  /\ rebuild' = NoRebuild
  /\ UNCHANGED <<jellyfin, where, item, known, sync, steady>>
  /\ UNCHANGED <<play, rollup, pending, marked, page>>

-----------------------------------------------------------------------------
(* The statistics, each one statement.  `range` is inclusive at both ends.  *)

\* A range the API answers 400 to.
Invalid == [from |-> None, to |-> None]

\* parseRange, for a query that gives both ends, as the screens' do.
parseRange(query) ==
  IF query.from > query.to \/ query.to - query.from + 1 > MaxRangeDays
    THEN Invalid ELSE query

\* A reversed range is left for the server to refuse.
clampRangeDays_M(range) ==
  IF range.to - range.from + 1 > MaxRangeDays
    THEN [range EXCEPT !.from = range.to - (MaxRangeDays - 1)]
  ELSE range

\* What the picker makes of two days: reversed ends are swapped, and a span that
\* is too long starts later.
clampRangeDays(range) ==
  LET from == IF range.from <= range.to THEN range.from ELSE range.to
      to == IF range.from <= range.to THEN range.to ELSE range.from
  IN  [from |-> IF to - from + 1 > MaxRangeDays THEN to - (MaxRangeDays - 1)
                ELSE from,
       to |-> to]

\* The limit of a top list or of a page of history; None stands for a limit that
\* is not a number.
clampLimit(limit) ==
  IF limit = None THEN DefaultLimit
  ELSE IF limit < 1 THEN 1
  ELSE IF limit > MaxLimit THEN MaxLimit ELSE limit

\* The rollup rows of a range.
InRange(range) ==
  {k \in Key : rollup[k] # None /\ range.from <= k[1] /\ k[1] <= range.to}

\* coalesce(sum(..), 0) of the plays and the watch time.
Totals(rows) ==
  [plays |-> SumFunction([k \in rows |-> rollup[k].plays]),
   watch |-> SumFunction([k \in rows |-> rollup[k].watch])]

getOverview(range) ==
  LET rows == InRange(range)
  IN  [totals |-> Totals(rows), activeUsers |-> {k[2] : k \in rows},
       activeItems |-> {k[3] : k \in rows}]

\* A point for every day of the range, quiet ones included.
getWatchTimeSeries(range) ==
  [d \in range.from .. range.to |-> Totals(InRange([from |-> d, to |-> d]))]

\* The last day is left out of the join.
getUserStats_M(range) ==
  LET rows == InRange(range)
  IN  [u \in known.users |-> Totals({k \in rows : k[2] = u /\ k[1] < range.to})]

\* Every user in the table, with zeros for a quiet one; the rows of a user who is
\* not in the table join none.
getUserStats(range) ==
  LET rows == InRange(range)
  IN  [u \in known.users |-> Totals({k \in rows : k[2] = u})]

\* Every library in the table; rows whose library is unknown join none.
getLibraryStats(range) ==
  LET rows == InRange(range)
  IN  [l \in known.libraries |-> Totals({k \in rows : rollup[k].library = l})]

\* The rows a top list counts: joined to items that are in the table, of one
\* library or of all (None).
TopRows(range, library) ==
  {k \in InRange(range) : /\ item[k[3]] # None
                          /\ library \in {None, rollup[k].library}}

\* The longest-watched items, ties broken by name.
getTopItems(range, library, limit) ==
  LET rows == TopRows(range, library)
      listed == [i \in {k[3] : k \in rows} |-> Totals({k \in rows : k[3] = i})]
      ahead(i, j) == \/ listed[i].watch > listed[j].watch
                     \/ /\ listed[i].watch = listed[j].watch
                        /\ NameRank[i] < NameRank[j]
  IN  [i \in {i \in DOMAIN listed :
                Cardinality({j \in DOMAIN listed : ahead(j, i)}) < clampLimit(limit)} |->
         listed[i]]

\* The sessions of some users that started in a range and are over.
EndedIn(users, range) ==
  {n \in Plays : /\ play[n] # None /\ play[n].ended
                 /\ keyOf(n)[2] \in users
                 /\ keyOf(n)[1] \in range.from .. range.to}

\* getUserDetail: the plays by device, summed, are counted in playback_sessions
\* and not in the rollup.
devicePlays(user, range) == Cardinality(EndedIn({user}, range))

-----------------------------------------------------------------------------
(* The history screen.  A page is loaded with two statements, the rows and  *)
(* then their count, with anything committed in between.                    *)

\* The plays the filter matches.  A play with no watch time is left out.
Matching(filter) ==
  {n \in Plays : /\ play[n] # None /\ play[n].watch > 0
                 /\ filter \in {None, keyOf(n)[2], libraryOf(keyOf(n)[3])}}

Offset == (page.number - 1) * PageSize

\* ORDER BY started_at DESC LIMIT .. OFFSET ..
Slice(matching) ==
  LET before(n) == Cardinality({m \in matching : m > n})
  IN  {n \in matching : /\ Offset <= before(n)
                        /\ before(n) < Offset + clampLimit(PageSize)}

\* useQuery, for a page of a filter: an answer that is kept is shown at once, and
\* what is not kept, or too old, is asked for.
Open(p) ==
  \/ page' = [p EXCEPT !.stage = "asked"]
  \/ \E k \in p.kept :
       /\ k.filter = p.filter /\ k.number = p.number
       /\ page' = [p EXCEPT !.stage = "shown", !.rows = k.rows, !.total = k.total,
                            !.seen = @ \cup k.rows,
                            !.old = @ \/ ~k.recent]

\* What is kept stays, but is from before.
Aged == {[k EXCEPT !.recent = FALSE] : k \in page.kept}

\* setFilters, from any page.
SetFilter_M(filter) ==
  /\ filter \in budget.filters
  /\ budget.visits > 0
  /\ budget' = [budget EXCEPT !.visits = @ - 1]
  /\ page.stage \in {"closed", "shown"}
  /\ Open([page EXCEPT !.filter = filter, !.due = Matching(filter), !.seen = {},
                       !.kept = Aged, !.old = FALSE])
  /\ UNCHANGED <<jellyfin, where, item, known, sync, steady>>
  /\ UNCHANGED <<play, rollup, pending, rebuild, marked>>

\* The screen is opened, or its filter set: the first page.
SetFilter(filter) ==
  /\ filter \in budget.filters
  /\ budget.visits > 0
  /\ budget' = [budget EXCEPT !.visits = @ - 1]
  /\ Open([NoPage EXCEPT !.filter = filter, !.due = Matching(filter), !.kept = Aged])
  /\ UNCHANGED <<jellyfin, where, item, known, sync, steady>>
  /\ UNCHANGED <<play, rollup, pending, rebuild, marked>>

\* getHistory, its first statement.
ReadRows ==
  /\ page.stage = "asked"
  /\ page' = [page EXCEPT !.stage = "fetched", !.fetched = Slice(Matching(page.filter))]
  /\ UNCHANGED <<play, rollup, pending, rebuild, marked>>

\* The page as it is shown with the rows just fetched, and kept.
Answered(total) ==
  [page EXCEPT
     !.stage = "shown", !.rows = page.fetched, !.total = total, !.fetched = {},
     !.seen = @ \cup page.fetched,
     !.kept = {k \in @ : k.filter # page.filter \/ k.number # page.number}
              \cup {[filter |-> page.filter, number |-> page.number,
                     rows |-> page.fetched, total |-> total, recent |-> TRUE]}]

\* The total is the one of the previous page.
CountRows_M ==
  /\ page.stage = "fetched"
  /\ page' = Answered(IF page.number = 1 THEN Cardinality(page.due) ELSE page.total)
  /\ UNCHANGED <<play, rollup, pending, rebuild, marked>>

\* Its second statement; the page is shown.
CountRows ==
  /\ page.stage = "fetched"
  /\ page' = Answered(Cardinality(Matching(page.filter)))
  /\ UNCHANGED <<play, rollup, pending, rebuild, marked>>

\* The bounds of "Showing X-Y of total", and whether there is a next page.
ShownFrom == Offset + 1
ShownTo == IF page.number * PageSize < page.total THEN page.number * PageSize
           ELSE page.total
hasNext == ShownTo < page.total

\* "Previous" works on the first page.
TurnPage_M(to) ==
  /\ page.stage = "shown"
  /\ page.rows # {}
  /\ \/ to = page.number + 1 /\ hasNext
     \/ to = page.number - 1
  /\ Open([page EXCEPT !.number = to])
  /\ UNCHANGED <<play, rollup, pending, rebuild, marked>>

\* "Previous" and "Next"; an empty page has neither.
TurnPage(to) ==
  /\ page.stage = "shown"
  /\ page.rows # {}
  /\ \/ to = page.number + 1 /\ hasNext
     \/ to = page.number - 1 /\ page.number > 1
  /\ Open([page EXCEPT !.number = to])
  /\ UNCHANGED <<play, rollup, pending, rebuild, marked>>

\* The page is too old, and fetched again.
Refetch ==
  /\ page.stage = "shown"
  /\ page' = [page EXCEPT !.stage = "asked"]
  /\ UNCHANGED <<play, rollup, pending, rebuild, marked>>

-----------------------------------------------------------------------------

\* The reference sync and the poll are jobs of one process.
SyncMayBegin == pending = None

Rebuilding == InsertRebuilt \/ CommitRebuild

Next ==
  \/ \E u \in Users : (CreateUser(u) \/ RemoveUser(u)) /\ UNCHANGED reporting
  \/ \E l \in Libraries : CreateLibrary(l) /\ UNCHANGED reporting
  \/ \E i \in Items, to \in SUBSET Libraries : Move(i, to) /\ UNCHANGED reporting
  \/ \E full \in BOOLEAN : SyncMayBegin /\ BeginSync(full) /\ UNCHANGED reporting
  \/ SyncStep /\ UNCHANGED reporting
  \/ SyncFails /\ UNCHANGED reporting
  \/ \E n \in Plays : (Start(n) \/ Credit(n) \/ End(n)) /\ UNCHANGED catalogue
  \/ applyRollupDelta /\ UNCHANGED catalogue
  \/ DeltaIsLost
  \/ \E range \in DateRange : BeginRebuild(range)
  \/ Rebuilding /\ UNCHANGED catalogue
  \/ RollBack
  \/ \E filter \in Filter : SetFilter(filter)
  \/ (ReadRows \/ CountRows \/ Refetch) /\ UNCHANGED catalogue
  \/ \E to \in 0 .. Cardinality(Plays) + 1 : TurnPage(to) /\ UNCHANGED catalogue

\* A step under way is taken: every request has a timeout, every statement ends,
\* and the backfill is one transaction.  The full sync gets its turn again and
\* again among the jobs (Scheduler.tla).
Fairness ==
  /\ WF_vars(SyncStep /\ UNCHANGED reporting)
  /\ WF_vars(applyRollupDelta /\ UNCHANGED catalogue)
  /\ WF_vars(Rebuilding /\ UNCHANGED catalogue)
  /\ SF_vars(SyncMayBegin /\ BeginSync(TRUE) /\ UNCHANGED reporting)

Spec == Init /\ [][Next]_vars /\ Fairness

-----------------------------------------------------------------------------
(* Properties.                                                              *)

\* The type invariant.
TypeOK ==
  /\ CatalogueTypeOK
  /\ budget \in Budget
  /\ play \in [Plays -> Row \cup {None}]
  /\ rollup \in [Key -> RollupRow \cup {None}]
  /\ pending \in Delta \cup {None}
  /\ rebuild \in RebuildState
  /\ marked \subseteq Key
  /\ page \in PageState

\* What a rollup row counts, and what the delta on its way adds to it.
PlaysSoFar(k) ==
  (IF rollup[k] = None THEN 0 ELSE rollup[k].plays)
    + (IF pending # None /\ pending.key = k THEN pending.plays ELSE 0)

WatchSoFar(k) ==
  (IF rollup[k] = None THEN 0 ELSE rollup[k].watch)
    + (IF pending # None /\ pending.key = k THEN pending.watch ELSE 0)

\* Every rollup row counts the plays and the watch time of its sessions, but for
\* the delta on its way, unless a delta of that row was lost, or was on its way
\* while a backfill counted its session -- and a backfill of its day puts the
\* first right (recomputeRollupRange, applyRollupDelta, runBackfill).
DriftIsExplained ==
  \A k \in Key \ marked :
    /\ PlaysSoFar(k) = Cardinality(EndedOf(k))
    /\ WatchSoFar(k) = WatchOf(k)

\* A rollup row, once it has a library, never goes without one again, and the
\* items row that gave it is never deleted: neither a sync that archives the
\* item nor a backfill takes a play from its library (archiveMissingItems,
\* recomputeRollupRange, applyRollupDelta).
AttributionIsKept ==
  [][/\ \A k \in Key : rollup[k] # None /\ rollup[k].library # None
                         => rollup'[k] # None /\ rollup'[k].library # None
     /\ \A i \in Items : item[i] # None => item'[i] # None]_vars

Sum(stats) ==
  [plays |-> SumFunction([x \in DOMAIN stats |-> stats[x].plays]),
   watch |-> SumFunction([x \in DOMAIN stats |-> stats[x].watch])]

\* The range the screens ask for after two days were picked.
Picked(query) == parseRange(clampRangeDays(query))

\* The figures of the dashboards agree with each other, for every range the
\* picker can produce and the API then never refuses: the series sums to the
\* overview; the users to what the overview counts of users in the table, no more
\* and no less, and the libraries to what it counts of libraries in the table; the
\* top items to the overview when every row has its item and the list has room for
\* all, and a library's list to the library; nothing is longer watched than the
\* first of a list; and, while nothing has drifted, the overview counts every
\* session that is over, and a user's devices add up to the user's plays.  So what
\* a user who is not in the table has played is in the overview, and is all that
\* the list of users lacks (stats.ts, range.ts).
AgreeOn(range) ==
  LET rows == InRange(range)
      overview == getOverview(range).totals
      users == getUserStats(range)
      libraries == getLibraryStats(range)
      top == getTopItems(range, None, MaxLimit)
      first == getTopItems(range, None, 1)
      itemsListed == /\ \A k \in rows : item[k[3]] # None
                     /\ Cardinality({k[3] : k \in rows}) <= MaxLimit
      exact == pending = None /\ \A k \in marked : k[1] \notin range.from .. range.to
  IN  /\ range # Invalid
      /\ Sum(getWatchTimeSeries(range)) = overview
      /\ Sum(users) = Totals({k \in rows : k[2] \in known.users})
      /\ getOverview(range).activeUsers \subseteq known.users => Sum(users) = overview
      /\ Sum(libraries) = Totals({k \in rows : rollup[k].library \in known.libraries})
      /\ itemsListed => /\ Sum(top) = overview
                        /\ \A l \in DOMAIN libraries :
                             Sum(getTopItems(range, l, MaxLimit)) = libraries[l]
      /\ \A i \in DOMAIN first, j \in DOMAIN top : top[j].watch <= first[i].watch
      /\ exact => /\ overview.plays = Cardinality(EndedIn(Users, range))
                  /\ \A u \in DOMAIN users :
                       devicePlays(u, range) = users[u].plays

\* They do so for every range that can be picked.
FiguresAgree == \A range \in {Picked(query) : query \in DateRange} : AgreeOn(range)

\* The history screen and the requests of a sync change nothing of what they read, so
\* it is enough to compare them while the one is closed and once the others are answered.
StatsAgree ==
  page.stage = "closed" /\ sync.stage \notin {"asking", "folders", "items"} => FiguresAgree

\* A sync that moves an item takes its plays out of one library's history, and
\* the pages behind them move up: nothing below is claimed of that.
ItemsStayPut == page.filter \notin Libraries \/ budget.syncs = {}

\* A visitor who pages on until there is no next page has been shown every play
\* that matched when the filter was set, whatever was played meanwhile and
\* whichever way they paged, unless a page was kept from an earlier visit
\* (getHistory, HistoryRoute, PlaybackHistoryTable).
NothingIsSkipped ==
  page.stage = "shown" /\ ItemsStayPut /\ ~page.old /\ page.rows # {} /\ ~hasNext
    => page.due \subseteq page.seen

\* "Showing X-Y of total" counts the rows above it: the total is never behind
\* the rows it is shown with (getHistory's two statements).
TotalCoversPage ==
  page.stage = "shown" /\ ItemsStayPut /\ page.rows # {}
    => Cardinality(page.rows) <= ShownTo - ShownFrom + 1
=============================================================================
