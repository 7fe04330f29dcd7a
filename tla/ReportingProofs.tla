--------------------------- MODULE ReportingProofs ---------------------------
(***************************************************************************)
(* What the dashboards can rely on, for any number of users, items, plays, *)
(* days and libraries, any chunk and page size, and any interleaving of    *)
(* the polls, the reference sync, the backfill, the faults and the history *)
(* screen.                                                                 *)
(*                                                                         *)
(* The invariants rest on each other: what a sync has gathered (SyncInv),  *)
(* the types (TypeInv), which rows a backfill holds and that none is       *)
(* without a session (RebuildShape, RowsHavePlays), where a row has its    *)
(* library from (AttrInv), what a row counts (DriftInv), and what has been *)
(* shown of the history (TotalInv, SkipInv).  That the figures agree needs *)
(* no invariant of its own: it is about sums over one state of the tables. *)
(***************************************************************************)
EXTENDS Reporting, FiniteSums, TLAPS

-----------------------------------------------------------------------------
(* The reference sync.                                                      *)

\* Items are in libraries Jellyfin has.  The libraries are heard in one stage only;
\* those that are asked hold every item that has not moved since the enumeration
\* began, and so does what has been heard, and then collected.
SyncInv ==
  /\ jellyfin \in Reference
  /\ where \in [Items -> SUBSET Libraries]
  /\ \A i \in Items : where[i] \subseteq jellyfin.libraries
  /\ sync \in SyncState
  /\ steady \subseteq InJellyfin
  /\ sync.stage # "items" => sync.heard = Unheard
  /\ sync.stage = "items" => \A i \in steady : where[i] \subseteq sync.folders
  /\ \A l \in Libraries, i \in steady :
       sync.heard[l] # None /\ l \in where[i] => i \in sync.heard[l]
  /\ sync.stage = "writing" => steady \subseteq sync.present

\* No sync is under way.
LEMMA NoSyncType ==
  /\ NoSync \in SyncState
  /\ NoSync.stage = "idle"
  /\ NoSync.heard = Unheard
  <1>1. NoReference \in Reference
    BY DEF NoReference, Reference
  <1> QED BY <1>1 DEF NoSync, SyncState, Stages, Unheard

\* A sync that ends, however it ends, leaves nothing to be relied on.
LEMMA SyncEnds ==
  ASSUME SyncInv, sync' = NoSync, jellyfin' = jellyfin, where' = where,
         steady' = steady
  PROVE  SyncInv'
  BY NoSyncType DEF SyncInv, InJellyfin, Unheard

\* A sync that goes on to another stage before any library is asked.
LEMMA SyncGoesOn ==
  ASSUME SyncInv, sync' \in SyncState, sync'.heard = Unheard,
         sync'.stage \notin {"items", "writing"},
         jellyfin' = jellyfin, where' = where, steady' = steady
  PROVE  SyncInv'
  BY DEF SyncInv, InJellyfin, Unheard

\* Before the first sync.
LEMMA SyncInit == Init => SyncInv
  <1> SUFFICES ASSUME Init PROVE SyncInv
    OBVIOUS
  <1>1. jellyfin \in Reference /\ where \in [Items -> SUBSET jellyfin.libraries]
    BY CatalogueAssumption DEF Init, CatalogueInit
  <1>2. where \in [Items -> SUBSET Libraries]
    BY <1>1 DEF Reference
  <1> QED BY <1>1, <1>2, NoSyncType DEF Init, CatalogueInit, SyncInv

\* Every step keeps what the enumeration has gathered.
LEMMA SyncStepKeeps == SyncInv /\ [Next]_vars => SyncInv'
  <1> SUFFICES ASSUME SyncInv, [Next]_vars PROVE SyncInv'
    OBVIOUS
  <1>0. /\ Unheard \in [Libraries -> (SUBSET Items) \cup {None}]
        /\ \A l \in Libraries : Unheard[l] = None
    BY DEF Unheard
  <1>1. ASSUME NEW i \in Items, NEW to \in SUBSET Libraries, Move(i, to)
        PROVE  SyncInv'
    <2>1. /\ where' = [where EXCEPT ![i] = to]
          /\ to \subseteq jellyfin.libraries
          /\ steady' = steady \ {i}
          /\ UNCHANGED <<jellyfin, sync>>
      BY <1>1 DEF Move
    <2> QED
      BY <2>1 DEF SyncInv, InJellyfin
  <1>2. ASSUME NEW full \in BOOLEAN, BeginSync(full) PROVE SyncInv'
    <2>1. sync' \in SyncState /\ sync'.heard = Unheard /\ sync'.stage = "asking"
      BY <1>2, NoSyncType DEF BeginSync, SyncState, Stages
    <2> QED
      BY <1>2, <2>1, SyncGoesOn DEF BeginSync
  <1>3. CASE HearReference \/ upsertUsers
    <2>1. sync \in SyncState /\ jellyfin \in Reference /\ sync.heard = Unheard
      BY <1>3 DEF SyncInv, HearReference, upsertUsers
    <2>2. sync' \in SyncState /\ sync'.heard = Unheard /\ sync'.stage \in {"users", "libraries"}
      BY <1>3, <2>1 DEF HearReference, upsertUsers, SyncState, Stages
    <2> QED
      BY <1>3, <2>2, SyncGoesOn DEF HearReference, upsertUsers
  <1>4. CASE upsertLibraries
    <2>1. sync \in SyncState /\ sync.heard = Unheard
      BY <1>4 DEF SyncInv, upsertLibraries
    <2>2. NoReference \in Reference
      BY DEF NoReference, Reference
    <2>3. /\ sync' \in SyncState /\ sync'.heard = Unheard
          /\ sync'.stage \in {"idle", "folders"}
      BY <1>4, <2>1, <2>2, NoSyncType DEF upsertLibraries, SyncState, Stages
    <2> QED
      BY <1>4, <2>3, SyncGoesOn DEF upsertLibraries
  <1>5. CASE HearFolders
    <2>1. /\ sync \in SyncState /\ sync.heard = Unheard
          /\ jellyfin \in Reference
          /\ UNCHANGED <<jellyfin, where>> /\ steady' = InJellyfin
      BY <1>5 DEF SyncInv, HearFolders
    <2>2. /\ sync' \in SyncState /\ sync'.heard = Unheard
          /\ sync'.stage = "items" /\ sync'.folders = jellyfin.libraries
      BY <1>5, <2>1 DEF HearFolders, SyncState, Stages, Reference
    <2> QED
      BY <1>0, <2>1, <2>2 DEF SyncInv, InJellyfin
  <1>6. ASSUME NEW l \in Libraries, HearLibrary(l) PROVE SyncInv'
    <2> DEFINE found == {i \in Items : l \in where[i]}
    <2>1. /\ sync \in SyncState /\ sync.stage = "items"
          /\ UNCHANGED <<jellyfin, where, steady>>
      BY <1>6 DEF HearLibrary, SyncInv
    <2>2. /\ sync' \in SyncState
          /\ sync'.stage = "items"
          /\ sync'.folders = sync.folders
          /\ sync'.heard = [sync.heard EXCEPT ![l] = found]
      BY <1>6, <2>1 DEF HearLibrary, SyncState
    <2>3. \A i \in steady : i \in Items
      BY DEF SyncInv, InJellyfin
    <2>4. sync.heard \in [Libraries -> (SUBSET Items) \cup {None}]
      BY <2>1 DEF SyncState
    <2>5. \A m \in Libraries, i \in steady' :
            sync'.heard[m] # None /\ m \in where'[i] => i \in sync'.heard[m]
      BY <2>1, <2>2, <2>3, <2>4 DEF SyncInv
    <2> QED
      BY <2>1, <2>2, <2>5 DEF SyncInv, InJellyfin
  <1>7. CASE CollectItems
    <2> DEFINE listed == {x \in Listed : /\ x[2] \in sync.folders
                                         /\ x[1] \in sync.heard[x[2]]}
    <2>1. /\ sync \in SyncState
          /\ sync.stage = "items"
          /\ \A l \in sync.folders : sync.heard[l] # None
          /\ UNCHANGED <<jellyfin, where, steady>>
      BY <1>7 DEF CollectItems, SyncInv
    <2>2. sync' = [sync EXCEPT !.stage = "writing", !.folders = {}, !.heard = Unheard,
                               !.rest = listed, !.present = {x[1] : x \in listed}]
      BY <1>7 DEF CollectItems
    <2>3. listed \subseteq Listed /\ {x[1] : x \in listed} \subseteq Items
      BY DEF Listed
    <2>4. steady \subseteq {x[1] : x \in listed}
      <3> SUFFICES ASSUME NEW i \in steady PROVE i \in {x[1] : x \in listed}
        OBVIOUS
      <3>1. i \in Items /\ \E l \in Libraries : l \in where[i]
        BY DEF SyncInv, InJellyfin
      <3>2. PICK l \in Libraries : l \in where[i] /\ l \in sync.folders
        BY <2>1, <3>1 DEF SyncInv
      <3>3. i \in sync.heard[l]
        BY <2>1, <3>2 DEF SyncInv
      <3>4. <<i, l>> \in listed
        BY <3>1, <3>2, <3>3 DEF Listed
      <3> QED
        BY <3>4
    <2> HIDE DEF listed
    <2>5. /\ sync' \in SyncState
          /\ sync'.stage = "writing"
          /\ sync'.heard = Unheard
          /\ sync'.present = {x[1] : x \in listed}
      BY <1>0, <2>1, <2>2, <2>3 DEF SyncState, Stages
    <2> QED
      BY <1>0, <2>1, <2>4, <2>5 DEF SyncInv, InJellyfin
  <1>8. ASSUME NEW C \in SUBSET Listed, WriteChunk(C) PROVE SyncInv'
    <2>1. UNCHANGED <<jellyfin, where, steady>> /\ sync \in SyncState
      BY <1>8 DEF WriteChunk, SyncInv
    <2>2. CASE sync' = NoSync
      BY <2>1, <2>2, SyncEnds
    <2>3. CASE sync' = [sync EXCEPT !.rest = @ \ C]
      <3>1. /\ sync' \in SyncState
            /\ sync'.stage = sync.stage
            /\ sync'.heard = sync.heard
            /\ sync'.folders = sync.folders
            /\ sync'.present = sync.present
        BY <2>1, <2>3 DEF SyncState
      <3> QED
        BY <2>1, <3>1 DEF SyncInv, InJellyfin
    <2> QED
      BY <1>8, <2>2, <2>3 DEF WriteChunk
  <1>9. CASE archiveMissingItems \/ SyncFails
    BY <1>9, SyncEnds DEF archiveMissingItems, SyncFails
  <1>10. CASE UNCHANGED <<jellyfin, where, sync, steady>>
    BY <1>10 DEF SyncInv, InJellyfin
  <1>11. ASSUME NEW there \in Reference, jellyfin.libraries \subseteq there.libraries,
                Change(there)
         PROVE  SyncInv'
    BY <1>11 DEF Change, SyncInv, InJellyfin
  <1>12. ASSUME NEW u \in Users, CreateUser(u) \/ RemoveUser(u) PROVE SyncInv'
    <2>1. jellyfin \in Reference
      BY DEF SyncInv
    <2>2. /\ [jellyfin EXCEPT !.users = @ \cup {u}] \in Reference
          /\ [jellyfin EXCEPT !.users = @ \ {u}] \in Reference
          /\ [jellyfin EXCEPT !.users = @ \cup {u}].libraries = jellyfin.libraries
          /\ [jellyfin EXCEPT !.users = @ \ {u}].libraries = jellyfin.libraries
      BY <2>1 DEF Reference
    <2> QED
      BY <1>11, <1>12, <2>2 DEF CreateUser, RemoveUser
  <1>13. ASSUME NEW l \in Libraries, CreateLibrary(l) PROVE SyncInv'
    <2>1. jellyfin \in Reference
      BY DEF SyncInv
    <2>2. /\ [jellyfin EXCEPT !.libraries = @ \cup {l}] \in Reference
          /\ jellyfin.libraries \subseteq [jellyfin EXCEPT !.libraries = @ \cup {l}].libraries
      BY <2>1 DEF Reference
    <2> QED
      BY <1>11, <1>13, <2>2 DEF CreateLibrary
  <1>14. CASE \/ \E range \in DateRange : BeginRebuild(range)
              \/ DeltaIsLost \/ RollBack
              \/ \E filter \in Filter : SetFilter(filter)
              \/ UNCHANGED catalogue
    BY <1>10, <1>14 DEF BeginRebuild, DeltaIsLost, RollBack, SetFilter, catalogue
  <1> QED
    BY <1>1, <1>2, <1>3, <1>4, <1>5, <1>6, <1>7, <1>8, <1>9, <1>12, <1>13, <1>14
       DEF Next, SyncStep, vars

\* Two statements write the items table.
LEMMA ItemWrites ==
  ASSUME [Next]_vars
  PROVE  \/ item' = item
         \/ \E C \in SUBSET Listed : WriteChunk(C)
         \/ archiveMissingItems
  BY DEF Next, SyncStep, vars, catalogue, Change, CreateUser, RemoveUser, CreateLibrary,
         Move, BeginSync, HearReference, upsertUsers, upsertLibraries, HearFolders,
         HearLibrary, CollectItems, SyncFails, BeginRebuild, DeltaIsLost, RollBack, SetFilter

\* Only the last statement of a full sync archives, and it archives no item that
\* has been in place since the enumeration began.
LEMMA OnlyMissingAreArchived ==
  SyncInv /\ [Next]_vars =>
    \A i \in Items : ~Archived(i) /\ (item'[i] # None /\ item'[i].archived)
                       => i \notin steady
  <1> SUFFICES ASSUME SyncInv, [Next]_vars, NEW i \in Items,
                      ~Archived(i), item'[i] # None, item'[i].archived
               PROVE  i \notin steady
    OBVIOUS
  <1>1. CASE item' = item
    BY <1>1 DEF Archived
  <1>2. ASSUME NEW C \in SUBSET Listed, WriteChunk(C) PROVE FALSE
    <2>1. item'[i] = item[i] \/ item'[i].archived = FALSE
      BY <1>2 DEF WriteChunk
    <2> QED
      BY <2>1 DEF Archived
  <1>3. CASE archiveMissingItems
    <2>1. item'[i] = item[i] \/ i \notin sync.present
      BY <1>3 DEF archiveMissingItems
    <2>2. i \notin sync.present
      BY <2>1 DEF Archived
    <2> QED
      BY <1>3, <2>2 DEF archiveMissingItems, SyncInv
  <1> QED
    BY <1>1, <1>2, <1>3, ItemWrites

\* No failed or half-done sync, and none that overlaps a change of the content,
\* archives an item that has been in place all along (client.ts getItems,
\* reference.ts archiveMissingItems).
THEOREM ArchivingIsJustified == Spec => ArchivedWasMissing
  <1>1. SyncInv /\ [Next]_vars =>
          [\A i \in Items : ~Archived(i) /\ (item'[i] # None /\ item'[i].archived)
                              => i \notin steady]_catalogue
    BY OnlyMissingAreArchived
  <1> QED
    BY <1>1, SyncInit, SyncStepKeeps, PTL DEF Spec, ArchivedWasMissing

-----------------------------------------------------------------------------
(* The sessions of a rollup row, and their watch time.                      *)

\* The plays of a budget, and the days, users and items they are of.
LEMMA ScriptType ==
  ASSUME budget \in Budget
  PROVE  /\ IsFiniteSet(Plays)
         /\ Plays \subseteq Nat
         /\ Plays = 1 .. Len(budget.script)
         /\ \A n \in Plays : /\ keyOf(n) \in Key
                             /\ keyOf(n)[1] \in Days /\ keyOf(n)[2] \in Users
                             /\ keyOf(n)[3] \in Items
  <1>1. budget.script \in Seq([day : Days, user : Users, item : Items])
    BY DEF Budget
  <1>2. Plays = 1 .. Len(budget.script) /\ Len(budget.script) \in Nat
    BY <1>1 DEF Plays
  <1>3. IsFiniteSet(1 .. Len(budget.script))
    BY <1>2, FS_Interval
  <1>4. \A n \in Plays : budget.script[n] \in [day : Days, user : Users, item : Items]
    <2> DEFINE script == budget.script
               Play == [day : Days, user : Users, item : Items]
    <2>1. script \in Seq(Play)
      BY <1>1
    <2> HIDE DEF script, Play
    <2>2. \A n \in 1 .. Len(script) : script[n] \in Play
      BY <2>1
    <2> QED BY <1>2, <2>2 DEF script, Play
  <1> QED BY <1>2, <1>3, <1>4 DEF keyOf, Key

\* A rollup row has finitely many sessions, and WatchOf sums their watch time.
LEMMA WatchIsSum ==
  ASSUME budget \in Budget, play \in [Plays -> Row \cup {None}], NEW k
  PROVE  /\ IsFiniteSet(PlaysOf(k))
         /\ WatchOf(k) = SumFunctionOnSet([n \in PlaysOf(k) |-> play[n].watch], PlaysOf(k))
         /\ \A n \in PlaysOf(k) : play[n] \in Row /\ play[n].watch \in 0 .. 1
         /\ WatchOf(k) \in Nat
         /\ IsFiniteSet(EndedOf(k))
         /\ Cardinality(EndedOf(k)) \in Nat
  <1>1. IsFiniteSet(PlaysOf(k))
    <2>1. PlaysOf(k) \in SUBSET Plays
      BY DEF PlaysOf
    <2> QED BY <2>1, ScriptType, FS_Subset
  <1>2. WatchOf(k) = SumFunctionOnSet([n \in PlaysOf(k) |-> play[n].watch], PlaysOf(k))
    <2> DEFINE f == [n \in PlaysOf(k) |-> play[n].watch]
    <2>1. WatchOf(k) = SumFunction(f) /\ DOMAIN f = PlaysOf(k)
      BY DEF WatchOf
    <2> HIDE DEF f
    <2>2. WatchOf(k) = SumFunctionOnSet(f, PlaysOf(k))
      BY <2>1 DEF SumFunction
    <2> QED BY <2>2 DEF f
  <1>3. \A n \in PlaysOf(k) : play[n] \in Row /\ play[n].watch \in 0 .. 1
    BY DEF PlaysOf, Row
  <1>4. WatchOf(k) \in Nat
    <2> DEFINE f == [n \in PlaysOf(k) |-> play[n].watch]
    <2>1. \A n \in PlaysOf(k) : f[n] \in Nat
      BY <1>3
    <2> HIDE DEF f
    <2>2. SumFunctionOnSet(f, PlaysOf(k)) \in Nat
      BY <1>1, <2>1, SumType
    <2> QED BY <1>2, <2>2 DEF f
  <1>5. IsFiniteSet(EndedOf(k)) /\ Cardinality(EndedOf(k)) \in Nat
    <2>1. EndedOf(k) \in SUBSET PlaysOf(k)
      BY DEF EndedOf
    <2> QED BY <1>1, <2>1, FS_Subset, FS_CardinalityType
  <1> QED BY <1>1, <1>2, <1>3, <1>4, <1>5

-----------------------------------------------------------------------------
(* Types.                                                                   *)

\* The sync gathers nothing but items, which the types alone do not keep.
TypeInv == TypeOK /\ SyncInv

\* What a backfill counts is a rollup row.
LEMMA CountedType ==
  ASSUME TypeOK, NEW k \in Key
  PROVE  Counted(k) \in RollupRow
  <1>1. Cardinality(EndedOf(k)) \in Nat /\ WatchOf(k) \in Nat
    BY WatchIsSum DEF TypeOK
  <1>2. libraryOf(k[3]) \in Libraries \cup {None}
    BY DEF libraryOf, Key, TypeOK, CatalogueTypeOK, ItemRow
  <1> QED BY <1>1, <1>2 DEF Counted, RollupRow

\* The plays of a filter are finitely many.
LEMMA MatchingType ==
  ASSUME TypeOK, NEW filter
  PROVE  /\ Matching(filter) \subseteq Plays
         /\ IsFiniteSet(Matching(filter))
         /\ Cardinality(Matching(filter)) \in Nat
  <1>1. Matching(filter) \in SUBSET Plays
    BY DEF Matching
  <1> QED BY <1>1, ScriptType, FS_Subset, FS_CardinalityType DEF TypeOK

\* What is spent is spent of what there is, and the rest stays.
LEMMA BudgetStep ==
  ASSUME budget \in Budget,
         \/ budget' = budget
         \/ budget.changes > 0 /\ budget' = [budget EXCEPT !.changes = @ - 1]
         \/ budget.moves > 0 /\ budget' = [budget EXCEPT !.moves = @ - 1]
         \/ budget.faults > 0 /\ budget' = [budget EXCEPT !.faults = @ - 1]
         \/ budget.visits > 0 /\ budget' = [budget EXCEPT !.visits = @ - 1]
         \/ \E range : budget' = [budget EXCEPT !.backfills = @ \ {range}]
  PROVE  /\ budget' \in Budget
         /\ budget'.script = budget.script
         /\ budget'.syncs = budget.syncs
         /\ budget'.filters = budget.filters
         /\ Plays' = Plays
         /\ KeptAnswer' = KeptAnswer
         /\ PageState' = PageState
  <1>1. budget' \in Budget /\ budget'.script = budget.script /\ budget'.syncs = budget.syncs
        /\ budget'.filters = budget.filters
    BY DEF Budget
  <1> QED BY <1>1 DEF Plays, KeptAnswer, PageState

\* The users and the libraries tables get what Jellyfin told of.
LEMMA KnownStep ==
  ASSUME CatalogueTypeOK, [Next]_vars
  PROVE  known' \in Reference
  <1>1. known \in Reference /\ sync.told \in Reference
    BY DEF CatalogueTypeOK, SyncState
  <1>2. CASE known' = known
    BY <1>1, <1>2
  <1>3. CASE upsertUsers \/ upsertLibraries
    BY <1>1, <1>3 DEF upsertUsers, upsertLibraries, Reference
  <1> QED
    BY <1>2, <1>3 DEF Next, SyncStep, vars, catalogue, Change, CreateUser, RemoveUser,
       CreateLibrary, Move, BeginSync, HearReference, HearFolders, HearLibrary, CollectItems,
       WriteChunk, archiveMissingItems, SyncFails, BeginRebuild, DeltaIsLost, RollBack,
       SetFilter

\* The catalogue's tables.
LEMMA ItemStep ==
  ASSUME CatalogueTypeOK, SyncInv, [Next]_vars
  PROVE  CatalogueTypeOK'
  <1>1. SyncInv' /\ known' \in Reference
    BY SyncStepKeeps, KnownStep
  <1>2. item \in [Items -> ItemRow \cup {None}]
    BY DEF CatalogueTypeOK
  <1>3. ASSUME NEW C \in SUBSET Listed, WriteChunk(C)
        PROVE  item' \in [Items -> ItemRow \cup {None}]
    <2>1. ASSUME NEW i \in Items, \E x \in C : x[1] = i
          PROVE  [library |-> (CHOOSE x \in C : x[1] = i)[2], archived |-> FALSE] \in ItemRow
      BY <2>1 DEF Listed, ItemRow
    <2> QED BY <1>2, <1>3, <2>1 DEF WriteChunk
  <1>4. ASSUME archiveMissingItems
        PROVE  item' \in [Items -> ItemRow \cup {None}]
    <2>1. ASSUME NEW i \in Items, item[i] # None
          PROVE  [item[i] EXCEPT !.archived = TRUE] \in ItemRow
      BY <1>2, <2>1 DEF ItemRow
    <2> QED BY <1>2, <1>4, <2>1 DEF archiveMissingItems
  <1>5. item' \in [Items -> ItemRow \cup {None}]
    BY <1>2, <1>3, <1>4, ItemWrites
  <1> QED
    BY <1>1, <1>5 DEF CatalogueTypeOK, SyncInv, InJellyfin

\* What the budget of a step is: its own, or with one thing less in it.
LEMMA Spending ==
  ASSUME budget \in Budget, [Next]_vars
  PROVE  \/ budget' = budget
         \/ budget.changes > 0 /\ budget' = [budget EXCEPT !.changes = @ - 1]
         \/ budget.moves > 0 /\ budget' = [budget EXCEPT !.moves = @ - 1]
         \/ budget.faults > 0 /\ budget' = [budget EXCEPT !.faults = @ - 1]
         \/ budget.visits > 0 /\ budget' = [budget EXCEPT !.visits = @ - 1]
         \/ \E range : budget' = [budget EXCEPT !.backfills = @ \ {range}]
  BY DEF Next, SyncStep, vars, catalogue, Change, CreateUser, RemoveUser, CreateLibrary,
         Move, BeginSync, HearReference, upsertUsers, upsertLibraries, HearFolders,
         HearLibrary, CollectItems, WriteChunk, archiveMissingItems, SyncFails, BeginRebuild, DeltaIsLost, RollBack, SetFilter

\* A page that opens.
LEMMA OpenType ==
  ASSUME NEW p \in PageState, Open(p)
  PROVE  page' \in PageState
  <1>1. CASE page' = [p EXCEPT !.stage = "asked"]
    BY <1>1 DEF PageState
  <1>2. ASSUME NEW k \in p.kept,
               page' = [p EXCEPT !.stage = "shown", !.rows = k.rows, !.total = k.total,
                                 !.seen = @ \cup k.rows, !.old = @ \/ ~k.recent]
        PROVE  page' \in PageState
    <2>1. k \in KeptAnswer
      BY DEF PageState
    <2>2. k.rows \in SUBSET Plays /\ k.total \in Nat /\ (p.old \/ ~k.recent) \in BOOLEAN
      BY <2>1 DEF KeptAnswer
    <2>3. p.seen \cup k.rows \in SUBSET Plays
      BY <2>2 DEF PageState
    <2> QED BY <1>2, <2>2, <2>3 DEF PageState
  <1> QED BY <1>1, <1>2 DEF Open

\* The page before it is opened.
LEMMA NoPageType == NoPage \in PageState
  BY DEF NoPage, PageState, Filter

\* Answers that are from before are answers.
LEMMA AgedType == page \in PageState => Aged \in SUBSET KeptAnswer
  <1> SUFFICES ASSUME page \in PageState, NEW k \in page.kept
               PROVE  [k EXCEPT !.recent = FALSE] \in KeptAnswer
    BY DEF Aged
  <1>1. k \in KeptAnswer
    BY DEF PageState
  <1> QED BY <1>1 DEF KeptAnswer

\* A page whose count has come.
LEMMA AnsweredType ==
  ASSUME page \in PageState, NEW total \in Nat
  PROVE  Answered(total) \in PageState
  <1> DEFINE k == [filter |-> page.filter, number |-> page.number,
                   rows |-> page.fetched, total |-> total, recent |-> TRUE]
  <1>1. k \in KeptAnswer
    BY DEF PageState, KeptAnswer
  <1> HIDE DEF k
  <1>2. {j \in page.kept : j.filter # page.filter \/ j.number # page.number} \cup {k}
          \in SUBSET KeptAnswer
    BY <1>1 DEF PageState
  <1> HIDE <1>1
  <1> QED BY <1>2 DEF Answered, PageState, k

\* The rows of a page are plays.
LEMMA SliceType ==
  ASSUME TypeOK, NEW filter
  PROVE  Slice(Matching(filter)) \in SUBSET Plays
  BY MatchingType DEF Slice

\* The page.
LEMMA PageTypeStep ==
  ASSUME TypeOK, [Next]_vars
  PROVE  page' \in PageState
  <1>0. page \in PageState
    BY DEF TypeOK
  <1>1. ASSUME NEW filter \in Filter, SetFilter(filter) PROVE page' \in PageState
    <2> DEFINE p == [NoPage EXCEPT !.filter = filter, !.due = Matching(filter), !.kept = Aged]
    <2>1. Matching(filter) \in SUBSET Plays /\ Aged \in SUBSET KeptAnswer
      BY <1>0, MatchingType, AgedType
    <2>2. p \in PageState
      BY <2>1, NoPageType DEF PageState
    <2> HIDE DEF p
    <2>3. Open(p)
      BY <1>1 DEF SetFilter, p
    <2> QED BY <2>2, <2>3, OpenType
  <1>2. CASE ReadRows
    <2>1. Slice(Matching(page.filter)) \in SUBSET Plays
      BY SliceType
    <2> QED BY <1>0, <1>2, <2>1 DEF ReadRows, PageState
  <1>3. CASE CountRows
    BY <1>0, <1>3, MatchingType, AnsweredType DEF CountRows
  <1>4. CASE Refetch
    BY <1>0, <1>4 DEF Refetch, PageState
  <1>5. ASSUME NEW to \in 0 .. Cardinality(Plays) + 1, TurnPage(to) PROVE page' \in PageState
    <2>1. page.number \in Nat \ {0}
      BY <1>0 DEF PageState
    <2>2. to \in Nat \ {0}
      BY <1>5, <2>1 DEF TurnPage
    <2>3. [page EXCEPT !.number = to] \in PageState
      BY <1>0, <2>2 DEF PageState
    <2>4. Open([page EXCEPT !.number = to])
      BY <1>5 DEF TurnPage
    <2> QED BY <2>3, <2>4, OpenType
  <1>6. CASE page' = page
    BY <1>0, <1>6
  <1> QED
    BY <1>1, <1>2, <1>3, <1>4, <1>5, <1>6
       DEF Next, vars, reporting, Start, Credit, End, applyRollupDelta, DeltaIsLost,
           BeginRebuild, Rebuilding, InsertRebuilt, CommitRebuild, RollBack

\* The sessions and the delta on its way.
LEMMA PlayTypeStep ==
  ASSUME TypeOK, [Next]_vars
  PROVE  play' \in [Plays -> Row \cup {None}] /\ pending' \in Delta \cup {None}
  <1>0. play \in [Plays -> Row \cup {None}] /\ pending \in Delta \cup {None}
    BY DEF TypeOK
  <1>1. \A n \in Plays : keyOf(n) \in Key
    BY ScriptType DEF TypeOK
  <1>2. ASSUME NEW n \in Plays, Start(n) \/ Credit(n) \/ End(n)
        PROVE  play' \in [Plays -> Row \cup {None}] /\ pending' \in Delta \cup {None}
    <2>1. CASE Start(n)
      BY <1>0, <2>1 DEF Start, Row
    <2>2. CASE Credit(n)
      BY <1>0, <1>1, <2>2 DEF Credit, Row, Delta
    <2>3. CASE End(n)
      <3>1. PICK w \in 0 .. 1 - play[n].watch :
              /\ play' = [play EXCEPT ![n] = [watch |-> play[n].watch + w, ended |-> TRUE]]
              /\ pending' = [key |-> keyOf(n), plays |-> 1, watch |-> w]
        BY <2>3 DEF End
      <3>2. play[n].watch \in 0 .. 1
        BY <1>0, <2>3 DEF End, Row
      <3>3. play[n].watch + w \in 0 .. 1 /\ w \in 0 .. 1
        BY <3>2
      <3> QED BY <1>0, <1>1, <3>1, <3>3 DEF Row, Delta
    <2> QED BY <1>2, <2>1, <2>2, <2>3
  <1> QED
    BY <1>0, <1>2
       DEF Next, vars, reporting, applyRollupDelta, DeltaIsLost, SetFilter, ReadRows, CountRows,
           Refetch, TurnPage, BeginRebuild, Rebuilding, InsertRebuilt, CommitRebuild, RollBack

\* The rollup, its marks and the backfill.
LEMMA RollupTypeStep ==
  ASSUME TypeOK, [Next]_vars
  PROVE  /\ rollup' \in [Key -> RollupRow \cup {None}]
         /\ marked' \subseteq Key
         /\ rebuild' \in RebuildState
  <1>0. /\ rollup \in [Key -> RollupRow \cup {None}] /\ marked \subseteq Key
        /\ rebuild \in RebuildState /\ pending \in Delta \cup {None}
    BY DEF TypeOK
  <1>1. NoRebuild \in RebuildState
    BY DEF NoRebuild, RebuildState
  <1>2. CASE applyRollupDelta
    <2> DEFINE k == pending.key
    <2>1. pending \in Delta
      BY <1>0, <1>2 DEF applyRollupDelta
    <2>2. k \in Key /\ pending.plays \in Nat /\ pending.watch \in Nat
      BY <2>1 DEF Delta
    <2>3. libraryOf(k[3]) \in Libraries \cup {None}
      BY <2>2 DEF libraryOf, Key, TypeOK, CatalogueTypeOK, ItemRow
    <2>4. PICK row : /\ rollup' = [rollup EXCEPT ![k] = row]
                     /\ row = IF rollup[k] = None
                                THEN [plays |-> pending.plays, watch |-> pending.watch,
                                      library |-> libraryOf(k[3])]
                              ELSE [plays |-> rollup[k].plays + pending.plays,
                                    watch |-> rollup[k].watch + pending.watch,
                                    library |-> coalesce(libraryOf(k[3]), rollup[k].library)]
      BY <1>2 DEF applyRollupDelta
    <2>5. row \in RollupRow
      BY <1>0, <2>2, <2>3, <2>4 DEF RollupRow, coalesce
    <2>6. rebuild' = rebuild /\ marked' = marked
      BY <1>2 DEF applyRollupDelta
    <2> QED BY <1>0, <2>2, <2>4, <2>5, <2>6
  <1>3. CASE DeltaIsLost
    <2>1. pending.key \in Key
      BY <1>0, <1>3 DEF DeltaIsLost, Delta
    <2>2. rollup' = rollup /\ marked' = marked \cup {pending.key}
          /\ rebuild' \in {rebuild, [rebuild EXCEPT !.dirty = @ \cup {pending.key}]}
      BY <1>3 DEF DeltaIsLost
    <2> QED BY <1>0, <2>1, <2>2 DEF RebuildState
  <1>4. ASSUME NEW range \in DateRange, BeginRebuild(range)
        PROVE  rebuild' \in RebuildState /\ UNCHANGED <<rollup, marked>>
    BY <1>1, <1>4 DEF BeginRebuild, RebuildState
  <1>5. CASE InsertRebuilt
    <2>1. \A k \in Key : Counted(k) \in RollupRow
      BY CountedType
    <2> DEFINE made == [k \in Key |-> IF k \in Rebuilt /\ PlaysOf(k) # {} THEN Counted(k)
                                      ELSE None]
               dirty == IF pending = None THEN {} ELSE {pending.key} \cap Rebuilt
    <2>2. made \in [Key -> RollupRow \cup {None}] /\ dirty \in SUBSET Key
      BY <2>1 DEF Rebuilt
    <2>3. \/ rebuild' = NoRebuild
          \/ rebuild' = [rebuild EXCEPT !.stage = "inserted", !.made = made, !.dirty = dirty]
      BY <1>5 DEF InsertRebuilt
    <2> HIDE DEF made, dirty
    <2>4. rebuild' \in RebuildState
      BY <1>0, <1>1, <2>2, <2>3 DEF RebuildState
    <2> QED BY <1>0, <1>5, <2>4 DEF InsertRebuilt
  <1>6. CASE CommitRebuild
    <2>1. rollup' \in [Key -> RollupRow \cup {None}]
      BY <1>0, <1>6 DEF CommitRebuild, RebuildState
    <2>2. marked' \subseteq Key
      BY <1>0, <1>6 DEF CommitRebuild, RebuildState
    <2> QED BY <1>1, <1>6, <2>1, <2>2 DEF CommitRebuild
  <1>7. CASE RollBack
    BY <1>0, <1>1, <1>7 DEF RollBack
  <1>8. CASE UNCHANGED <<rollup, marked, rebuild>>
    BY <1>0, <1>8
  <1> QED
    BY <1>0, <1>2, <1>3, <1>4, <1>5, <1>6, <1>7, <1>8
       DEF Next, vars, reporting, Start, Credit, End, SetFilter, ReadRows, CountRows,
           Refetch, TurnPage, Rebuilding

\* All tables and the page.
LEMMA TypeStep == TypeInv /\ [Next]_vars => TypeInv'
  <1> SUFFICES ASSUME TypeInv, [Next]_vars PROVE TypeInv'
    OBVIOUS
  <1>1. budget' \in Budget /\ Plays' = Plays /\ PageState' = PageState
    BY Spending, BudgetStep DEF TypeInv, TypeOK
  <1>2. CatalogueTypeOK' /\ SyncInv'
    BY ItemStep, SyncStepKeeps DEF TypeInv, TypeOK
  <1> QED
    BY <1>1, <1>2, PageTypeStep, PlayTypeStep, RollupTypeStep DEF TypeInv, TypeOK

\* The program starts with tables of their types.
LEMMA TypeInit == Init => TypeInv
  <1> SUFFICES ASSUME Init PROVE TypeInv
    OBVIOUS
  <1>1. SyncInv
    BY SyncInit
  <1>2. budget \in Budget
    BY ReportingAssumption DEF Init, CatalogueInit
  <1>3. item \in [Items -> ItemRow \cup {None}]
    <2>1. ASSUME NEW i \in Items, where[i] # {}
          PROVE  [library |-> CHOOSE l \in where[i] : TRUE, archived |-> FALSE] \in ItemRow
      BY <1>1, <2>1 DEF SyncInv, ItemRow
    <2> QED BY <2>1 DEF Init, CatalogueInit
  <1>4. CatalogueTypeOK
    <2>1. known \in Reference
      BY <1>1 DEF SyncInv, Init, CatalogueInit, NoReference, Reference
    <2> QED BY <1>1, <1>3, <2>1 DEF Init, CatalogueInit, CatalogueTypeOK, SyncInv
  <1>5. play \in [Plays -> Row \cup {None}]
    BY DEF Init, Row
  <1>6. \A k \in Key : Counted(k) \in RollupRow
    <2> SUFFICES ASSUME NEW k \in Key PROVE Counted(k) \in RollupRow
      OBVIOUS
    <2>1. Cardinality(EndedOf(k)) \in Nat /\ WatchOf(k) \in Nat
      BY <1>2, <1>5, WatchIsSum
    <2>2. libraryOf(k[3]) \in Libraries \cup {None}
      BY <1>3 DEF libraryOf, Key, ItemRow
    <2> QED BY <2>1, <2>2 DEF Counted, RollupRow
  <1>7. rollup \in [Key -> RollupRow \cup {None}]
    BY <1>6 DEF Init
  <1>8. page \in PageState /\ rebuild \in RebuildState
    BY NoPageType DEF Init, NoRebuild, RebuildState
  <1> QED BY <1>1, <1>2, <1>4, <1>5, <1>7, <1>8 DEF Init, TypeInv, TypeOK

\* The types of the tables, of the backfill and of the page, for any number of users,
\* items and plays, any days and any page size (repositories/playback.ts, stats.ts,
\* history.ts).
THEOREM TypeCorrect == Spec => []TypeOK
  <1>1. Spec => []TypeInv
    BY TypeInit, TypeStep, PTL DEF Spec
  <1> QED BY <1>1, PTL DEF TypeInv

-----------------------------------------------------------------------------
(* The backfill's rows.                                                     *)

\* The backfill deletes and inserts rows of its range only, and has inserted none
\* before its INSERT.
RebuildShape ==
  /\ rebuild.stage # "idle" => rebuild.range # None
  /\ rebuild.gone \subseteq Rebuilt
  /\ \A k \in Key : rebuild.made[k] # None => rebuild.stage = "inserted" /\ k \in Rebuilt

\* A rollup row that has sessions.
Counts(k) == \E n \in Plays : keyOf(n) = k /\ play[n] # None

\* No row, no delta and no mark is without a session.
RowsHavePlays ==
  /\ \A k \in Key : rollup[k] # None => Counts(k)
  /\ \A k \in Key : rebuild.made[k] # None => Counts(k)
  /\ pending # None => Counts(pending.key)
  /\ \A k \in marked \cup rebuild.dirty : Counts(k)

\* The script is never rewritten.
LEMMA KeyStays ==
  ASSUME TypeInv, [Next]_vars
  PROVE  Plays' = Plays /\ \A n \in Plays : keyOf(n)' = keyOf(n)
  <1>1. budget'.script = budget.script
    BY Spending, BudgetStep DEF TypeInv, TypeOK
  <1> QED BY <1>1 DEF Plays, keyOf

\* What one step does to the sessions table.
LEMMA PlayStep ==
  ASSUME TypeInv, [Next]_vars
  PROVE  \/ play' = play
         \/ \E n \in Plays : /\ Start(n) \/ Credit(n) \/ End(n)
                             /\ UNCHANGED catalogue
  BY DEF Next, vars, reporting, applyRollupDelta, DeltaIsLost, SetFilter, ReadRows, CountRows,
           Refetch, TurnPage, BeginRebuild, Rebuilding, InsertRebuilt, CommitRebuild, RollBack

\* A session that has a row keeps it, and what is credited to it stays.
LEMMA RowsStay ==
  ASSUME TypeInv, [Next]_vars
  PROVE  \A n \in Plays : play[n] # None =>
            /\ play'[n] # None /\ play'[n] \in Row
            /\ play[n].ended => play'[n] = play[n]
            /\ play[n].watch <= play'[n].watch
  <1>0. play \in [Plays -> Row \cup {None}] /\ play' \in [Plays -> Row \cup {None}]
    BY PlayTypeStep DEF TypeInv, TypeOK
  <1>1. \A n \in Plays : play[n] # None => play[n] \in Row /\ play[n].watch \in Nat
    BY <1>0 DEF Row
  <1>2. CASE play' = play
    BY <1>1, <1>2
  <1>3. ASSUME NEW m \in Plays, Start(m) \/ Credit(m) \/ End(m), NEW n \in Plays, play[n] # None
        PROVE  /\ play'[n] # None /\ play'[n] \in Row
               /\ play[n].ended => play'[n] = play[n]
               /\ play[n].watch <= play'[n].watch
    <2>1. CASE m # n
      BY <1>0, <1>1, <1>3, <2>1 DEF Start, Credit, End
    <2>2. CASE m = n
      <3>1. play'[n] \in Row
        <4>1. play[n] \in Row
          BY <1>1, <1>3
        <4>2. CASE Start(n)
          BY <1>3, <4>2 DEF Start
        <4>3. CASE Credit(n)
          BY <1>0, <4>1, <4>3 DEF Credit, Row
        <4>4. CASE End(n)
          <5>1. PICK w \in 0 .. 1 - play[n].watch :
                  play' = [play EXCEPT ![n] = [watch |-> play[n].watch + w, ended |-> TRUE]]
            BY <4>4 DEF End
          <5>2. play[n].watch + w \in 0 .. 1
            BY <4>1 DEF Row
          <5> QED BY <1>0, <5>1, <5>2 DEF Row
        <4> QED BY <1>3, <2>2, <4>2, <4>3, <4>4
      <3>2. play[n].watch <= play'[n].watch /\ ~play[n].ended
        BY <1>0, <1>1, <1>3, <2>2 DEF Start, Credit, End, Row
      <3> QED BY <3>1, <3>2, ReportingNoneAssumption
    <2> QED BY <2>1, <2>2
  <1> QED BY <1>2, <1>3, PlayStep

\* A rollup row only gains sessions.
LEMMA PlaysStay ==
  ASSUME TypeInv, [Next]_vars, NEW k
  PROVE  PlaysOf(k) \subseteq PlaysOf(k)'
  BY RowsStay, KeyStays DEF PlaysOf

\* What a step of the backfill leaves of it.
LEMMA RebuildStep ==
  ASSUME TypeInv, [Next]_vars
  PROVE  \/ rebuild' = rebuild
         \/ rebuild' = NoRebuild
         \/ /\ DeltaIsLost
            /\ rebuild.stage = "inserted"
            /\ rebuild' = [rebuild EXCEPT !.dirty = @ \cup {pending.key}]
         \/ \E range \in DateRange : BeginRebuild(range)
         \/ InsertRebuilt
  BY DEF Next, vars, reporting, Start, Credit, End, applyRollupDelta, DeltaIsLost, SetFilter,
         ReadRows, CountRows, Refetch, TurnPage, Rebuilding, CommitRebuild, RollBack

\* The INSERT that is not refused.
LEMMA InsertShape ==
  ASSUME TypeInv, InsertRebuilt, rebuild' # NoRebuild
  PROVE  /\ rebuild.stage = "deleted" /\ rebuild'.stage = "inserted"
         /\ rebuild'.range = rebuild.range
         /\ rebuild'.gone = rebuild.gone
         /\ rebuild'.made = [k \in Key |-> IF k \in Rebuilt /\ PlaysOf(k) # {} THEN Counted(k)
                                           ELSE None]
         /\ rebuild'.dirty = IF pending = None THEN {} ELSE {pending.key} \cap Rebuilt
         /\ UNCHANGED <<play, rollup, pending, marked>>
  <1> DEFINE made == [k \in Key |-> IF k \in Rebuilt /\ PlaysOf(k) # {} THEN Counted(k)
                                   ELSE None]
             dirty == IF pending = None THEN {} ELSE {pending.key} \cap Rebuilt
  <1>1. rebuild' = [rebuild EXCEPT !.stage = "inserted", !.made = made, !.dirty = dirty]
    BY DEF InsertRebuilt
  <1>2. rebuild \in RebuildState
    BY DEF TypeInv, TypeOK
  <1> HIDE DEF made, dirty
  <1>3. /\ rebuild'.stage = "inserted" /\ rebuild'.range = rebuild.range
        /\ rebuild'.gone = rebuild.gone /\ rebuild'.made = made /\ rebuild'.dirty = dirty
    BY <1>1, <1>2 DEF RebuildState
  <1> QED BY <1>3 DEF InsertRebuilt, made, dirty

\* The DELETE.
LEMMA BeginShape ==
  ASSUME NEW range \in DateRange, BeginRebuild(range)
  PROVE  /\ rebuild'.stage = "deleted" /\ rebuild'.range = range /\ range # None
         /\ rebuild'.gone \subseteq {k \in Key : k[1] \in rebuiltDays(range)}
         /\ rebuild'.made = [k \in Key |-> None]
         /\ rebuild'.dirty = {}
         /\ UNCHANGED <<rollup, pending, marked, play>>
  BY ReportingNoneAssumption DEF BeginRebuild, NoRebuild

\* Every step keeps the shape of the backfill.
LEMMA ShapeStep ==
  ASSUME TypeInv, RebuildShape, [Next]_vars
  PROVE  RebuildShape'
  <1>1. CASE rebuild' = rebuild
    BY <1>1 DEF RebuildShape, Rebuilt
  <1>2. CASE rebuild' = NoRebuild
    BY <1>2 DEF RebuildShape, Rebuilt, NoRebuild
  <1>3. CASE rebuild' = [rebuild EXCEPT !.dirty = @ \cup {pending.key}]
    <2>1. /\ rebuild'.stage = rebuild.stage /\ rebuild'.range = rebuild.range
          /\ rebuild'.gone = rebuild.gone /\ rebuild'.made = rebuild.made
      BY <1>3 DEF TypeInv, TypeOK, RebuildState
    <2> QED BY <2>1 DEF RebuildShape, Rebuilt
  <1>4. ASSUME NEW range \in DateRange, BeginRebuild(range) PROVE RebuildShape'
    BY <1>4, BeginShape DEF RebuildShape, Rebuilt
  <1>5. ASSUME InsertRebuilt, rebuild' # NoRebuild PROVE RebuildShape'
    BY <1>5, InsertShape DEF RebuildShape, Rebuilt
  <1> QED BY <1>1, <1>2, <1>3, <1>4, <1>5, RebuildStep

\* A rollup row that has sessions keeps them.
LEMMA CountsStay ==
  ASSUME TypeInv, [Next]_vars
  PROVE  \A k : Counts(k) => \E n \in Plays' : keyOf(n)' = k /\ play'[n] # None
  BY RowsStay, KeyStays DEF Counts

\* The two ways to say that a rollup row has sessions.
LEMMA CountsArePlays == ASSUME NEW k PROVE Counts(k) <=> PlaysOf(k) # {}
  BY DEF Counts, PlaysOf

\* Rows, deltas and marks come from sessions.
LEMMA RowsHavePlaysStep ==
  ASSUME TypeInv, RowsHavePlays, [Next]_vars
  PROVE  RowsHavePlays'
  <1> DEFINE Still(k) == \E n \in Plays' : keyOf(n)' = k /\ play'[n] # None
  <1>0. \A k : Counts(k) => Still(k)
    BY CountsStay
  <1>1. \A k \in Key : rollup'[k] # None => Still(k)
    <2>1. CASE rollup' = rollup
      BY <1>0, <2>1 DEF RowsHavePlays
    <2>2. CASE applyRollupDelta
      <3>1. \A k \in Key : rollup'[k] # None => rollup[k] # None \/ k = pending.key
        BY <2>2 DEF applyRollupDelta, TypeInv, TypeOK
      <3>2. pending # None
        BY <2>2 DEF applyRollupDelta
      <3> QED BY <1>0, <3>1, <3>2 DEF RowsHavePlays
    <2>3. CASE CommitRebuild
      <3>1. \A k \in Key : rollup'[k] \in {rollup[k], rebuild.made[k]}
        BY <2>3 DEF CommitRebuild
      <3> QED BY <1>0, <3>1 DEF RowsHavePlays
    <2> QED
      BY <2>1, <2>2, <2>3
         DEF Next, vars, reporting, Start, Credit, End, DeltaIsLost, SetFilter, ReadRows,
             CountRows, Refetch, TurnPage, BeginRebuild, Rebuilding, InsertRebuilt, RollBack
  <1>2. pending' # None => Still(pending'.key)
    <2>1. CASE pending' = pending
      BY <1>0, <2>1 DEF RowsHavePlays
    <2>2. ASSUME NEW n \in Plays, Credit(n) \/ End(n) PROVE Still(pending'.key)
      <3>1. pending'.key = keyOf(n) /\ play[n] # None
        BY <2>2 DEF Credit, End
      <3>2. Counts(keyOf(n))
        BY <3>1 DEF Counts
      <3> QED BY <1>0, <3>1, <3>2
    <2>3. CASE pending' = None
      BY <2>3
    <2> HIDE DEF Still
    <2> QED
      BY <2>1, <2>2, <2>3
         DEF Next, vars, reporting, Start, applyRollupDelta, DeltaIsLost, SetFilter, ReadRows,
             CountRows, Refetch, TurnPage, BeginRebuild, Rebuilding, InsertRebuilt,
             CommitRebuild, RollBack
  <1>3. (\A k \in Key : rebuild'.made[k] # None => Still(k)) /\ \A k \in rebuild'.dirty : Still(k)
    <2>1. CASE rebuild' = rebuild
      BY <1>0, <2>1 DEF RowsHavePlays
    <2>2. CASE rebuild' = NoRebuild
      BY <2>2 DEF NoRebuild
    <2>3. CASE DeltaIsLost /\ rebuild' = [rebuild EXCEPT !.dirty = @ \cup {pending.key}]
      <3>1. /\ rebuild'.dirty = rebuild.dirty \cup {pending.key} /\ rebuild'.made = rebuild.made
            /\ pending # None
        BY <2>3 DEF TypeInv, TypeOK, RebuildState, DeltaIsLost
      <3> QED BY <1>0, <3>1 DEF RowsHavePlays
    <2>4. ASSUME NEW range \in DateRange, BeginRebuild(range)
          PROVE  rebuild'.made = [k \in Key |-> None] /\ rebuild'.dirty = {}
      BY <2>4, BeginShape
    <2>5. ASSUME InsertRebuilt, rebuild' # NoRebuild
          PROVE  /\ \A k \in Key : rebuild'.made[k] # None => Counts(k)
                 /\ \A k \in rebuild'.dirty : Counts(k)
      BY <2>5, InsertShape, CountsArePlays DEF RowsHavePlays
    <2> HIDE DEF Still
    <2> QED BY <1>0, <2>1, <2>2, <2>3, <2>4, <2>5, RebuildStep
  <1>4. \A k \in marked' : Still(k)
    <2>1. marked' \subseteq marked \cup rebuild.dirty \/ (pending # None /\ marked' = marked \cup {pending.key})
      BY DEF Next, vars, reporting, Start, Credit, End, applyRollupDelta, DeltaIsLost, SetFilter,
             ReadRows, CountRows, Refetch, TurnPage, BeginRebuild, Rebuilding, InsertRebuilt,
             CommitRebuild, RollBack
    <2> QED BY <1>0, <2>1 DEF RowsHavePlays
  <1> QED BY <1>1, <1>2, <1>3, <1>4 DEF RowsHavePlays, Counts

\* No backfill runs yet, and the rollup counts what the sessions hold.
LEMMA ShapeInit == Init => RebuildShape /\ RowsHavePlays
  <1> SUFFICES ASSUME Init PROVE RebuildShape /\ RowsHavePlays
    OBVIOUS
  <1>1. RebuildShape
    BY DEF Init, RebuildShape, NoRebuild
  <1>2. \A k \in Key : rollup[k] # None => Counts(k)
    BY CountsArePlays DEF Init
  <1> QED BY <1>1, <1>2 DEF Init, RowsHavePlays, NoRebuild

-----------------------------------------------------------------------------
(* Attribution.                                                             *)

\* A rollup row with a library.
Placed(r) == r # None /\ r.library # None

\* A row that has a library has it from the items table, and the row the backfill
\* has made in its place has one too.
AttrInv ==
  /\ \A k \in Key : Placed(rollup[k]) \/ Placed(rebuild.made[k]) => item[k[3]] # None
  /\ rebuild.stage = "inserted" =>
       \A k \in Key : Held(k) /\ Placed(rollup[k]) => Placed(rebuild.made[k])

\* No row of the items table is ever deleted.
LEMMA ItemsStay ==
  ASSUME TypeInv, [Next]_vars
  PROVE  \A i \in Items : item[i] # None => item'[i] # None
  <1>0. item \in [Items -> ItemRow \cup {None}]
    BY DEF TypeInv, TypeOK, CatalogueTypeOK
  <1>1. ASSUME NEW C \in SUBSET Listed, WriteChunk(C)
        PROVE  \A i \in Items : item[i] # None => item'[i] # None
    <2>1. ASSUME NEW i \in Items, \E x \in C : x[1] = i
          PROVE  [library |-> (CHOOSE x \in C : x[1] = i)[2], archived |-> FALSE] # None
      <3>1. [library |-> (CHOOSE x \in C : x[1] = i)[2], archived |-> FALSE] \in ItemRow
        BY <2>1 DEF Listed, ItemRow
      <3> QED BY <3>1, ReportingNoneAssumption
    <2> QED BY <1>1, <2>1 DEF WriteChunk
  <1>2. CASE archiveMissingItems
    <2>1. ASSUME NEW i \in Items, item[i] # None
          PROVE  [item[i] EXCEPT !.archived = TRUE] # None
      <3>1. [item[i] EXCEPT !.archived = TRUE] \in ItemRow
        BY <1>0, <2>1 DEF ItemRow
      <3> QED BY <3>1, ReportingNoneAssumption
    <2> QED BY <1>2, <2>1 DEF archiveMissingItems
  <1> QED
    BY <1>1, <1>2, ItemWrites

\* What one step does to a rollup row.
LEMMA RowStep ==
  ASSUME TypeInv, [Next]_vars
  PROVE  \/ rollup' = rollup
         \/ applyRollupDelta /\ UNCHANGED catalogue
         \/ CommitRebuild /\ UNCHANGED catalogue
  BY DEF Next, vars, reporting, Start, Credit, End, DeltaIsLost, SetFilter, ReadRows,
         CountRows, Refetch, TurnPage, BeginRebuild, Rebuilding, InsertRebuilt, RollBack

\* applyRollupDelta, row by row.
LEMMA DeltaRow ==
  ASSUME TypeInv, applyRollupDelta
  PROVE  /\ pending \in Delta /\ pending.key \in Key /\ ~Held(pending.key)
         /\ \A k \in Key : k # pending.key => rollup'[k] = rollup[k]
         /\ rollup'[pending.key] \in RollupRow
         /\ rollup'[pending.key] # None
         /\ rollup'[pending.key].plays
              = (IF rollup[pending.key] = None THEN 0 ELSE rollup[pending.key].plays)
                + pending.plays
         /\ rollup'[pending.key].watch
              = (IF rollup[pending.key] = None THEN 0 ELSE rollup[pending.key].watch)
                + pending.watch
         /\ rollup'[pending.key].library
              = IF rollup[pending.key] = None THEN libraryOf(pending.key[3])
                ELSE coalesce(libraryOf(pending.key[3]), rollup[pending.key].library)
  <1> DEFINE k == pending.key
             row == IF rollup[k] = None
                      THEN [plays |-> pending.plays, watch |-> pending.watch,
                            library |-> libraryOf(k[3])]
                    ELSE [plays |-> rollup[k].plays + pending.plays,
                          watch |-> rollup[k].watch + pending.watch,
                          library |-> coalesce(libraryOf(k[3]), rollup[k].library)]
  <1>1. pending \in Delta
    BY DEF applyRollupDelta, TypeInv, TypeOK
  <1>2. k \in Key /\ pending.plays \in Nat /\ pending.watch \in Nat
    BY <1>1 DEF Delta
  <1>3. rollup' = [rollup EXCEPT ![k] = row]
    BY DEF applyRollupDelta
  <1>4. rollup \in [Key -> RollupRow \cup {None}]
    BY DEF TypeInv, TypeOK
  <1>5. libraryOf(k[3]) \in Libraries \cup {None}
    BY <1>2 DEF libraryOf, Key, TypeInv, TypeOK, CatalogueTypeOK, ItemRow
  <1>6. row \in RollupRow
    BY <1>2, <1>4, <1>5 DEF RollupRow, coalesce
  <1>7. row.plays = (IF rollup[k] = None THEN 0 ELSE rollup[k].plays) + pending.plays
        /\ row.watch = (IF rollup[k] = None THEN 0 ELSE rollup[k].watch) + pending.watch
        /\ row.library = IF rollup[k] = None THEN libraryOf(k[3])
                         ELSE coalesce(libraryOf(k[3]), rollup[k].library)
    BY <1>2
  <1>8. ~Held(k)
    BY DEF applyRollupDelta
  <1> HIDE DEF row
  <1>9. rollup'[k] = row /\ \A j \in Key : j # k => rollup'[j] = rollup[j]
    BY <1>2, <1>3, <1>4
  <1>10. row # None
    BY <1>6, ReportingNoneAssumption
  <1> QED BY <1>1, <1>2, <1>6, <1>7, <1>8, <1>9, <1>10

\* What the backfill counts has the library of its item, if that has a row.
LEMMA CountedPlaced ==
  ASSUME TypeInv, NEW k \in Key
  PROVE  /\ Counted(k) \in RollupRow /\ Counted(k) # None
         /\ Placed(Counted(k)) <=> item[k[3]] # None
  <1>1. Counted(k) \in RollupRow
    BY CountedType DEF TypeInv
  <1>2. Counted(k) # None
    BY <1>1, ReportingNoneAssumption
  <1>3. Counted(k).library = libraryOf(k[3])
    BY DEF Counted
  <1>4. libraryOf(k[3]) # None <=> item[k[3]] # None
    BY CatalogueAssumption DEF libraryOf, Key, TypeInv, TypeOK, CatalogueTypeOK, ItemRow
  <1> QED BY <1>1, <1>2, <1>3, <1>4 DEF Placed

\* Neither a delta nor a commit takes a library away.
LEMMA PlacedStays ==
  ASSUME TypeInv, AttrInv, [Next]_vars, NEW k \in Key, Placed(rollup[k])
  PROVE  Placed(rollup'[k])
  <1>1. CASE applyRollupDelta
    BY <1>1, DeltaRow DEF Placed, coalesce
  <1>2. CASE CommitRebuild
    BY <1>2 DEF CommitRebuild, AttrInv, Placed
  <1> QED BY <1>1, <1>2, RowStep DEF Placed

\* Every step keeps the libraries of the rows.
LEMMA AttrStep ==
  ASSUME TypeInv, RebuildShape, RowsHavePlays, AttrInv, [Next]_vars
  PROVE  AttrInv'
  <1>0. \A k \in Key : k[3] \in Items
    BY DEF Key
  <1>1. ASSUME NEW k \in Key, Placed(rollup'[k]) PROVE item'[k[3]] # None
    <2>1. CASE Placed(rollup[k])
      BY <1>0, <2>1, ItemsStay DEF AttrInv
    <2>2. CASE ~Placed(rollup[k]) /\ applyRollupDelta
      <3>1. k = pending.key /\ rollup'[k].library = libraryOf(k[3])
        BY <1>1, <2>2, DeltaRow DEF Placed, coalesce
      <3>2. item[k[3]] # None
        BY <1>1, <3>1 DEF Placed, libraryOf
      <3> QED BY <1>0, <3>2, ItemsStay
    <2>3. CASE ~Placed(rollup[k]) /\ CommitRebuild
      <3>1. rollup'[k] = rebuild.made[k]
        BY <1>1, <2>3 DEF CommitRebuild, Placed
      <3>2. item[k[3]] # None
        BY <1>1, <3>1 DEF AttrInv
      <3> QED BY <1>0, <3>2, ItemsStay
    <2> QED BY <1>1, <2>1, <2>2, <2>3, RowStep DEF Placed
  <1>2. ASSUME NEW k \in Key, Placed(rebuild'.made[k]) PROVE item'[k[3]] # None
    <2>1. CASE rebuild'.made = rebuild.made
      BY <1>0, <1>2, <2>1, ItemsStay DEF AttrInv
    <2>2. CASE rebuild'.made = [j \in Key |-> None]
      BY <1>2, <2>2 DEF Placed
    <2>3. CASE InsertRebuilt /\ rebuild' # NoRebuild
      <3>1. rebuild'.made[k] \in {None, Counted(k)}
        BY <2>3, InsertShape
      <3>2. item[k[3]] # None
        BY <1>2, <3>1, CountedPlaced DEF Placed
      <3> QED BY <1>0, <3>2, ItemsStay
    <2>4. CASE rebuild' = [rebuild EXCEPT !.dirty = @ \cup {pending.key}]
      BY <2>1, <2>4 DEF TypeInv, TypeOK, RebuildState
    <2> QED BY <2>1, <2>2, <2>3, <2>4, RebuildStep, BeginShape DEF NoRebuild
  <1>3. ASSUME rebuild'.stage = "inserted", NEW k \in Key,
               k \in rebuild'.gone \/ rebuild'.made[k] # None, Placed(rollup'[k])
        PROVE  Placed(rebuild'.made[k])
    <2>1. CASE rebuild'.stage = rebuild.stage /\ rebuild'.gone = rebuild.gone
               /\ rebuild'.made = rebuild.made
      <3>1. Held(k)
        BY <1>3, <2>1 DEF Held
      <3>2. CASE applyRollupDelta
        <4>1. rollup'[k] = rollup[k]
          BY <3>1, <3>2, DeltaRow
        <4> QED BY <1>3, <2>1, <3>1, <4>1 DEF AttrInv
      <3>3. CASE CommitRebuild
        BY <1>3, <3>3 DEF CommitRebuild, NoRebuild
      <3>4. CASE rollup' = rollup
        BY <1>3, <2>1, <3>1, <3>4 DEF AttrInv
      <3> QED BY <3>2, <3>3, <3>4, RowStep
    <2>2. CASE rebuild' = NoRebuild
      BY <1>3, <2>2 DEF NoRebuild
    <2>3. ASSUME NEW range \in DateRange, BeginRebuild(range) PROVE FALSE
      BY <1>3, <2>3, BeginShape
    <2>4. CASE InsertRebuilt /\ rebuild' # NoRebuild
      <3>1. /\ rollup' = rollup /\ rebuild'.gone = rebuild.gone
            /\ rebuild'.made[k] = IF k \in Rebuilt /\ PlaysOf(k) # {} THEN Counted(k) ELSE None
        BY <2>4, InsertShape
      <3>2. k \in Rebuilt
        BY <1>3, <3>1 DEF RebuildShape
      <3>3. PlaysOf(k) # {}
        BY <1>3, <3>1, CountsArePlays DEF RowsHavePlays, Placed
      <3>4. item[k[3]] # None
        BY <1>3, <3>1 DEF AttrInv
      <3> QED BY <3>1, <3>2, <3>3, <3>4, CountedPlaced
    <2>5. CASE rebuild' = [rebuild EXCEPT !.dirty = @ \cup {pending.key}]
      BY <2>1, <2>5 DEF TypeInv, TypeOK, RebuildState
    <2> QED BY <2>1, <2>2, <2>3, <2>4, <2>5, RebuildStep
  <1> QED BY <1>1, <1>2, <1>3 DEF AttrInv, Placed, Held

\* The rollup has its libraries from the items table.
LEMMA AttrInit == Init => AttrInv
  <1> SUFFICES ASSUME Init PROVE AttrInv
    OBVIOUS
  <1>1. TypeInv
    BY TypeInit
  <1>2. ASSUME NEW k \in Key, Placed(rollup[k]) PROVE item[k[3]] # None
    BY <1>1, <1>2, CountedPlaced DEF Init, Placed
  <1> QED BY <1>2 DEF Init, AttrInv, Placed, NoRebuild

\* All that is known of the tables but what they count.
TableInv == TypeInv /\ RebuildShape /\ RowsHavePlays /\ AttrInv

\* It holds when the program starts ...
LEMMA TableInit == Init => TableInv
  BY TypeInit, ShapeInit, AttrInit DEF TableInv

\* ... and after every step.
LEMMA TableStep == TableInv /\ [Next]_vars => TableInv'
  BY TypeStep, ShapeStep, RowsHavePlaysStep, AttrStep DEF TableInv

\* A play that was counted for a library stays with one, and the items row it has the
\* library from is never deleted, whatever syncs, deltas and backfills do in between
\* (archiveMissingItems, recomputeRollupRange, applyRollupDelta).
THEOREM AttributionKept == Spec => AttributionIsKept
  <1>1. TableInv /\ [Next]_vars =>
          [/\ \A k \in Key : rollup[k] # None /\ rollup[k].library # None
                               => rollup'[k] # None /\ rollup'[k].library # None
           /\ \A i \in Items : item[i] # None => item'[i] # None]_vars
    BY PlacedStays, ItemsStay DEF TableInv, Placed
  <1> QED BY <1>1, TableInit, TableStep, PTL DEF Spec, AttributionIsKept

-----------------------------------------------------------------------------
(* Drift.                                                                   *)

\* The sessions of a rollup row after a step.
LEMMA PlaysOfNext ==
  ASSUME TypeInv, [Next]_vars, NEW k
  PROVE  PlaysOf(k)' = {n \in Plays : keyOf(n) = k /\ play'[n] # None}
  BY KeyStays DEF PlaysOf

\* ... whose watch time WatchOf sums.
LEMMA WatchIsSumNext ==
  ASSUME NEW k
  PROVE  WatchOf(k)' = SumFunctionOnSet([n \in PlaysOf(k)' |-> play'[n].watch], PlaysOf(k)')
  <1> DEFINE f == [n \in PlaysOf(k)' |-> play'[n].watch]
  <1>1. WatchOf(k)' = SumFunction(f) /\ DOMAIN f = PlaysOf(k)'
    BY DEF WatchOf
  <1> HIDE DEF f
  <1>2. WatchOf(k)' = SumFunctionOnSet(f, PlaysOf(k)')
    BY <1>1 DEF SumFunction
  <1> QED BY <1>2 DEF f

\* It is a number.
LEMMA WatchNext ==
  ASSUME TypeInv, [Next]_vars, NEW k
  PROVE  WatchOf(k)' \in Nat
  <1> DEFINE S == {n \in Plays : keyOf(n) = k /\ play'[n] # None}
             f == [n \in S |-> play'[n].watch]
  <1>1. PlaysOf(k)' = S
    BY PlaysOfNext
  <1>2. IsFiniteSet(S)
    <2>1. IsFiniteSet(Plays) /\ S \in SUBSET Plays
      BY ScriptType DEF TypeInv, TypeOK
    <2> QED BY <2>1, FS_Subset
  <1>3. \A n \in S : f[n] \in Nat
    BY PlayTypeStep DEF TypeInv, Row
  <1>4. WatchOf(k)' = SumFunctionOnSet(f, S)
    BY <1>1, WatchIsSumNext
  <1> HIDE DEF S, f
  <1> QED BY <1>2, <1>3, <1>4, SumType

\* A row none of whose sessions a step touches adds up to what it did.
LEMMA SameCounts ==
  ASSUME TypeInv, [Next]_vars, NEW k,
         \A n \in Plays : keyOf(n) = k => play'[n] = play[n]
  PROVE  PlaysOf(k)' = PlaysOf(k) /\ EndedOf(k)' = EndedOf(k) /\ WatchOf(k)' = WatchOf(k)
  <1>1. PlaysOf(k)' = PlaysOf(k)
    BY PlaysOfNext DEF PlaysOf
  <1>2. \A n \in PlaysOf(k) : play'[n] = play[n]
    BY DEF PlaysOf
  <1>3. EndedOf(k)' = EndedOf(k)
    BY <1>1, <1>2 DEF EndedOf
  <1>4. [n \in PlaysOf(k)' |-> play'[n].watch] = [n \in PlaysOf(k) |-> play[n].watch]
    BY <1>1, <1>2
  <1>5. WatchOf(k) = SumFunctionOnSet([n \in PlaysOf(k) |-> play[n].watch], PlaysOf(k))
    BY WatchIsSum DEF TypeInv, TypeOK
  <1> QED BY <1>1, <1>3, <1>4, <1>5, WatchIsSumNext

\* A session that starts adds nothing yet.
LEMMA StartCounts ==
  ASSUME TypeInv, [Next]_vars, NEW n \in Plays, Start(n), NEW k, keyOf(n) = k
  PROVE  EndedOf(k)' = EndedOf(k) /\ WatchOf(k)' = WatchOf(k)
  <1> DEFINE S == PlaysOf(k)
             f == [m \in S |-> play[m].watch]
             g == [m \in S \cup {n} |-> play'[m].watch]
  <1>1. play \in [Plays -> Row \cup {None}]
    BY DEF TypeInv, TypeOK
  <1>2. play' = [play EXCEPT ![n] = [watch |-> 0, ended |-> FALSE]] /\ play[n] = None
    BY DEF Start
  <1>3. [watch |-> 0, ended |-> FALSE] # None
    <2>1. [watch |-> 0, ended |-> FALSE] \in Row
      BY DEF Row
    <2> QED BY <2>1, ReportingNoneAssumption
  <1>4. PlaysOf(k)' = S \cup {n} /\ n \notin S
    BY <1>1, <1>2, <1>3, PlaysOfNext DEF PlaysOf
  <1>5. \A m \in S : play'[m] = play[m]
    BY <1>1, <1>2 DEF PlaysOf
  <1>6. play'[n].watch = 0 /\ ~play'[n].ended
    BY <1>1, <1>2
  <1>7. EndedOf(k)' = EndedOf(k)
    BY <1>4, <1>5, <1>6 DEF EndedOf
  <1>8. /\ IsFiniteSet(S)
        /\ WatchOf(k) = SumFunctionOnSet(f, S)
        /\ WatchOf(k) \in Nat
        /\ \A m \in S : play[m].watch \in 0 .. 1
    BY <1>1, WatchIsSum DEF TypeInv, TypeOK
  <1>9. WatchOf(k)' = SumFunctionOnSet(g, S \cup {n})
    BY <1>4, WatchIsSumNext
  <1>10. (\A m \in S : g[m] = f[m] /\ g[m] \in Nat) /\ g[n] = 0
    BY <1>5, <1>6, <1>8
  <1> HIDE DEF S, f, g
  <1>11. SumFunctionOnSet(g, S \cup {n}) = g[n] + SumFunctionOnSet(g, S)
    BY <1>4, <1>8, <1>10, SumAdd
  <1>12. SumFunctionOnSet(g, S) = SumFunctionOnSet(f, S)
    BY <1>8, <1>10, SumEqual
  <1>13. WatchOf(k)' = WatchOf(k)
    BY <1>8, <1>9, <1>10, <1>11, <1>12
  <1> QED BY <1>7, <1>13

\* Watch time credited to a session shows in its row.
LEMMA WatchMoves ==
  ASSUME TypeInv, [Next]_vars, NEW n \in Plays, play[n] # None, play'[n] # None,
         NEW k, keyOf(n) = k, \A m \in Plays : m # n => play'[m] = play[m]
  PROVE  /\ PlaysOf(k)' = PlaysOf(k)
         /\ WatchOf(k)' - play'[n].watch = WatchOf(k) - play[n].watch
  <1> DEFINE S == PlaysOf(k)
             f == [m \in S |-> play[m].watch]
             g == [m \in S |-> play'[m].watch]
  <1>1. /\ play \in [Plays -> Row \cup {None}] /\ play' \in [Plays -> Row \cup {None}]
    BY PlayTypeStep DEF TypeInv, TypeOK
  <1>2. PlaysOf(k)' = S /\ n \in S
    BY PlaysOfNext DEF PlaysOf
  <1>3. \A m \in S : m \in Plays /\ play[m] \in Row /\ play'[m] \in Row
    BY <1>1 DEF PlaysOf
  <1>4. (\A m \in S : f[m] \in Nat /\ g[m] \in Nat) /\ \A m \in S \ {n} : g[m] = f[m]
    BY <1>3 DEF Row
  <1>5. IsFiniteSet(S) /\ WatchOf(k) = SumFunctionOnSet(f, S)
    BY <1>1, WatchIsSum DEF TypeInv, TypeOK
  <1>6. WatchOf(k)' = SumFunctionOnSet(g, S)
    BY <1>2, WatchIsSumNext
  <1>7. f[n] = play[n].watch /\ g[n] = play'[n].watch
    BY <1>2
  <1> HIDE DEF S, f, g
  <1>8. SumFunctionOnSet(g, S) - g[n] = SumFunctionOnSet(f, S) - f[n]
    BY <1>2, <1>4, <1>5, SumChange
  <1>9. PlaysOf(k)' = PlaysOf(k)
    BY <1>2 DEF S
  <1> QED BY <1>5, <1>6, <1>7, <1>8, <1>9

\* What the delta on its way adds to a row.
PendingPlays(k) == IF pending # None /\ pending.key = k THEN pending.plays ELSE 0
PendingWatch(k) == IF pending # None /\ pending.key = k THEN pending.watch ELSE 0

\* Every write of the poll to a session is in the delta that follows it.
LEMMA PollCounts ==
  ASSUME TypeInv, [Next]_vars, NEW n \in Plays, Start(n) \/ Credit(n) \/ End(n), NEW k \in Key
  PROVE  /\ PendingPlays(k) = 0 /\ PendingWatch(k) = 0
         /\ Cardinality(EndedOf(k)') = Cardinality(EndedOf(k)) + PendingPlays(k)'
         /\ WatchOf(k)' = WatchOf(k) + PendingWatch(k)'
  <1>0. play \in [Plays -> Row \cup {None}]
    BY DEF TypeInv, TypeOK
  <1>1. IsFiniteSet(EndedOf(k)) /\ Cardinality(EndedOf(k)) \in Nat /\ WatchOf(k) \in Nat
    BY <1>0, WatchIsSum DEF TypeInv, TypeOK
  <1>2. pending = None
    BY DEF Start, Credit, End, PollMayWrite
  <1>3. \A m \in Plays : m # n => play'[m] = play[m]
    BY <1>0 DEF Start, Credit, End
  <1>4. CASE keyOf(n) # k
    <2>1. PendingPlays(k)' = 0 /\ PendingWatch(k)' = 0
      BY <1>2, <1>4 DEF PendingPlays, PendingWatch, Start, Credit, End
    <2>2. EndedOf(k)' = EndedOf(k) /\ WatchOf(k)' = WatchOf(k)
      BY <1>3, <1>4, SameCounts
    <2> QED BY <1>1, <1>2, <2>1, <2>2 DEF PendingPlays, PendingWatch
  <1>5. CASE keyOf(n) = k /\ Start(n)
    <2>1. PendingPlays(k)' = 0 /\ PendingWatch(k)' = 0
      BY <1>2, <1>5 DEF PendingPlays, PendingWatch, Start
    <2>2. EndedOf(k)' = EndedOf(k) /\ WatchOf(k)' = WatchOf(k)
      BY <1>5, StartCounts
    <2> QED BY <1>1, <1>2, <2>1, <2>2 DEF PendingPlays, PendingWatch
  <1>6. CASE keyOf(n) = k /\ (Credit(n) \/ End(n))
    <2>1. /\ play[n] # None /\ play[n] \in Row /\ ~play[n].ended
          /\ play'[n] # None /\ play'[n] \in Row
      BY <1>0, <1>6, RowsStay DEF Credit, End
    <2>2. PlaysOf(k)' = PlaysOf(k) /\ WatchOf(k)' - play'[n].watch = WatchOf(k) - play[n].watch
      BY <1>3, <1>6, <2>1, WatchMoves
    <2>3. pending' \in Delta /\ pending'.key = k /\ pending' # None
          /\ play'[n].watch = play[n].watch + pending'.watch
          /\ pending'.plays = IF play'[n].ended THEN 1 ELSE 0
      <3>1. [key |-> k, plays |-> 0, watch |-> 1] \in Delta
        BY DEF Delta
      <3>2. CASE Credit(n)
        <4>1. pending' = [key |-> k, plays |-> 0, watch |-> 1] /\ play' = [play EXCEPT ![n].watch = 1]
              /\ play[n].watch = 0
          BY <1>6, <3>2 DEF Credit
        <4>2. play'[n].watch = 1 /\ play'[n].ended = play[n].ended
          BY <1>0, <2>1, <4>1 DEF Row
        <4> QED BY <2>1, <3>1, <4>1, <4>2, ReportingNoneAssumption
      <3>3. CASE End(n)
        <4>1. PICK w \in 0 .. 1 - play[n].watch :
                /\ play' = [play EXCEPT ![n] = [watch |-> play[n].watch + w, ended |-> TRUE]]
                /\ pending' = [key |-> keyOf(n), plays |-> 1, watch |-> w]
          BY <3>3 DEF End
        <4>2. w \in 0 .. 1
          BY <2>1 DEF Row
        <4>3. pending' \in Delta
          BY <1>6, <4>1, <4>2 DEF Delta
        <4> QED BY <1>0, <1>6, <4>1, <4>3, ReportingNoneAssumption
      <3> QED BY <1>6, <3>2, <3>3
    <2>4. PendingPlays(k)' = pending'.plays /\ PendingWatch(k)' = pending'.watch
      BY <2>3 DEF PendingPlays, PendingWatch
    <2>5. n \in PlaysOf(k) /\ n \notin EndedOf(k)
      BY <1>6, <2>1 DEF PlaysOf, EndedOf
    <2>6. EndedOf(k)' = IF play'[n].ended THEN EndedOf(k) \cup {n} ELSE EndedOf(k)
      BY <1>3, <2>2, <2>5 DEF EndedOf, PlaysOf
    <2>7. Cardinality(EndedOf(k) \cup {n}) = Cardinality(EndedOf(k)) + 1
      BY <1>1, <2>5, FS_AddElement
    <2>8. Cardinality(EndedOf(k)') = Cardinality(EndedOf(k)) + PendingPlays(k)'
      BY <1>1, <2>3, <2>4, <2>6, <2>7
    <2>9. WatchOf(k)' = WatchOf(k) + PendingWatch(k)'
      <3>1. \A a, b, c, w \in Nat : b - (a + w) = c - a => b = c + w
        OBVIOUS
      <3>2. play[n].watch \in Nat /\ pending'.watch \in Nat /\ WatchOf(k)' \in Nat
        BY <2>1, <2>3, WatchNext DEF Row, Delta
      <3> QED BY <1>1, <2>2, <2>3, <2>4, <3>1, <3>2
    <2>10. PendingPlays(k) = 0 /\ PendingWatch(k) = 0
      BY <1>2 DEF PendingPlays, PendingWatch
    <2> QED BY <2>8, <2>9, <2>10
  <1> QED BY <1>4, <1>5, <1>6

\* The counts of a row, which is none before its first delta.
PlaysIn(r) == IF r = None THEN 0 ELSE r.plays
WatchIn(r) == IF r = None THEN 0 ELSE r.watch

\* A rollup row that counts its sessions, but for the delta on its way.
Exact(r, k) ==
  /\ PlaysIn(r) + PendingPlays(k) = Cardinality(EndedOf(k))
  /\ WatchIn(r) + PendingWatch(k) = WatchOf(k)

\* Every row that is not marked is exact, and so will every row be that the backfill
\* commits and does not mark.
DriftInv ==
  /\ \A k \in Key \ marked : Exact(rollup[k], k)
  /\ rebuild.stage = "inserted" =>
       /\ \A k \in marked \cap Rebuilt : k \in rebuild.dirty \/ rebuild.made[k] # None
       /\ \A k \in Key \ rebuild.dirty : Held(k) => Exact(rebuild.made[k], k)

\* What the backfill counts is exact, but for a delta on its way.
LEMMA CountedExact ==
  ASSUME TypeInv, NEW k \in Key, pending # None => pending.key # k
  PROVE  /\ Exact(Counted(k), k)
         /\ PlaysOf(k) = {} => Exact(None, k)
  <1>1. PendingPlays(k) = 0 /\ PendingWatch(k) = 0
    BY DEF PendingPlays, PendingWatch
  <1>2. /\ Cardinality(EndedOf(k)) \in Nat /\ WatchOf(k) \in Nat
        /\ WatchOf(k) = SumFunctionOnSet([n \in PlaysOf(k) |-> play[n].watch], PlaysOf(k))
    BY WatchIsSum DEF TypeInv, TypeOK
  <1>3. Counted(k) # None
    BY CountedPlaced
  <1>4. Counted(k).plays = Cardinality(EndedOf(k)) /\ Counted(k).watch = WatchOf(k)
    BY DEF Counted
  <1>5. ASSUME PlaysOf(k) = {}
        PROVE  Cardinality(EndedOf(k)) = 0 /\ WatchOf(k) = 0
    <2>1. EndedOf(k) = {}
      BY <1>5 DEF EndedOf
    <2> QED BY <1>2, <1>5, <2>1, SumEmpty, FS_EmptySet
  <1> QED BY <1>1, <1>2, <1>3, <1>4, <1>5 DEF Exact, PlaysIn, WatchIn

\* What keeps a row exact that a step does not write.
LEMMA ExactStays ==
  ASSUME TypeInv, [Next]_vars, NEW k \in Key, NEW r \in RollupRow \cup {None},
         Exact(r, k),
         pending # None /\ pending.key = k => pending' = pending
  PROVE  /\ PlaysIn(r) + PendingPlays(k)' = Cardinality(EndedOf(k)')
         /\ WatchIn(r) + PendingWatch(k)' = WatchOf(k)'
  <1>0. PlaysIn(r) \in Nat /\ WatchIn(r) \in Nat
    BY DEF PlaysIn, WatchIn, RollupRow
  <1>1. ASSUME NEW n \in Plays, Start(n) \/ Credit(n) \/ End(n)
        PROVE  /\ PlaysIn(r) + PendingPlays(k)' = Cardinality(EndedOf(k)')
               /\ WatchIn(r) + PendingWatch(k)' = WatchOf(k)'
    <2>1. /\ PendingPlays(k) = 0 /\ PendingWatch(k) = 0
          /\ Cardinality(EndedOf(k)') = Cardinality(EndedOf(k)) + PendingPlays(k)'
          /\ WatchOf(k)' = WatchOf(k) + PendingWatch(k)'
      BY <1>1, PollCounts
    <2> QED BY <1>0, <2>1 DEF Exact
  <1>2. ASSUME play' = play, pending' # None => pending' = pending
        PROVE  /\ PlaysIn(r) + PendingPlays(k)' = Cardinality(EndedOf(k)')
               /\ WatchIn(r) + PendingWatch(k)' = WatchOf(k)'
    <2>1. EndedOf(k)' = EndedOf(k) /\ WatchOf(k)' = WatchOf(k)
      BY <1>2, SameCounts
    <2>2. PendingPlays(k)' = PendingPlays(k) /\ PendingWatch(k)' = PendingWatch(k)
      BY <1>2 DEF PendingPlays, PendingWatch
    <2> QED BY <2>1, <2>2 DEF Exact
  <1> QED
    BY <1>1, <1>2
       DEF Next, vars, reporting, applyRollupDelta, DeltaIsLost, SetFilter, ReadRows, CountRows,
           Refetch, TurnPage, BeginRebuild, Rebuilding, InsertRebuilt, CommitRebuild, RollBack

\* A delta that lands keeps its row exact.
LEMMA DeltaExact ==
  ASSUME TypeInv, [Next]_vars, applyRollupDelta, NEW k \in Key, Exact(rollup[k], k)
  PROVE  /\ PlaysIn(rollup'[k]) + PendingPlays(k)' = Cardinality(EndedOf(k)')
         /\ WatchIn(rollup'[k]) + PendingWatch(k)' = WatchOf(k)'
  <1>0. rollup[k] \in RollupRow \cup {None}
    BY DEF TypeInv, TypeOK
  <1>1. CASE k # pending.key
    <2>1. rollup'[k] = rollup[k]
      BY <1>1, DeltaRow
    <2>2. /\ PlaysIn(rollup[k]) + PendingPlays(k)' = Cardinality(EndedOf(k)')
          /\ WatchIn(rollup[k]) + PendingWatch(k)' = WatchOf(k)'
      BY <1>0, <1>1, ExactStays
    <2> QED BY <2>1, <2>2
  <1>2. CASE k = pending.key
    <2>1. /\ pending \in Delta /\ rollup'[k] # None
          /\ rollup'[k].plays = PlaysIn(rollup[k]) + pending.plays
          /\ rollup'[k].watch = WatchIn(rollup[k]) + pending.watch
      BY <1>2, DeltaRow DEF PlaysIn, WatchIn
    <2>2. pending # None /\ pending' = None /\ play' = play
      BY DEF applyRollupDelta
    <2>3. EndedOf(k)' = EndedOf(k) /\ WatchOf(k)' = WatchOf(k)
      BY <2>2, SameCounts
    <2>4. PendingPlays(k) = pending.plays /\ PendingWatch(k) = pending.watch
          /\ PendingPlays(k)' = 0 /\ PendingWatch(k)' = 0
      BY <1>2, <2>2 DEF PendingPlays, PendingWatch
    <2>5. PlaysIn(rollup[k]) \in Nat /\ WatchIn(rollup[k]) \in Nat
      BY <1>0 DEF PlaysIn, WatchIn, RollupRow
    <2>6. pending.plays \in Nat /\ pending.watch \in Nat
      BY <2>1 DEF Delta
    <2> QED BY <2>1, <2>3, <2>4, <2>5, <2>6 DEF Exact, PlaysIn, WatchIn
  <1> QED BY <1>1, <1>2

\* runBackfill rebuilds the days it was asked for, the last one included.
LEMMA RebuiltIsAsked ==
  ASSUME TypeInv, rebuild.range # None
  PROVE  Rebuilt = Asked
  <1>1. rebuild.range.from \in Nat /\ rebuild.range.to \in Nat
    BY ReportingAssumption DEF TypeInv, TypeOK, RebuildState, DateRange
  <1>2. \A k \in Key : k[1] \in Days /\ k[1] \in Nat
    BY ReportingAssumption DEF Key
  <1> QED BY <1>1, <1>2 DEF Rebuilt, Asked, rebuiltDays

\* The committed rows stay exact, but for those that are marked ...
LEMMA DriftRows ==
  ASSUME TypeInv, RebuildShape, RowsHavePlays, DriftInv, [Next]_vars,
         NEW k \in Key \ marked'
  PROVE  /\ PlaysIn(rollup'[k]) + PendingPlays(k)' = Cardinality(EndedOf(k)')
         /\ WatchIn(rollup'[k]) + PendingWatch(k)' = WatchOf(k)'
  <1>0. rollup[k] \in RollupRow \cup {None} /\ rebuild.made[k] \in RollupRow \cup {None}
    BY DEF TypeInv, TypeOK, RebuildState
  <1>1. CASE applyRollupDelta
    <2>1. k \notin marked
      BY <1>1 DEF applyRollupDelta
    <2> QED BY <1>1, <2>1, DeltaExact DEF DriftInv
  <1>2. CASE CommitRebuild
    <2>1. /\ rollup'[k] = IF Held(k) THEN rebuild.made[k] ELSE rollup[k]
          /\ k \notin rebuild.dirty /\ (k \in marked => k \in Asked)
          /\ pending' = pending /\ rebuild.stage = "inserted"
      BY <1>2 DEF CommitRebuild
    <2>2. rebuild.range # None
      BY <2>1 DEF RebuildShape
    <2>3. k \in marked => Held(k)
      BY <2>1, <2>2, RebuiltIsAsked DEF DriftInv, Held
    <2>4. Exact(rollup'[k], k)
      BY <2>1, <2>3 DEF DriftInv
    <2>5. rollup'[k] \in RollupRow \cup {None}
      BY <1>0, <2>1
    <2> DEFINE r == rollup'[k]
    <2> HIDE DEF r
    <2>6. Exact(r, k) /\ r \in RollupRow \cup {None}
      BY <2>4, <2>5 DEF r
    <2>7. /\ PlaysIn(r) + PendingPlays(k)' = Cardinality(EndedOf(k)')
          /\ WatchIn(r) + PendingWatch(k)' = WatchOf(k)'
      BY <2>1, <2>6, ExactStays
    <2> QED BY <2>7 DEF r
  <1>3. CASE DeltaIsLost
    <2>1. rollup' = rollup /\ k \notin marked /\ k # pending.key
      BY <1>3 DEF DeltaIsLost
    <2> QED BY <1>0, <2>1, ExactStays DEF DriftInv
  <1>4. CASE rollup' = rollup /\ marked' = marked /\ (pending # None => pending' = pending)
    BY <1>0, <1>4, ExactStays DEF DriftInv
  <1> QED
    BY <1>1, <1>2, <1>3, <1>4
       DEF Next, vars, reporting, Start, Credit, End, PollMayWrite, SetFilter, ReadRows, CountRows,
           Refetch, TurnPage, BeginRebuild, Rebuilding, InsertRebuilt, RollBack

\* ... and so do those the backfill is about to commit.
LEMMA DriftMade ==
  ASSUME TypeInv, RebuildShape, RowsHavePlays, DriftInv, [Next]_vars,
         rebuild'.stage = "inserted"
  PROVE  /\ \A k \in marked' \cap Rebuilt' : k \in rebuild'.dirty \/ rebuild'.made[k] # None
         /\ \A k \in Key \ rebuild'.dirty :
              k \in rebuild'.gone \/ rebuild'.made[k] # None =>
                /\ PlaysIn(rebuild'.made[k]) + PendingPlays(k)' = Cardinality(EndedOf(k)')
                /\ WatchIn(rebuild'.made[k]) + PendingWatch(k)' = WatchOf(k)'
  <1>0. \A k \in Key : rebuild.made[k] \in RollupRow \cup {None}
    BY DEF TypeInv, TypeOK, RebuildState
  <1>1. CASE rebuild' = rebuild /\ marked' = marked
    <2>1. Rebuilt' = Rebuilt
      BY <1>1 DEF Rebuilt
    <2>2. ASSUME NEW k \in Key \ rebuild.dirty, Held(k)
          PROVE  /\ PlaysIn(rebuild.made[k]) + PendingPlays(k)' = Cardinality(EndedOf(k)')
                 /\ WatchIn(rebuild.made[k]) + PendingWatch(k)' = WatchOf(k)'
      <3>1. Exact(rebuild.made[k], k)
        BY <1>1, <2>2 DEF DriftInv
      <3>2. pending # None /\ pending.key = k => pending' = pending
        <4>1. applyRollupDelta => pending.key # k
          BY <2>2, DeltaRow
        <4>2. ASSUME DeltaIsLost PROVE pending.key # k
          <5>1. rebuild.stage = "inserted"
            BY <1>1
          <5>2. rebuild = [rebuild EXCEPT !.dirty = @ \cup {pending.key}]
            BY <1>1, <4>2, <5>1 DEF DeltaIsLost
          <5>3. pending.key \in rebuild.dirty
            BY <5>2 DEF TypeInv, TypeOK, RebuildState
          <5> QED BY <2>2, <5>3
        <4> QED
          BY <4>1, <4>2
             DEF Next, vars, reporting, Start, Credit, End, PollMayWrite, SetFilter, ReadRows,
                 CountRows, Refetch, TurnPage, BeginRebuild, Rebuilding, InsertRebuilt,
                 CommitRebuild, RollBack
      <3> QED BY <1>0, <3>1, <3>2, ExactStays
    <2> QED BY <1>1, <2>1, <2>2 DEF DriftInv, Held
  <1>2. CASE DeltaIsLost
    <2>1. rebuild.stage = "inserted"
      BY <1>2 DEF DeltaIsLost
    <2>2. rebuild' = [rebuild EXCEPT !.dirty = @ \cup {pending.key}]
          /\ marked' = marked \cup {pending.key}
      BY <1>2, <2>1 DEF DeltaIsLost
    <2>3. /\ rebuild'.dirty = rebuild.dirty \cup {pending.key} /\ rebuild'.range = rebuild.range
          /\ rebuild'.gone = rebuild.gone /\ rebuild'.made = rebuild.made
      BY <2>2 DEF TypeInv, TypeOK, RebuildState
    <2>4. Rebuilt' = Rebuilt
      BY <2>3 DEF Rebuilt
    <2>5. ASSUME NEW k \in Key \ rebuild'.dirty, Held(k)
          PROVE  /\ PlaysIn(rebuild.made[k]) + PendingPlays(k)' = Cardinality(EndedOf(k)')
                 /\ WatchIn(rebuild.made[k]) + PendingWatch(k)' = WatchOf(k)'
      <3>1. Exact(rebuild.made[k], k) /\ pending.key # k
        BY <2>1, <2>3, <2>5 DEF DriftInv
      <3> QED BY <1>0, <3>1, ExactStays
    <2> QED BY <2>1, <2>2, <2>3, <2>4, <2>5 DEF DriftInv, Held
  <1>3. CASE InsertRebuilt /\ rebuild' # NoRebuild
    <2>1. /\ rebuild'.range = rebuild.range
          /\ rebuild'.gone = rebuild.gone
          /\ rebuild'.made = [k \in Key |-> IF k \in Rebuilt /\ PlaysOf(k) # {} THEN Counted(k)
                                            ELSE None]
          /\ rebuild'.dirty = IF pending = None THEN {} ELSE {pending.key} \cap Rebuilt
          /\ play' = play /\ pending' = pending /\ marked' = marked
      BY <1>3, InsertShape
    <2>2. Rebuilt' = Rebuilt /\ Rebuilt \subseteq Key
      BY <2>1 DEF Rebuilt
    <2>3. \A k \in marked \cap Rebuilt : rebuild'.made[k] # None
      BY <2>1, <2>2, CountedPlaced, CountsArePlays DEF RowsHavePlays
    <2>4. ASSUME NEW k \in Key \ rebuild'.dirty, k \in rebuild'.gone \/ rebuild'.made[k] # None
          PROVE  /\ PlaysIn(rebuild'.made[k]) + PendingPlays(k)' = Cardinality(EndedOf(k)')
                 /\ WatchIn(rebuild'.made[k]) + PendingWatch(k)' = WatchOf(k)'
      <3> DEFINE r == rebuild'.made[k]
      <3>1. k \in Rebuilt
        BY <2>1, <2>4 DEF RebuildShape
      <3>2. pending # None => pending.key # k
        BY <2>1, <2>4, <3>1
      <3>3. r = IF PlaysOf(k) # {} THEN Counted(k) ELSE None
        BY <2>1, <3>1
      <3>4. Exact(r, k) /\ r \in RollupRow \cup {None}
        BY <3>2, <3>3, CountedExact, CountedPlaced
      <3> HIDE DEF r
      <3>5. /\ PlaysIn(r) + PendingPlays(k)' = Cardinality(EndedOf(k)')
            /\ WatchIn(r) + PendingWatch(k)' = WatchOf(k)'
        BY <2>1, <3>4, ExactStays
      <3> QED BY <3>5 DEF r
    <2> QED BY <2>1, <2>2, <2>3, <2>4
  <1>4. CASE rebuild' = NoRebuild \/ \E range \in DateRange : BeginRebuild(range)
    BY <1>4, BeginShape DEF NoRebuild
  <1> QED
    BY <1>1, <1>2, <1>3, <1>4
       DEF Next, vars, reporting, Start, Credit, End, applyRollupDelta, SetFilter,
         ReadRows, CountRows, Refetch, TurnPage, Rebuilding, CommitRebuild, RollBack,
         InsertRebuilt

\* Every step keeps the rows exact.
LEMMA DriftStep ==
  ASSUME TypeInv, RebuildShape, RowsHavePlays, DriftInv, [Next]_vars
  PROVE  DriftInv'
  BY DriftRows, DriftMade DEF DriftInv, Exact, Held

\* The rollup starts as a backfill of all days would leave it.
LEMMA DriftInit == Init => DriftInv
  <1> SUFFICES ASSUME Init PROVE DriftInv
    OBVIOUS
  <1>1. TypeInv /\ pending = None /\ rebuild.stage = "idle"
    BY TypeInit DEF Init, NoRebuild
  <1>2. \A k \in Key : rollup[k] = IF PlaysOf(k) = {} THEN None ELSE Counted(k)
    BY DEF Init
  <1>3. \A k \in Key : Exact(rollup[k], k)
    BY <1>1, <1>2, CountedExact
  <1> QED BY <1>1, <1>3 DEF DriftInv

\* Every rollup row adds up to its sessions and the delta on its way, unless a delta of
\* it was lost, or was on its way while a backfill counted its session; a backfill of
\* its day puts that right (recomputeRollupRange, applyRollupDelta, runBackfill).
THEOREM DriftExplained == Spec => []DriftIsExplained
  <1>1. Init => TableInv /\ DriftInv
    BY TableInit, DriftInit
  <1>2. TableInv /\ DriftInv /\ [Next]_vars => (TableInv /\ DriftInv)'
    BY TableStep, DriftStep DEF TableInv
  <1>3. DriftInv => DriftIsExplained
    BY DEF DriftInv, DriftIsExplained, Exact, PlaysIn, WatchIn, PendingPlays, PendingWatch,
           PlaysSoFar, WatchSoFar
  <1> QED BY <1>1, <1>2, <1>3, PTL DEF Spec

-----------------------------------------------------------------------------
(* The figures of the dashboards.                                           *)

\* What each rollup row counts, and those there are.
PlaysAt == [k \in Key |-> PlaysIn(rollup[k])]
WatchAt == [k \in Key |-> WatchIn(rollup[k])]

Rows == {k \in Key : rollup[k] # None}

\* There are finitely many, and what they count are numbers.
LEMMA RowsFinite ==
  ASSUME TypeInv, RowsHavePlays, NEW rows \in SUBSET Rows
  PROVE  /\ IsFiniteSet(rows)
         /\ \A k \in rows : PlaysAt[k] \in Nat /\ WatchAt[k] \in Nat
         /\ \A k \in rows : PlaysAt[k] = rollup[k].plays /\ WatchAt[k] = rollup[k].watch
  <1> DEFINE h == [n \in Plays |-> keyOf(n)]
  <1>1. IsFiniteSet({h[n] : n \in Plays})
    <2> HIDE DEF h
    <2>1. IsFiniteSet(Plays)
      BY ScriptType DEF TypeInv, TypeOK
    <2> QED BY <2>1, ImageFinite
  <1>2. rows \subseteq {h[n] : n \in Plays}
    BY DEF RowsHavePlays, Counts, Rows
  <1>3. IsFiniteSet(rows)
    BY <1>1, <1>2, FS_Subset
  <1>4. \A k \in rows : k \in Key /\ rollup[k] \in RollupRow /\ rollup[k] # None
    BY DEF TypeInv, TypeOK, Rows
  <1> QED BY <1>3, <1>4 DEF PlaysAt, WatchAt, PlaysIn, WatchIn, RollupRow

\* The sums a statement takes of some of them.
LEMMA TotalsIs ==
  ASSUME TypeInv, RowsHavePlays, NEW rows \in SUBSET Rows
  PROVE  /\ Totals(rows) = [plays |-> SumFunctionOnSet(PlaysAt, rows),
                            watch |-> SumFunctionOnSet(WatchAt, rows)]
         /\ Totals(rows).plays \in Nat /\ Totals(rows).watch \in Nat
  <1> DEFINE f == [k \in rows |-> rollup[k].plays]
             g == [k \in rows |-> rollup[k].watch]
  <1>1. DOMAIN f = rows /\ DOMAIN g = rows
    OBVIOUS
  <1>2. \A k \in rows : f[k] = PlaysAt[k] /\ g[k] = WatchAt[k]
    BY RowsFinite
  <1>3. Totals(rows) = [plays |-> SumFunction(f), watch |-> SumFunction(g)]
    BY DEF Totals
  <1> HIDE DEF f, g
  <1>4. IsFiniteSet(rows)
    BY RowsFinite
  <1>5. SumFunctionOnSet(f, rows) = SumFunctionOnSet(PlaysAt, rows)
    BY <1>2, <1>4, SumEqual
  <1>6. SumFunctionOnSet(g, rows) = SumFunctionOnSet(WatchAt, rows)
    BY <1>2, <1>4, SumEqual
  <1>7. SumFunctionOnSet(PlaysAt, rows) \in Nat /\ SumFunctionOnSet(WatchAt, rows) \in Nat
    BY RowsFinite, SumType
  <1> QED BY <1>1, <1>3, <1>5, <1>6, <1>7 DEF SumFunction

\* Statistics that have each row in one part add up to the totals of all.
LEMMA StatsSum ==
  ASSUME TypeInv, RowsHavePlays, NEW rows \in SUBSET Rows,
         NEW D, IsFiniteSet(D), NEW h, \A k \in rows : h[k] \in D,
         NEW stats, DOMAIN stats = D,
         \A x \in D : stats[x] = Totals({k \in rows : h[k] = x})
  PROVE  Sum(stats) = Totals(rows)
  <1> DEFINE f == [x \in D |-> stats[x].plays]
             g == [x \in D |-> stats[x].watch]
             part == [x \in D |-> {k \in rows : h[k] = x}]
  <1>1. Sum(stats) = [plays |-> SumFunctionOnSet(f, D), watch |-> SumFunctionOnSet(g, D)]
    <2>1. DOMAIN f = D /\ DOMAIN g = D
      OBVIOUS
    <2>2. Sum(stats) = [plays |-> SumFunction(f), watch |-> SumFunction(g)]
      BY DEF Sum
    <2> HIDE DEF f, g
    <2> QED BY <2>1, <2>2 DEF SumFunction
  <1>2. \A x \in D : part[x] \in SUBSET rows /\ \A k \in rows : k \in part[x] <=> h[k] = x
    OBVIOUS
  <1>3. ASSUME NEW x \in D
        PROVE  /\ f[x] = SumFunctionOnSet(PlaysAt, part[x])
               /\ g[x] = SumFunctionOnSet(WatchAt, part[x])
    <2>1. stats[x] = Totals(part[x]) /\ f[x] = stats[x].plays /\ g[x] = stats[x].watch
      OBVIOUS
    <2> HIDE DEF part, f, g
    <2>2. part[x] \in SUBSET Rows
      BY <1>2
    <2>3. Totals(part[x]) = [plays |-> SumFunctionOnSet(PlaysAt, part[x]),
                             watch |-> SumFunctionOnSet(WatchAt, part[x])]
      BY <2>2, TotalsIs
    <2> QED BY <2>1, <2>3
  <1> HIDE DEF part, f, g
  <1>4. \A x \in D : f[x] = SumFunctionOnSet(PlaysAt, part[x])
    BY <1>3
  <1>5. \A x \in D : g[x] = SumFunctionOnSet(WatchAt, part[x])
    BY <1>3
  <1>6. IsFiniteSet(rows) /\ \A k \in rows : PlaysAt[k] \in Nat
    BY RowsFinite
  <1>7. \A k \in rows : WatchAt[k] \in Nat
    BY RowsFinite
  <1>8. SumFunctionOnSet(f, D) = SumFunctionOnSet(PlaysAt, rows)
    BY <1>2, <1>4, <1>6, SumParts
  <1>9. SumFunctionOnSet(g, D) = SumFunctionOnSet(WatchAt, rows)
    BY <1>2, <1>5, <1>6, <1>7, SumParts
  <1> QED BY <1>1, <1>8, <1>9, TotalsIs

\* A range of the picker is one that the API takes.
LEMMA PickedRange ==
  ASSUME NEW query \in DateRange
  PROVE  /\ Picked(query).from \in Nat /\ Picked(query).to \in Nat
         /\ Picked(query) # Invalid
  <1> DEFINE from == IF query.from <= query.to THEN query.from ELSE query.to
             to == IF query.from <= query.to THEN query.to ELSE query.from
             start == IF to - from + 1 > MaxRangeDays THEN to - (MaxRangeDays - 1) ELSE from
  <1>1. query.from \in Nat /\ query.to \in Nat /\ MaxRangeDays \in Nat \ {0}
    BY ReportingAssumption DEF DateRange
  <1>2. start \in Nat /\ to \in Nat /\ start <= to /\ to - start + 1 <= MaxRangeDays
    BY <1>1
  <1>3. clampRangeDays(query) = [from |-> start, to |-> to]
    BY DEF clampRangeDays
  <1> HIDE DEF start, to, from
  <1>4. Picked(query) = [from |-> start, to |-> to]
    BY <1>1, <1>2, <1>3 DEF Picked, parseRange
  <1>5. start # None
    BY <1>2, ReportingNoneAssumption
  <1> QED BY <1>2, <1>4, <1>5 DEF Invalid

\* The rows of a range.
LEMMA InRangeRows ==
  ASSUME NEW range
  PROVE  InRange(range) \in SUBSET Rows
  BY DEF InRange, Rows

\* Every row of a range is in the series on its day.
LEMMA SeriesSum ==
  ASSUME TypeInv, RowsHavePlays, NEW range, range.from \in Nat, range.to \in Nat
  PROVE  Sum(getWatchTimeSeries(range)) = Totals(InRange(range))
  <1> DEFINE rows == InRange(range)
             D == range.from .. range.to
             h == [k \in rows |-> k[1]]
             stats == getWatchTimeSeries(range)
  <1>0. IsFiniteSet(D)
    BY FS_Interval
  <1>1. rows \in SUBSET Rows
    BY InRangeRows
  <1>2. \A k \in Key : k[1] \in Nat
    BY ReportingAssumption DEF Key
  <1>3. \A k \in rows : h[k] \in D
    BY <1>2 DEF InRange
  <1>4. DOMAIN stats = D
    BY DEF getWatchTimeSeries
  <1>5. ASSUME NEW d \in D
        PROVE  stats[d] = Totals({k \in rows : h[k] = d})
    <2>1. InRange([from |-> d, to |-> d]) = {k \in rows : h[k] = d}
      BY <1>2 DEF InRange
    <2>2. stats[d] = Totals(InRange([from |-> d, to |-> d]))
      BY DEF getWatchTimeSeries
    <2> QED BY <2>1, <2>2
  <1> HIDE DEF rows, D, h, stats
  <1>6. Sum(stats) = Totals(rows)
    BY <1>0, <1>1, <1>3, <1>4, <1>5, StatsSum
  <1> QED BY <1>6 DEF stats, rows

\* ... with its user, if that is in the table ...
LEMMA UsersSum ==
  ASSUME TypeInv, RowsHavePlays, NEW range
  PROVE  Sum(getUserStats(range)) = Totals({k \in InRange(range) : k[2] \in known.users})
  <1> DEFINE rows == {k \in InRange(range) : k[2] \in known.users}
             h == [k \in rows |-> k[2]]
             stats == getUserStats(range)
  <1>1. rows \in SUBSET Rows /\ IsFiniteSet(known.users)
    <2>1. known.users \in SUBSET Users
      BY DEF TypeInv, TypeOK, CatalogueTypeOK, Reference
    <2> QED BY <2>1, InRangeRows, ReportingAssumption, FS_Subset
  <1>2. \A k \in rows : h[k] \in known.users
    OBVIOUS
  <1>3. DOMAIN stats = known.users
    BY DEF getUserStats
  <1>4. \A u \in known.users : stats[u] = Totals({k \in rows : h[k] = u})
    <2> SUFFICES ASSUME NEW u \in known.users
                 PROVE  stats[u] = Totals({k \in rows : h[k] = u})
      OBVIOUS
    <2>1. {k \in InRange(range) : k[2] = u} = {k \in rows : h[k] = u}
      OBVIOUS
    <2>2. stats[u] = Totals({k \in InRange(range) : k[2] = u})
      BY DEF getUserStats
    <2> QED BY <2>1, <2>2
  <1> HIDE DEF rows, h, stats
  <1>5. Sum(stats) = Totals(rows)
    BY <1>1, <1>2, <1>3, <1>4, StatsSum
  <1> QED BY <1>5 DEF stats, rows

\* ... and with its library, if that is.
LEMMA LibrariesSum ==
  ASSUME TypeInv, RowsHavePlays, NEW range
  PROVE  Sum(getLibraryStats(range))
           = Totals({k \in InRange(range) : rollup[k].library \in known.libraries})
  <1> DEFINE rows == {k \in InRange(range) : rollup[k].library \in known.libraries}
             h == [k \in rows |-> rollup[k].library]
             stats == getLibraryStats(range)
  <1>1. rows \in SUBSET Rows /\ IsFiniteSet(known.libraries)
    <2>1. known.libraries \in SUBSET Libraries
      BY DEF TypeInv, TypeOK, CatalogueTypeOK, Reference
    <2> QED BY <2>1, InRangeRows, ReportingAssumption, FS_Subset
  <1>2. \A k \in rows : h[k] \in known.libraries
    OBVIOUS
  <1>3. DOMAIN stats = known.libraries
    BY DEF getLibraryStats
  <1>4. \A l \in known.libraries : stats[l] = Totals({k \in rows : h[k] = l})
    <2> SUFFICES ASSUME NEW l \in known.libraries
                 PROVE  stats[l] = Totals({k \in rows : h[k] = l})
      OBVIOUS
    <2>1. {k \in InRange(range) : rollup[k].library = l} = {k \in rows : h[k] = l}
      OBVIOUS
    <2>2. stats[l] = Totals({k \in InRange(range) : rollup[k].library = l})
      BY DEF getLibraryStats
    <2> QED BY <2>1, <2>2
  <1> HIDE DEF rows, h, stats
  <1>5. Sum(stats) = Totals(rows)
    BY <1>1, <1>2, <1>3, <1>4, StatsSum
  <1> QED BY <1>5 DEF stats, rows

\* The items of a top list before it is cut, and the order it has them in.
Charted(rows) == [i \in {k[3] : k \in rows} |-> Totals({k \in rows : k[3] = i})]

Ahead(listed, i, j) ==
  \/ listed[i].watch > listed[j].watch
  \/ /\ listed[i].watch = listed[j].watch
     /\ NameRank[i] < NameRank[j]

\* getTopItems, with both.
LEMMA TopIs ==
  ASSUME NEW range, NEW library, NEW limit
  PROVE  LET listed == Charted(TopRows(range, library))
         IN  getTopItems(range, library, limit)
               = [i \in {i \in DOMAIN listed :
                           Cardinality({j \in DOMAIN listed : Ahead(listed, j, i)})
                             < clampLimit(limit)} |-> listed[i]]
  BY DEF getTopItems, Charted, Ahead

\* The list has finitely many items, each with its rank and its watch time.
LEMMA ChartedType ==
  ASSUME TypeInv, RowsHavePlays, NEW rows \in SUBSET Rows
  PROVE  /\ IsFiniteSet(DOMAIN Charted(rows))
         /\ DOMAIN Charted(rows) = {k[3] : k \in rows}
         /\ \A i \in DOMAIN Charted(rows) : /\ Charted(rows)[i].watch \in Nat
                                           /\ NameRank[i] \in Nat
  <1> DEFINE h == [k \in rows |-> k[3]]
             I == {h[k] : k \in rows}
  <1>1. IsFiniteSet(rows)
    BY RowsFinite
  <1>2. IsFiniteSet(I)
    <2> HIDE DEF h
    <2> QED BY <1>1, ImageFinite
  <1>3. DOMAIN Charted(rows) = {k[3] : k \in rows} /\ I = {k[3] : k \in rows}
    BY DEF Charted
  <1>4. ASSUME NEW i \in {k[3] : k \in rows}
        PROVE  Charted(rows)[i].watch \in Nat
    <2> DEFINE part == {k \in rows : k[3] = i}
    <2>1. part \in SUBSET Rows /\ Charted(rows)[i] = Totals(part)
      BY DEF Charted
    <2> HIDE DEF part
    <2> QED BY <2>1, TotalsIs
  <1>5. \A k \in rows : k[3] \in Items
    BY DEF Rows, Key
  <1> HIDE DEF I, h
  <1> QED BY <1>2, <1>3, <1>4, <1>5, ReportingAssumption

\* A limit the server does not change.
LEMMA LimitStays == ASSUME NEW n \in 1 .. MaxLimit PROVE clampLimit(n) = n
  BY ReportingAssumption, ReportingNoneAssumption DEF clampLimit

\* A list with room for all its items has all of them.
LEMMA TopHasAll ==
  ASSUME TypeInv, RowsHavePlays, NEW range, NEW library,
         Cardinality({k[3] : k \in TopRows(range, library)}) <= MaxLimit
  PROVE  getTopItems(range, library, MaxLimit) = Charted(TopRows(range, library))
  <1> DEFINE rows == TopRows(range, library)
             listed == Charted(rows)
             I == DOMAIN listed
             ahead(i) == {j \in I : Ahead(listed, j, i)}
  <1>1. rows \in SUBSET Rows
    BY DEF TopRows, InRange, Rows
  <1>2. /\ IsFiniteSet(I) /\ I = {k[3] : k \in rows}
        /\ \A i \in I : listed[i].watch \in Nat /\ NameRank[i] \in Nat
    <2> HIDE DEF rows
    <2> QED BY <1>1, ChartedType
  <1>3. MaxLimit \in Nat /\ clampLimit(MaxLimit) = MaxLimit
    BY LimitStays, ReportingAssumption
  <1>4. listed = [i \in I |-> listed[i]]
    BY DEF Charted
  <1>5. getTopItems(range, library, MaxLimit)
          = [i \in {i \in I : Cardinality(ahead(i)) < clampLimit(MaxLimit)} |-> listed[i]]
    BY TopIs
  <1>6. Cardinality(I) <= MaxLimit
    BY <1>2
  <1> HIDE DEF rows, listed, I
  <1>7. ASSUME NEW i \in I PROVE Cardinality(ahead(i)) < MaxLimit
    <2>1. ahead(i) \in SUBSET I /\ i \notin ahead(i)
      BY <1>2 DEF Ahead
    <2> HIDE DEF ahead
    <2>2. /\ Cardinality(ahead(i)) <= Cardinality(I)
          /\ Cardinality(ahead(i)) = Cardinality(I) => ahead(i) = I
          /\ IsFiniteSet(ahead(i))
      BY <2>1, <1>2, FS_Subset
    <2>3. Cardinality(ahead(i)) \in Nat /\ Cardinality(I) \in Nat
      BY <2>2, <1>2, FS_CardinalityType
    <2> QED BY <2>1, <2>2, <2>3, <1>3, <1>6
  <1>8. {i \in I : Cardinality(ahead(i)) < clampLimit(MaxLimit)} = I
    BY <1>3, <1>7
  <1> HIDE DEF ahead
  <1>9. getTopItems(range, library, MaxLimit) = listed
    BY <1>4, <1>5, <1>8
  <1> QED BY <1>9 DEF listed, rows

\* The items of a list have each of its rows.
LEMMA ChartedSum ==
  ASSUME TypeInv, RowsHavePlays, NEW rows \in SUBSET Rows
  PROVE  Sum(Charted(rows)) = Totals(rows)
  <1> DEFINE stats == Charted(rows)
             D == DOMAIN stats
             h == [k \in rows |-> k[3]]
  <1>1. IsFiniteSet(D) /\ D = {k[3] : k \in rows}
    BY ChartedType
  <1>2. \A k \in rows : h[k] \in D
    BY <1>1
  <1>3. \A i \in D : stats[i] = Totals({k \in rows : h[k] = i})
    <2> SUFFICES ASSUME NEW i \in D PROVE stats[i] = Totals({k \in rows : h[k] = i})
      OBVIOUS
    <2>1. {k \in rows : k[3] = i} = {k \in rows : h[k] = i}
      OBVIOUS
    <2>2. stats[i] = Totals({k \in rows : k[3] = i})
      BY <1>1 DEF Charted
    <2> QED BY <2>1, <2>2
  <1> HIDE DEF stats, h
  <1>4. Sum(stats) = Totals(rows)
    BY <1>1, <1>2, <1>3, StatsSum
  <1> QED BY <1>4 DEF stats

\* Nothing is longer watched than the first of a list.
LEMMA FirstIsFirst ==
  ASSUME TypeInv, RowsHavePlays, NEW range, NEW library, NEW limit,
         NEW i \in DOMAIN getTopItems(range, library, 1),
         NEW j \in DOMAIN getTopItems(range, library, limit)
  PROVE  getTopItems(range, library, limit)[j].watch
           <= getTopItems(range, library, 1)[i].watch
  <1> DEFINE rows == TopRows(range, library)
             listed == Charted(rows)
             I == DOMAIN listed
             ahead(x) == {y \in I : Ahead(listed, y, x)}
  <1>1. rows \in SUBSET Rows
    BY DEF TopRows, InRange, Rows
  <1>2. /\ IsFiniteSet(I)
        /\ \A x \in I : listed[x].watch \in Nat /\ NameRank[x] \in Nat
    <2> HIDE DEF rows
    <2> QED BY <1>1, ChartedType
  <1>3. clampLimit(1) = 1
    BY LimitStays, ReportingAssumption
  <1>4. /\ i \in I /\ Cardinality(ahead(i)) < 1
        /\ getTopItems(range, library, 1)[i] = listed[i]
    BY <1>3, TopIs
  <1>5. j \in I /\ getTopItems(range, library, limit)[j] = listed[j]
    BY TopIs
  <1> HIDE DEF rows, listed, I
  <1>6. ahead(i) = {}
    <2>1. ahead(i) \in SUBSET I
      OBVIOUS
    <2> HIDE DEF ahead
    <2>2. IsFiniteSet(ahead(i))
      BY <2>1, <1>2, FS_Subset
    <2>3. Cardinality(ahead(i)) = 0
      BY <2>2, <1>4, FS_CardinalityType
    <2> QED BY <2>2, <2>3, FS_EmptySet
  <1>7. ~(listed[j].watch > listed[i].watch)
    BY <1>5, <1>6 DEF Ahead
  <1> QED BY <1>2, <1>4, <1>5, <1>7

\* While nothing has drifted, the rollup has the plays of the sessions that are over,
\* for all users together and for any of them.
LEMMA EndedAgree ==
  ASSUME TypeInv, RowsHavePlays, DriftInv, NEW range, range.from \in Nat, range.to \in Nat,
         pending = None, \A k \in marked : k[1] \notin range.from .. range.to,
         NEW users
  PROVE  Cardinality(EndedIn(users, range))
           = Totals({k \in InRange(range) : k[2] \in users}).plays
  <1> DEFINE R == {k \in InRange(range) : k[2] \in users}
             A == {n \in Plays : /\ play[n] # None /\ play[n].ended
                                 /\ keyOf(n)[2] \in users
                                 /\ keyOf(n)[1] \in range.from .. range.to}
             h == [n \in A |-> keyOf(n)]
             part == [k \in R |-> {n \in A : h[n] = k}]
             ones == [n \in A |-> 1]
  <1>0. \A k \in Key : k[1] \in Nat
    BY ReportingAssumption DEF Key
  <1>1. R \in SUBSET Rows /\ \A k \in R : /\ k \in Key /\ k[1] \in range.from .. range.to
                                           /\ k[2] \in users
    BY <1>0 DEF InRange, Rows
  <1>2. IsFiniteSet(Plays) /\ \A n \in Plays : keyOf(n) \in Key
    BY ScriptType DEF TypeInv, TypeOK
  <1>3. IsFiniteSet(A)
    <2>1. A \in SUBSET Plays
      OBVIOUS
    <2> QED BY <1>2, <2>1, FS_Subset
  <1>4. \A k \in Key : k[1] \in range.from .. range.to
                       => PlaysIn(rollup[k]) = Cardinality(EndedOf(k))
    <2> SUFFICES ASSUME NEW k \in Key, k[1] \in range.from .. range.to
                 PROVE  PlaysIn(rollup[k]) = Cardinality(EndedOf(k))
      OBVIOUS
    <2>1. k \notin marked
      OBVIOUS
    <2>2. PlaysIn(rollup[k]) + PendingPlays(k) = Cardinality(EndedOf(k))
      BY <2>1 DEF DriftInv, Exact
    <2>3. PendingPlays(k) = 0
      BY DEF PendingPlays
    <2>4. PlaysIn(rollup[k]) \in Nat
      BY DEF PlaysIn, TypeInv, TypeOK, RollupRow
    <2> QED BY <2>2, <2>3, <2>4
  <1>5. \A n \in A : h[n] \in R
    <2> SUFFICES ASSUME NEW n \in A PROVE h[n] \in R
      OBVIOUS
    <2> DEFINE k == keyOf(n)
    <2>1. k \in Key /\ k[1] \in range.from .. range.to /\ k[2] \in users /\ h[n] = k
      BY <1>2
    <2>2. n \in EndedOf(k) /\ IsFiniteSet(EndedOf(k))
      BY WatchIsSum DEF EndedOf, PlaysOf, TypeInv, TypeOK
    <2>3. Cardinality(EndedOf(k)) # 0
      BY <2>2, FS_EmptySet
    <2> HIDE DEF k, h, A
    <2>4. rollup[k] # None
      BY <1>4, <2>1, <2>3 DEF PlaysIn
    <2> QED BY <2>1, <2>4 DEF InRange
  <1>6. ASSUME NEW k \in R
        PROVE  PlaysAt[k] = SumFunctionOnSet(ones, part[k])
    <2>1. EndedOf(k) = part[k] /\ part[k] \in SUBSET A
      BY <1>1 DEF EndedOf, PlaysOf
    <2>2. PlaysAt[k] = Cardinality(EndedOf(k))
      BY <1>1, <1>4 DEF PlaysAt
    <2>3. IsFiniteSet(EndedOf(k))
      BY WatchIsSum DEF TypeInv, TypeOK
    <2>4. \A n \in EndedOf(k) : ones[n] = 1
      BY <2>1
    <2> HIDE DEF ones, A, R, part
    <2>5. SumFunctionOnSet(ones, EndedOf(k)) = Cardinality(EndedOf(k))
      BY <2>3, <2>4, SumOnes
    <2> QED BY <2>1, <2>2, <2>5
  <1>7. \A n \in A : ones[n] = 1
    OBVIOUS
  <1>8. Cardinality(EndedIn(users, range)) = Cardinality(A)
    BY DEF EndedIn
  <1>7a. \A k \in R : part[k] \in SUBSET A /\ \A n \in A : n \in part[k] <=> h[n] = k
    OBVIOUS
  <1> HIDE DEF A, R, h, ones, part
  <1>9. IsFiniteSet(R) /\ Totals(R).plays = SumFunctionOnSet(PlaysAt, R)
    BY <1>1, RowsFinite, TotalsIs
  <1>10. SumFunctionOnSet(PlaysAt, R) = SumFunctionOnSet(ones, A)
    BY <1>3, <1>5, <1>6, <1>7, <1>9, <1>7a, SumParts
  <1>11. SumFunctionOnSet(ones, A) = Cardinality(A)
    BY <1>3, <1>7, SumOnes
  <1>12. Cardinality(EndedIn(users, range)) = Totals(R).plays
    BY <1>8, <1>9, <1>10, <1>11
  <1> QED BY <1>12 DEF R

\* The lists of a library and of all of them, where every item is listed.
LEMMA TopSums ==
  ASSUME TypeInv, RowsHavePlays, NEW range,
         \A k \in InRange(range) : item[k[3]] # None,
         Cardinality({k[3] : k \in InRange(range)}) <= MaxLimit
  PROVE  /\ Sum(getTopItems(range, None, MaxLimit)) = Totals(InRange(range))
         /\ \A l \in DOMAIN getLibraryStats(range) :
              Sum(getTopItems(range, l, MaxLimit)) = getLibraryStats(range)[l]
  <1> DEFINE rows == InRange(range)
  <1>1. rows \in SUBSET Rows
    BY InRangeRows
  <1>2. /\ IsFiniteSet({k[3] : k \in rows})
        /\ Cardinality({k[3] : k \in rows}) \in Nat
    <2> HIDE DEF rows
    <2>1. IsFiniteSet({k[3] : k \in rows})
      BY <1>1, ChartedType
    <2> QED BY <2>1, FS_CardinalityType
  <1>3. ASSUME NEW library, NEW part, part = TopRows(range, library)
        PROVE  Sum(getTopItems(range, library, MaxLimit)) = Totals(part)
    <2>1. part \in SUBSET rows
      BY <1>3 DEF TopRows
    <2>2. part \in SUBSET Rows
      BY <1>1, <2>1
    <2>3. {k[3] : k \in part} \in SUBSET {k[3] : k \in rows}
      BY <2>1
    <2>4. Cardinality({k[3] : k \in part}) <= Cardinality({k[3] : k \in rows})
          /\ IsFiniteSet({k[3] : k \in part})
      BY <1>2, <2>3, FS_Subset
    <2>5. Cardinality({k[3] : k \in part}) <= MaxLimit
      <3>1. Cardinality({k[3] : k \in part}) \in Nat /\ MaxLimit \in Nat
        BY <2>4, FS_CardinalityType, ReportingAssumption
      <3> QED BY <1>2, <2>4, <3>1
    <2>6. getTopItems(range, library, MaxLimit) = Charted(part)
      BY <1>3, <2>5, TopHasAll
    <2> QED BY <2>2, <2>6, ChartedSum
  <1>4. TopRows(range, None) = rows
    BY DEF TopRows
  <1>5. ASSUME NEW l \in DOMAIN getLibraryStats(range)
        PROVE  getLibraryStats(range)[l] = Totals(TopRows(range, l))
    <2>1. l \in Libraries /\ getLibraryStats(range)[l]
                               = Totals({k \in rows : rollup[k].library = l})
      BY DEF getLibraryStats, TypeInv, TypeOK, CatalogueTypeOK, Reference
    <2>2. l # None
      BY <2>1, CatalogueAssumption
    <2>3. TopRows(range, l) = {k \in rows : rollup[k].library = l}
      BY <2>2 DEF TopRows
    <2> QED BY <2>1, <2>3
  <1> QED BY <1>3, <1>4, <1>5

\* All of it, for one range.
LEMMA FiguresHold == TypeInv /\ RowsHavePlays /\ DriftInv => FiguresAgree
  <1> SUFFICES ASSUME TypeInv, RowsHavePlays, DriftInv, NEW query \in DateRange
               PROVE  AgreeOn(Picked(query))
    BY DEF FiguresAgree
  <1> DEFINE range == Picked(query)
  <1>1. range.from \in Nat /\ range.to \in Nat /\ range # Invalid
    BY PickedRange
  <1> HIDE DEF range
  <1>2. /\ getOverview(range).totals = Totals(InRange(range))
        /\ getOverview(range).activeUsers = {k[2] : k \in InRange(range)}
    BY DEF getOverview
  <1>3. Sum(getWatchTimeSeries(range)) = Totals(InRange(range))
    BY <1>1, SeriesSum
  <1>4. /\ Sum(getUserStats(range)) = Totals({k \in InRange(range) : k[2] \in known.users})
        /\ {k[2] : k \in InRange(range)} \subseteq known.users
             => Sum(getUserStats(range)) = Totals(InRange(range))
    <2>1. Sum(getUserStats(range)) = Totals({k \in InRange(range) : k[2] \in known.users})
      BY UsersSum
    <2>2. {k[2] : k \in InRange(range)} \subseteq known.users
            => {k \in InRange(range) : k[2] \in known.users} = InRange(range)
      OBVIOUS
    <2> QED BY <2>1, <2>2
  <1>5. Sum(getLibraryStats(range))
          = Totals({k \in InRange(range) : rollup[k].library \in known.libraries})
    BY LibrariesSum
  <1>6. /\ \A k \in InRange(range) : item[k[3]] # None
        /\ Cardinality({k[3] : k \in InRange(range)}) <= MaxLimit
        => /\ Sum(getTopItems(range, None, MaxLimit)) = Totals(InRange(range))
           /\ \A l \in DOMAIN getLibraryStats(range) :
                Sum(getTopItems(range, l, MaxLimit)) = getLibraryStats(range)[l]
    BY TopSums
  <1>7. \A i \in DOMAIN getTopItems(range, None, 1),
           j \in DOMAIN getTopItems(range, None, MaxLimit) :
          getTopItems(range, None, MaxLimit)[j].watch <= getTopItems(range, None, 1)[i].watch
    BY FirstIsFirst
  <1>8. ASSUME pending = None, \A k \in marked : k[1] \notin range.from .. range.to,
               NEW u \in DOMAIN getUserStats(range)
        PROVE  devicePlays(u, range) = getUserStats(range)[u].plays
    <2>1. getUserStats(range)[u] = Totals({k \in InRange(range) : k[2] = u})
      BY DEF getUserStats
    <2>2. devicePlays(u, range) = Totals({k \in InRange(range) : k[2] \in {u}}).plays
      BY <1>1, <1>8, EndedAgree DEF devicePlays
    <2>3. {k \in InRange(range) : k[2] \in {u}} = {k \in InRange(range) : k[2] = u}
      OBVIOUS
    <2> QED BY <2>1, <2>2, <2>3
  <1>9. ASSUME pending = None, \A k \in marked : k[1] \notin range.from .. range.to
        PROVE  Totals(InRange(range)).plays = Cardinality(EndedIn(Users, range))
    <2>1. {k \in InRange(range) : k[2] \in Users} = InRange(range)
      BY DEF InRange, Key
    <2> QED BY <1>1, <1>9, <2>1, EndedAgree
  <1>10. AgreeOn(range)
    BY <1>1, <1>2, <1>3, <1>4, <1>5, <1>6, <1>7, <1>8, <1>9 DEF AgreeOn
  <1> QED BY <1>10 DEF range

\* The figures of the dashboards agree with each other in every state, whatever poll,
\* backfill and sync are half way through, for every range of the picker, and
\* whichever users and libraries have not reached their tables yet (stats.ts, range.ts).
THEOREM FiguresAlwaysAgree == Spec => [](FiguresAgree /\ StatsAgree)
  <1>1. Init => TableInv /\ DriftInv
    BY TableInit, DriftInit
  <1>2. TableInv /\ DriftInv /\ [Next]_vars => (TableInv /\ DriftInv)'
    BY TableStep, DriftStep DEF TableInv
  <1>3. TableInv /\ DriftInv => FiguresAgree /\ StatsAgree
    BY FiguresHold DEF TableInv, StatsAgree
  <1> QED BY <1>1, <1>2, <1>3, PTL DEF Spec

-----------------------------------------------------------------------------
(* The history: positions in a list that grows.                             *)

\* How many of M come before n on the screen, the newest first.
Before(n, M) == Cardinality({m \in M : m > n})

\* A position in a list.
LEMMA BeforeType ==
  ASSUME NEW M, IsFiniteSet(M), M \subseteq Nat, NEW n
  PROVE  Before(n, M) \in Nat /\ (n \in M => Before(n, M) < Cardinality(M))
  <1> DEFINE A == {m \in M : m > n}
  <1>1. A \in SUBSET M
    OBVIOUS
  <1>2. IsFiniteSet(A) /\ Cardinality(A) \in Nat /\ Cardinality(M) \in Nat
        /\ Cardinality(A) <= Cardinality(M) /\ (Cardinality(M) = Cardinality(A) => A = M)
    BY <1>1, FS_Subset, FS_CardinalityType
  <1>3. n \in M => A # M
    OBVIOUS
  <1> QED BY <1>2, <1>3 DEF Before

\* A list that grows only moves its members back.
LEMMA BeforeGrows ==
  ASSUME NEW N, IsFiniteSet(N), NEW M \in SUBSET N, NEW n
  PROVE  Before(n, M) \in Nat /\ Before(n, N) \in Nat /\ Before(n, M) <= Before(n, N)
  <1> DEFINE A == {m \in M : m > n}
             B == {m \in N : m > n}
  <1>1. A \in SUBSET B /\ B \in SUBSET N
    OBVIOUS
  <1>2. IsFiniteSet(B)
    BY <1>1, FS_Subset
  <1>3. IsFiniteSet(A) /\ Cardinality(A) <= Cardinality(B)
    BY <1>1, <1>2, FS_Subset
  <1> QED BY <1>2, <1>3, FS_CardinalityType DEF Before

\* No two members have the same position.
LEMMA BeforeFalls ==
  ASSUME NEW M, IsFiniteSet(M), M \subseteq Nat, NEW m \in M, NEW n \in M, m < n
  PROVE  Before(n, M) < Before(m, M)
  <1> DEFINE A == {x \in M : x > n}
             B == {x \in M : x > m}
  <1>0. m \in Nat /\ n \in Nat /\ \A x \in M : x \in Nat
    OBVIOUS
  <1>1. A \in SUBSET B /\ n \in B /\ n \notin A /\ B \in SUBSET M
    <2>1. \A x \in M : x > n => x > m
      <3>1. \A x \in Nat : x > n => x > m
        BY <1>0
      <3> QED BY <1>0, <3>1
    <2>2. n > m /\ ~(n > n)
      BY <1>0
    <2> QED BY <1>0, <2>1, <2>2
  <1>2. IsFiniteSet(B)
    BY <1>1, FS_Subset
  <1>3. /\ IsFiniteSet(A) /\ Cardinality(A) <= Cardinality(B)
        /\ (Cardinality(B) = Cardinality(A) => B = A)
    BY <1>1, <1>2, FS_Subset
  <1>4. Cardinality(A) \in Nat /\ Cardinality(B) \in Nat
    BY <1>2, <1>3, FS_CardinalityType
  <1> QED BY <1>1, <1>3, <1>4 DEF Before

\* A slice is no longer than it was asked to be, and lies within what it is of.
LEMMA SliceFits ==
  ASSUME NEW M, IsFiniteSet(M), M \subseteq Nat, NEW lo \in Nat, NEW size \in Nat,
         NEW S, S = {n \in M : lo <= Before(n, M) /\ Before(n, M) < lo + size}
  PROVE  /\ Cardinality(S) \in Nat
         /\ S # {} => Cardinality(S) <= size /\ lo + Cardinality(S) <= Cardinality(M)
  <1>1. S \in SUBSET M
    OBVIOUS
  <1>2. IsFiniteSet(S) /\ Cardinality(S) \in Nat /\ Cardinality(M) \in Nat
    BY <1>1, FS_Subset, FS_CardinalityType
  <1>3. ASSUME S # {}
        PROVE  Cardinality(S) <= size /\ lo + Cardinality(S) <= Cardinality(M)
    <2> DEFINE hi == IF lo + size <= Cardinality(M) THEN lo + size - 1 ELSE Cardinality(M) - 1
               T == lo .. hi
               r == [n \in S |-> Before(n, M)]
    <2>0. \A n \in S : /\ Before(n, M) \in Nat /\ Before(n, M) < Cardinality(M)
                        /\ lo <= Before(n, M) /\ Before(n, M) < lo + size
      BY BeforeType
    <2>1. \A n \in S : Before(n, M) \in T
      <3> SUFFICES ASSUME NEW n \in S PROVE Before(n, M) \in T
        OBVIOUS
      <3> DEFINE b == Before(n, M)
      <3>1. b \in Nat /\ b < Cardinality(M) /\ lo <= b /\ b < lo + size
        BY <2>0
      <3> HIDE DEF b
      <3>2. b \in T
        BY <1>2, <3>1
      <3> QED BY <3>2 DEF b
    <2>2. lo <= hi /\ hi \in Nat
      <3>1. PICK n \in S : TRUE
        BY <1>3
      <3> DEFINE b == Before(n, M)
      <3>2. b \in Nat /\ b < Cardinality(M) /\ lo <= b /\ b < lo + size
        BY <2>0, <3>1
      <3> HIDE DEF b
      <3> QED BY <1>2, <3>2
    <2>3. r \in Injection(S, T)
      <3>1. \A m \in S, n \in S : r[m] = r[n] => m = n
        <4> SUFFICES ASSUME NEW m \in S, NEW n \in S, m < n PROVE r[m] # r[n]
          OBVIOUS
        <4>1. Before(n, M) < Before(m, M)
          BY BeforeFalls
        <4>2. Before(n, M) \in Nat /\ Before(m, M) \in Nat
          BY BeforeType
        <4> QED BY <4>1, <4>2
      <3>2. r \in [S -> T]
        BY <2>1
      <3> HIDE DEF r, T
      <3> QED BY <3>1, <3>2 DEF Injection, IsInjective
    <2> HIDE DEF hi
    <2>4. IsFiniteSet(T) /\ Cardinality(T) = hi - lo + 1
      BY <2>2, FS_Interval
    <2> HIDE DEF T, r
    <2>5. Cardinality(S) <= Cardinality(T)
      BY <2>3, <2>4, FS_Injection
    <2>6. hi <= lo + size - 1 /\ hi <= Cardinality(M) - 1
      BY <1>2 DEF hi
    <2> QED BY <1>2, <2>2, <2>4, <2>5, <2>6
  <1> QED BY <1>2, <1>3

\* The plays of a filter are taken from it only by a sync that moves their item.
FilterStays(filter) == filter \notin Libraries \/ budget.syncs = {}

\* Where no sync may begin, none runs.
IdleInv == budget.syncs = {} => sync.stage = "idle"

\* None runs at first.
LEMMA IdleInit == Init => IdleInv
  BY NoSyncType DEF Init, CatalogueInit, IdleInv

\* ... nor later, so that no item is moved or archived.
LEMMA IdleStep ==
  ASSUME TypeInv, IdleInv, [Next]_vars
  PROVE  /\ IdleInv'
         /\ budget.syncs = {} => item' = item
         /\ budget'.syncs = budget.syncs
  <1>1. budget'.syncs = budget.syncs
    BY Spending, BudgetStep DEF TypeInv, TypeOK
  <1>2. budget.syncs = {} => sync'.stage = "idle" /\ item' = item
    BY NoSyncType DEF IdleInv, Next, SyncStep, vars, catalogue, Change, CreateUser,
       RemoveUser, CreateLibrary, Move, BeginSync, HearReference, upsertUsers,
       upsertLibraries, HearFolders, HearLibrary, CollectItems, WriteChunk,
       archiveMissingItems, SyncFails, BeginRebuild, DeltaIsLost, RollBack, SetFilter
  <1> QED BY <1>1, <1>2 DEF IdleInv

\* The plays of a filter are finitely many after a step.
LEMMA MatchingNext ==
  ASSUME TypeInv, [Next]_vars, NEW filter
  PROVE  /\ Matching(filter)' \subseteq Plays
         /\ IsFiniteSet(Matching(filter)')
         /\ Matching(filter)' \subseteq Nat
         /\ Cardinality(Matching(filter)') \in Nat
  <1>1. Matching(filter)' \in SUBSET Plays
    BY KeyStays DEF Matching
  <1>2. IsFiniteSet(Plays) /\ Plays \subseteq Nat
    BY ScriptType DEF TypeInv, TypeOK
  <1> QED BY <1>1, <1>2, FS_Subset, FS_CardinalityType

\* They only grow, unless a sync moves an item.
LEMMA MatchingGrows ==
  ASSUME TypeInv, IdleInv, [Next]_vars, NEW filter, FilterStays(filter)
  PROVE  Matching(filter) \subseteq Matching(filter)'
  <1> SUFFICES ASSUME NEW n \in Matching(filter) PROVE n \in Matching(filter)'
    OBVIOUS
  <1>1. n \in Plays' /\ keyOf(n)' = keyOf(n)
    BY KeyStays DEF Matching
  <1>2. play'[n] # None /\ play'[n].watch > 0
    <2>1. play[n] # None /\ play[n] \in Row /\ play[n].watch > 0
      BY DEF Matching, TypeInv, TypeOK
    <2>2. play'[n] # None /\ play'[n] \in Row /\ play[n].watch <= play'[n].watch
      BY <2>1, RowsStay DEF Matching
    <2> QED BY <2>1, <2>2 DEF Row
  <1>3. filter \in {None, keyOf(n)[2], libraryOf(keyOf(n)[3])}
    BY DEF Matching
  <1>4. filter = None \/ filter = keyOf(n)[2] \/ libraryOf(keyOf(n)[3])' = libraryOf(keyOf(n)[3])
    <2>1. keyOf(n)[3] \in Items
      BY ScriptType DEF TypeInv, TypeOK, Matching
    <2>2. libraryOf(keyOf(n)[3]) \in Libraries \cup {None}
      BY <2>1 DEF libraryOf, TypeInv, TypeOK, CatalogueTypeOK, ItemRow
    <2>3. CASE filter \notin Libraries
      BY <1>3, <2>2, <2>3
    <2>4. CASE budget.syncs = {}
      BY <1>1, <2>4, IdleStep DEF libraryOf
    <2> QED BY <2>3, <2>4 DEF FilterStays
  <1> QED BY <1>1, <1>2, <1>3, <1>4 DEF Matching

-----------------------------------------------------------------------------
(* The history: the pages.                                                  *)

\* Rows that are shown as page `number` of `total`.
Fits(number, rows, total) ==
  rows # {} => /\ Cardinality(rows) <= PageSize
               /\ (number - 1) * PageSize + Cardinality(rows) <= total

\* What is on the screen, what is on its way to it and what is kept for it fits the
\* total it is shown with.
TotalInv ==
  /\ FilterStays(page.filter) =>
       /\ page.stage = "fetched" =>
            Fits(page.number, page.fetched, Cardinality(Matching(page.filter)))
       /\ page.stage = "shown" => Fits(page.number, page.rows, page.total)
  /\ \A k \in page.kept : FilterStays(k.filter) => Fits(k.number, k.rows, k.total)

\* The plays of `due` that come before the end of page `number` are in `shown`.
Covers(M, due, number, shown) ==
  \A n \in due : Before(n, M) < number * PageSize => n \in shown

\* Page `number` and those before it have been shown, and at the end of the list all
\* of `due` has.
Done(M, due, number, total, shown) ==
  /\ Covers(M, due, number, shown)
  /\ total <= number * PageSize => due \subseteq shown

\* The pages up to the one on the screen have been shown, and so have those up to any
\* that is kept since the filter was set.
Followed(M, p) ==
  /\ p.due \subseteq M
  /\ p.stage \in {"asked", "fetched"} => Covers(M, p.due, p.number - 1, p.seen)
  /\ p.stage = "fetched" => Covers(M, p.due, p.number, p.seen \cup p.fetched)
  /\ p.stage = "shown" => Done(M, p.due, p.number, p.total, p.seen)
  /\ \A k \in p.kept : k.recent /\ k.filter = p.filter =>
       Done(M, p.due, k.number, k.total, p.seen)

SkipInv ==
  page.stage # "closed" /\ FilterStays(page.filter) /\ ~page.old =>
    Followed(Matching(page.filter), page)

\* What was shown up to a page is shown up to any page before it, of any longer list.
LEMMA CoversStays ==
  ASSUME NEW N, IsFiniteSet(N), NEW M \in SUBSET N, NEW due, NEW p \in Int, NEW q \in Int,
         q <= p, NEW shown, NEW more, shown \subseteq more, Covers(M, due, p, shown)
  PROVE  Covers(N, due, q, more)
  <1> SUFFICES ASSUME NEW n \in due, Before(n, N) < q * PageSize PROVE n \in shown
    BY DEF Covers
  <1>1. Before(n, M) \in Nat /\ Before(n, N) \in Nat /\ Before(n, M) <= Before(n, N)
    BY BeforeGrows
  <1>2. PageSize \in Nat
    BY ReportingAssumption
  <1>3. q * PageSize <= p * PageSize /\ q * PageSize \in Int /\ p * PageSize \in Int
    <2>1. \A a, b \in Int, c \in Nat : a <= b => a * c <= b * c
      OBVIOUS
    <2> QED BY <1>2, <2>1
  <1> QED BY <1>1, <1>3 DEF Covers

\* The server does not cut the page size of the screen.
LEMMA PageSizes ==
  /\ PageSize \in Nat \ {0} /\ clampLimit(PageSize) = PageSize
  /\ \A p \in Nat \ {0} : /\ (p - 1) * PageSize \in Nat /\ p * PageSize \in Nat
                          /\ (p - 1) * PageSize + PageSize = p * PageSize
  <1>1. PageSize \in Nat \ {0} /\ PageSize <= MaxLimit /\ MaxLimit \in Nat
    BY ReportingAssumption
  <1>2. PageSize # None
    BY <1>1, ReportingNoneAssumption
  <1>3. \A p, s \in Nat \ {0} : /\ (p - 1) * s \in Nat /\ p * s \in Nat
                                /\ (p - 1) * s + s = p * s
    OBVIOUS
  <1> QED BY <1>1, <1>2, <1>3 DEF clampLimit

\* The rows of a page, of what they are taken from.
LEMMA SliceCovers ==
  ASSUME page \in PageState, NEW M, IsFiniteSet(M), M \subseteq Nat
  PROVE  /\ Fits(page.number, Slice(M), Cardinality(M))
         /\ \A n \in M : Before(n, M) < page.number * PageSize =>
              Before(n, M) < (page.number - 1) * PageSize \/ n \in Slice(M)
  <1> DEFINE lo == (page.number - 1) * PageSize
             S == Slice(M)
  <1>1. page.number \in Nat \ {0}
    BY DEF PageState
  <1>2. lo \in Nat /\ lo + PageSize = page.number * PageSize
    BY <1>1, PageSizes
  <1>3. S = {n \in M : lo <= Before(n, M) /\ Before(n, M) < lo + PageSize}
    BY PageSizes DEF Slice, Offset, Before
  <1> HIDE DEF lo, S
  <1>4. S # {} => Cardinality(S) <= PageSize /\ lo + Cardinality(S) <= Cardinality(M)
    BY <1>2, <1>3, PageSizes, SliceFits
  <1>5. Fits(page.number, S, Cardinality(M))
    BY <1>4 DEF Fits, lo
  <1>6. ASSUME NEW n \in M, Before(n, M) < page.number * PageSize, n \notin S
        PROVE  Before(n, M) < lo
    <2>1. Before(n, M) \in Nat
      BY BeforeType
    <2> QED BY <1>2, <1>3, <1>6, <2>1
  <1> QED BY <1>5, <1>6 DEF lo, S

\* What Open does to each field.
LEMMA OpenShape ==
  ASSUME NEW p \in PageState, Open(p)
  PROVE  /\ page'.filter = p.filter /\ page'.number = p.number
         /\ page'.due = p.due /\ page'.kept = p.kept
         /\ \/ page'.stage = "asked" /\ page'.seen = p.seen /\ page'.old = p.old
            \/ \E k \in p.kept :
                 /\ k.filter = p.filter /\ k.number = p.number
                 /\ page'.stage = "shown" /\ page'.rows = k.rows /\ page'.total = k.total
                 /\ page'.seen = p.seen \cup k.rows
                 /\ page'.old = (p.old \/ ~k.recent)
  <1>1. CASE page' = [p EXCEPT !.stage = "asked"]
    BY <1>1 DEF PageState
  <1>2. ASSUME NEW k \in p.kept, k.filter = p.filter, k.number = p.number,
               page' = [p EXCEPT !.stage = "shown", !.rows = k.rows, !.total = k.total,
                                 !.seen = @ \cup k.rows, !.old = @ \/ ~k.recent]
        PROVE  /\ page'.filter = p.filter /\ page'.number = p.number
               /\ page'.due = p.due /\ page'.kept = p.kept
               /\ page'.stage = "shown" /\ page'.rows = k.rows /\ page'.total = k.total
               /\ page'.seen = p.seen \cup k.rows
               /\ page'.old = (p.old \/ ~k.recent)
    BY <1>2 DEF PageState
  <1> QED BY <1>1, <1>2 DEF Open

\* The screen's answer, once its count has come.
LEMMA AnsweredShape ==
  ASSUME page \in PageState, NEW total \in Nat, page' = Answered(total)
  PROVE  /\ page'.stage = "shown" /\ page'.filter = page.filter /\ page'.number = page.number
         /\ page'.rows = page.fetched /\ page'.total = total /\ page'.due = page.due
         /\ page'.seen = page.seen \cup page.fetched /\ page'.old = page.old
         /\ page'.kept = {k \in page.kept : k.filter # page.filter \/ k.number # page.number}
              \cup {[filter |-> page.filter, number |-> page.number,
                     rows |-> page.fetched, total |-> total, recent |-> TRUE]}
  <1> DEFINE kept == {k \in page.kept : k.filter # page.filter \/ k.number # page.number}
              \cup {[filter |-> page.filter, number |-> page.number,
                     rows |-> page.fetched, total |-> total, recent |-> TRUE]}
  <1>1. page' = [page EXCEPT !.stage = "shown", !.rows = page.fetched, !.total = total,
                  !.fetched = {}, !.seen = page.seen \cup page.fetched, !.kept = kept]
    BY DEF Answered
  <1> HIDE DEF kept
  <1>2. /\ page'.stage = "shown" /\ page'.filter = page.filter /\ page'.number = page.number
        /\ page'.rows = page.fetched /\ page'.total = total /\ page'.due = page.due
        /\ page'.seen = page.seen \cup page.fetched /\ page'.old = page.old
        /\ page'.kept = kept
    BY <1>1 DEF PageState
  <1> QED BY <1>2 DEF kept

\* What SetFilter opens: the first page of a filter, with answers from before.
LEMMA SetFilterShape ==
  ASSUME TypeInv, NEW filter \in Filter, SetFilter(filter)
  PROVE  \E p \in PageState :
           /\ Open(p)
           /\ p.filter = filter /\ p.number = 1 /\ p.due = Matching(filter)
           /\ p.seen = {} /\ p.kept = Aged /\ ~p.old
  <1> DEFINE p == [NoPage EXCEPT !.filter = filter, !.due = Matching(filter), !.kept = Aged]
  <1>1. Matching(filter) \in SUBSET Plays /\ Aged \in SUBSET KeptAnswer
    BY MatchingType, AgedType DEF TypeInv, TypeOK
  <1>2. p \in PageState
    BY <1>1, NoPageType DEF PageState
  <1>3. p.filter = filter /\ p.number = 1 /\ p.due = Matching(filter)
        /\ p.seen = {} /\ p.kept = Aged /\ ~p.old
    BY DEF NoPage
  <1>4. Open(p)
    BY DEF SetFilter
  <1> HIDE DEF p
  <1> QED BY <1>2, <1>3, <1>4

\* What TurnPage opens: another page of the same list.
LEMMA TurnShape ==
  ASSUME TypeInv, NEW to \in 0 .. Cardinality(Plays) + 1, TurnPage(to)
  PROVE  \E p \in PageState :
           /\ Open(p)
           /\ p.filter = page.filter /\ p.number = to /\ p.due = page.due
           /\ p.seen = page.seen /\ p.kept = page.kept /\ p.old = page.old
  <1>1. page \in PageState
    BY DEF TypeInv, TypeOK
  <1>2. to \in Nat \ {0}
    BY <1>1 DEF TurnPage, PageState
  <1> DEFINE p == [page EXCEPT !.number = to]
  <1>3. p \in PageState /\ p.filter = page.filter /\ p.number = to /\ p.due = page.due
        /\ p.seen = page.seen /\ p.kept = page.kept /\ p.old = page.old
    BY <1>1, <1>2 DEF PageState
  <1>4. Open(p)
    BY DEF TurnPage
  <1> HIDE DEF p
  <1> QED BY <1>3, <1>4

\* An answer from before is what it was.
LEMMA AgedShape ==
  ASSUME page \in PageState
  PROVE  \A k \in Aged : ~k.recent /\ \E j \in page.kept : /\ j.filter = k.filter
                                        /\ j.number = k.number
                                        /\ j.rows = k.rows /\ j.total = k.total
  <1> SUFFICES ASSUME NEW j \in page.kept
               PROVE  LET k == [j EXCEPT !.recent = FALSE]
                      IN  /\ ~k.recent /\ j.filter = k.filter /\ j.number = k.number
                          /\ j.rows = k.rows /\ j.total = k.total
    BY DEF Aged
  <1>1. j \in KeptAnswer
    BY DEF PageState
  <1> QED BY <1>1 DEF KeptAnswer

\* What one step does to the page.
LEMMA PageStep ==
  ASSUME TypeInv, [Next]_vars
  PROVE  \/ page' = page
         \/ \E filter \in Filter : SetFilter(filter)
         \/ ReadRows \/ CountRows \/ Refetch
         \/ \E to \in 0 .. Cardinality(Plays) + 1 : TurnPage(to)
  BY DEF Next, vars, reporting, Start, Credit, End, applyRollupDelta, DeltaIsLost,
           BeginRebuild, Rebuilding, InsertRebuilt, CommitRebuild, RollBack

\* Which filters are safe from syncs does not change.
LEMMA FilterStaysNext ==
  ASSUME TypeInv, IdleInv, [Next]_vars
  PROVE  \A filter : FilterStays(filter)' <=> FilterStays(filter)
  BY IdleStep DEF FilterStays

\* A page fits a longer list.
LEMMA FitsMore ==
  ASSUME NEW number, NEW rows, NEW total \in Nat, NEW more \in Nat, total <= more,
         IsFiniteSet(rows), number \in Nat \ {0}, Fits(number, rows, total)
  PROVE  Fits(number, rows, more)
  <1>1. Cardinality(rows) \in Nat /\ (number - 1) * PageSize \in Nat
    BY PageSizes, FS_CardinalityType
  <1> DEFINE x == (number - 1) * PageSize
  <1> HIDE DEF x
  <1>2. x \in Nat /\ (rows # {} => x + Cardinality(rows) <= total)
    BY <1>1 DEF x, Fits
  <1>3. rows # {} => x + Cardinality(rows) <= more
    BY <1>1, <1>2
  <1> QED BY <1>3 DEF x, Fits

\* Every answer that is kept fits the total it came with.
LEMMA KeptFits ==
  ASSUME TypeInv, IdleInv, TotalInv, [Next]_vars
  PROVE  \A k \in page'.kept : FilterStays(k.filter) => Fits(k.number, k.rows, k.total)
  <1>0. page \in PageState
    BY DEF TypeInv, TypeOK
  <1>1. CASE page'.kept = page.kept
    BY <1>1 DEF TotalInv
  <1>2. CASE page'.kept = Aged
    BY <1>0, <1>2, AgedShape DEF TotalInv
  <1>3. CASE CountRows
    <2>1. Cardinality(Matching(page.filter)) \in Nat
      BY MatchingType DEF TypeInv
    <2>2. page' = Answered(Cardinality(Matching(page.filter))) /\ page.stage = "fetched"
      BY <1>3 DEF CountRows
    <2>3. page'.kept = {k \in page.kept : k.filter # page.filter \/ k.number # page.number}
              \cup {[filter |-> page.filter, number |-> page.number, rows |-> page.fetched,
                     total |-> Cardinality(Matching(page.filter)), recent |-> TRUE]}
      BY <1>0, <2>1, <2>2, AnsweredShape
    <2> QED BY <2>2, <2>3 DEF TotalInv
  <1>4. CASE ReadRows \/ Refetch
    BY <1>0, <1>1, <1>4 DEF ReadRows, Refetch, PageState
  <1>5. CASE \E filter \in Filter : SetFilter(filter)
    BY <1>2, <1>5, SetFilterShape, OpenShape
  <1>6. CASE \E to \in 0 .. Cardinality(Plays) + 1 : TurnPage(to)
    BY <1>1, <1>6, TurnShape, OpenShape
  <1> QED BY <1>1, <1>3, <1>4, <1>5, <1>6, PageStep

\* A page that opens is asked for, or fits as it did when it was kept.
LEMMA OpenFits ==
  ASSUME NEW p \in PageState, Open(p), FilterStays(p.filter),
         \A k \in p.kept : FilterStays(k.filter) => Fits(k.number, k.rows, k.total)
  PROVE  /\ page'.stage # "fetched"
         /\ page'.stage = "shown" => Fits(page'.number, page'.rows, page'.total)
  BY OpenShape

\* Every step keeps what is shown within its total.
LEMMA TotalStep ==
  ASSUME TypeInv, IdleInv, TotalInv, [Next]_vars
  PROVE  TotalInv'
  <1>0. page \in PageState
    BY DEF TypeInv, TypeOK
  <1>1. \A filter : FilterStays(filter)' <=> FilterStays(filter)
    BY FilterStaysNext
  <1>2. ASSUME NEW c, c = page'.filter, FilterStays(c), page'.stage = "fetched"
        PROVE  Fits(page'.number, page'.fetched, Cardinality(Matching(c)'))
    <2> DEFINE M == Matching(c)
               N == Matching(c)'
    <2>0. M \in SUBSET N /\ IsFiniteSet(N) /\ IsFiniteSet(M) /\ M \subseteq Nat
      <3>1. M \in SUBSET N /\ IsFiniteSet(N) /\ N \subseteq Nat
        BY <1>2, MatchingGrows, MatchingNext
      <3> HIDE DEF M, N
      <3> QED BY <3>1, FS_Subset
    <2>a. Cardinality(M) \in Nat /\ Cardinality(N) \in Nat /\ Cardinality(M) <= Cardinality(N)
      <3> HIDE DEF M, N
      <3> QED BY <2>0, FS_Subset, FS_CardinalityType
    <2>1. CASE page' = page
      <3>3. Fits(page.number, page.fetched, Cardinality(M))
        BY <1>2, <2>1 DEF TotalInv
      <3>4. IsFiniteSet(page.fetched) /\ page.number \in Nat \ {0}
        <4>1. page.fetched \in SUBSET Plays /\ page.number \in Nat \ {0}
          BY <1>0 DEF PageState
        <4> QED BY <4>1, ScriptType, FS_Subset DEF TypeInv, TypeOK
      <3> HIDE DEF M, N
      <3>5. Fits(page.number, page.fetched, Cardinality(N))
        BY <2>a, <3>3, <3>4, FitsMore
      <3> QED BY <2>1, <3>5 DEF N
    <2>2. CASE ReadRows
      <3>1. page'.filter = page.filter /\ page'.number = page.number
        BY <1>0, <2>2 DEF ReadRows, PageState
      <3>2. page'.fetched = Slice(M)
        BY <1>0, <1>2, <2>2, <3>1 DEF ReadRows, PageState
      <3>3. page.number \in Nat \ {0}
        BY <1>0 DEF PageState
      <3> DEFINE R == Slice(M)
      <3>4. Fits(page.number, R, Cardinality(M))
        <4> HIDE DEF M
        <4> QED BY <1>0, <2>0, SliceCovers
      <3>5. IsFiniteSet(R)
        <4>1. R \in SUBSET M
          BY DEF Slice
        <4> HIDE DEF R, M
        <4> QED BY <2>0, <4>1, FS_Subset
      <3> HIDE DEF M, N, R
      <3>6. Fits(page.number, R, Cardinality(N))
        BY <2>a, <3>3, <3>4, <3>5, FitsMore
      <3> QED BY <3>1, <3>2, <3>6 DEF N, R
    <2>3. CASE CountRows
      <3>1. page'.stage = "shown"
        BY <1>0, <2>3, AnsweredShape, MatchingType DEF CountRows, TypeInv
      <3> QED BY <1>2, <3>1
    <2>4. CASE Refetch
      BY <1>0, <1>2, <2>4 DEF Refetch, PageState
    <2>5. CASE \E filter \in Filter : SetFilter(filter)
      BY <1>2, <2>5, SetFilterShape, OpenShape
    <2>6. CASE \E to \in 0 .. Cardinality(Plays) + 1 : TurnPage(to)
      BY <1>2, <2>6, TurnShape, OpenShape
    <2> QED BY <2>1, <2>2, <2>3, <2>4, <2>5, <2>6, PageStep
  <1>3. ASSUME FilterStays(page'.filter), page'.stage = "shown"
        PROVE  Fits(page'.number, page'.rows, page'.total)
    <2>1. CASE page' = page
      BY <1>3, <2>1 DEF TotalInv
    <2>2. CASE ReadRows \/ Refetch
      BY <1>0, <1>3, <2>2 DEF ReadRows, Refetch, PageState
    <2>3. CASE CountRows
      <3>1. /\ page'.filter = page.filter /\ page'.number = page.number
            /\ page'.rows = page.fetched /\ page'.total = Cardinality(Matching(page.filter))
            /\ page.stage = "fetched"
        BY <1>0, <2>3, AnsweredShape, MatchingType DEF CountRows, TypeInv
      <3> QED BY <1>3, <3>1 DEF TotalInv
    <2>4. ASSUME NEW filter \in Filter, SetFilter(filter)
          PROVE  Fits(page'.number, page'.rows, page'.total)
      <3>1. PICK p \in PageState : Open(p) /\ p.kept = Aged
        BY <2>4, SetFilterShape
      <3>2. \A k \in p.kept : FilterStays(k.filter) => Fits(k.number, k.rows, k.total)
        BY <1>0, <3>1, AgedShape DEF TotalInv
      <3>3. page'.filter = p.filter
        BY <3>1, OpenShape
      <3> QED BY <1>3, <3>1, <3>2, <3>3, OpenFits
    <2>5. ASSUME NEW to \in 0 .. Cardinality(Plays) + 1, TurnPage(to)
          PROVE  Fits(page'.number, page'.rows, page'.total)
      <3>1. PICK p \in PageState : Open(p) /\ p.kept = page.kept
        BY <2>5, TurnShape
      <3>2. page'.filter = p.filter
        BY <3>1, OpenShape
      <3> QED BY <1>3, <3>1, <3>2, OpenFits DEF TotalInv
    <2> QED BY <2>1, <2>2, <2>3, <2>4, <2>5, PageStep
  <1>4. FilterStays(page.filter)' <=> FilterStays(page'.filter)
    BY IdleStep DEF FilterStays
  <1>5. \A k \in page'.kept : FilterStays(k.filter)' => Fits(k.number, k.rows, k.total)
    BY KeptFits, IdleStep DEF FilterStays
  <1>6. FilterStays(page'.filter) /\ page'.stage = "fetched" =>
          Fits(page'.number, page'.fetched, Cardinality(Matching(page.filter)'))
    <2> SUFFICES ASSUME FilterStays(page'.filter), page'.stage = "fetched"
                 PROVE  Fits(page'.number, page'.fetched, Cardinality(Matching(page.filter)'))
      OBVIOUS
    <2>1. PICK c : c = page'.filter
      OBVIOUS
    <2>2. Matching(c)' = Matching(page.filter)'
      BY <2>1 DEF Matching
    <2> QED BY <1>2, <2>1, <2>2
  <1> QED BY <1>3, <1>4, <1>5, <1>6 DEF TotalInv, Fits

\* What was shown stays shown.
LEMMA DoneStays ==
  ASSUME NEW N, IsFiniteSet(N), NEW M \in SUBSET N, NEW due, NEW p \in Int, NEW total,
         NEW shown, NEW more, shown \subseteq more, Done(M, due, p, total, shown)
  PROVE  Done(N, due, p, total, more)
  <1>1. Covers(N, due, p, more)
    BY CoversStays DEF Done
  <1> QED BY <1>1 DEF Done

\* Pages are numbered from one.
LEMMA PagesSeen ==
  ASSUME page \in PageState
  PROVE  page.number \in Nat \ {0} /\ \A k \in page.kept : k.number \in Nat \ {0}
  BY DEF PageState, KeptAnswer

\* A page that opens: what is shown is done with, what is asked for follows what is.
LEMMA OpenFollows ==
  ASSUME NEW p \in PageState, Open(p), ~page'.old,
         NEW N, IsFiniteSet(N), NEW M \in SUBSET N, p.due \subseteq M,
         Covers(M, p.due, p.number - 1, p.seen),
         \A k \in p.kept : k.recent /\ k.filter = p.filter =>
           Done(M, p.due, k.number, k.total, p.seen)
  PROVE  Followed(N, page')
  <1>0. p.number \in Nat \ {0} /\ \A k \in p.kept : k.number \in Nat \ {0} /\ k.recent \in BOOLEAN
    BY DEF PageState, KeptAnswer
  <1>1. page'.filter = p.filter /\ page'.number = p.number
        /\ page'.due = p.due /\ page'.kept = p.kept /\ p.seen \subseteq page'.seen
    BY OpenShape
  <1>2. ASSUME page'.stage \in {"asked", "fetched"}
        PROVE  page'.stage = "asked" /\ Covers(N, page'.due, page'.number - 1, page'.seen)
    <2>1. page'.stage = "asked" /\ page'.seen = p.seen
      BY <1>2, OpenShape
    <2>2. Covers(N, p.due, p.number - 1, p.seen)
      BY <1>0, CoversStays
    <2> QED BY <1>1, <2>1, <2>2
  <1>3. ASSUME page'.stage = "shown"
        PROVE  Done(N, page'.due, page'.number, page'.total, page'.seen)
    <2>1. PICK k \in p.kept : /\ k.filter = p.filter /\ k.number = p.number
                              /\ page'.total = k.total /\ page'.old = (p.old \/ ~k.recent)
      BY <1>3, OpenShape
    <2>2. Done(M, p.due, k.number, k.total, p.seen)
      BY <1>0, <2>1
    <2>3. Done(N, p.due, k.number, k.total, page'.seen)
      BY <1>0, <1>1, <2>2, DoneStays
    <2> QED BY <1>1, <2>1, <2>3
  <1>4. ASSUME NEW k \in page'.kept, k.recent, k.filter = page'.filter
        PROVE  Done(N, page'.due, k.number, k.total, page'.seen)
    <2>1. Done(M, p.due, k.number, k.total, p.seen)
      BY <1>1, <1>4
    <2>2. Done(N, p.due, k.number, k.total, page'.seen)
      BY <1>0, <1>1, <1>4, <2>1, DoneStays
    <2> QED BY <1>1, <2>2
  <1> QED BY <1>1, <1>2, <1>3, <1>4 DEF Followed

\* The list grows behind the screen.
LEMMA SameFollows ==
  ASSUME page \in PageState, NEW N, IsFiniteSet(N), NEW M \in SUBSET N, Followed(M, page)
  PROVE  Followed(N, page)
  <1>1. page.number \in Int /\ page.number - 1 \in Int /\ \A k \in page.kept : k.number \in Int
    BY PagesSeen
  <1>2. \A q \in Int : \A S : Covers(M, page.due, q, S) => Covers(N, page.due, q, S)
    BY CoversStays
  <1>3. \A q \in Int : \A total : Done(M, page.due, q, total, page.seen)
                                  => Done(N, page.due, q, total, page.seen)
    BY DoneStays
  <1> QED BY <1>1, <1>2, <1>3 DEF Followed

\* The rows of a page come: those before it were shown when it was asked for.
LEMMA ReadFollows ==
  ASSUME page \in PageState, ReadRows, NEW N, IsFiniteSet(N), N \subseteq Nat,
         NEW M \in SUBSET N, M = Matching(page.filter), Followed(M, page)
  PROVE  Followed(N, page')
  <1>1. /\ page'.stage = "fetched" /\ page'.fetched = Slice(M)
        /\ page'.filter = page.filter /\ page'.number = page.number /\ page'.due = page.due
        /\ page'.seen = page.seen /\ page'.kept = page.kept /\ page.stage = "asked"
    BY DEF ReadRows, PageState
  <1>2. M \in SUBSET N /\ Followed(M, page)
    OBVIOUS
  <1>3. IsFiniteSet(M) /\ M \subseteq Nat
    BY <1>2, FS_Subset
  <1>4. Covers(M, page.due, page.number, page.seen \cup Slice(M))
    <2>1. page.due \subseteq M /\ Covers(M, page.due, page.number - 1, page.seen)
      BY <1>1, <1>2 DEF Followed
    <2>2. \A n \in M : Before(n, M) < page.number * PageSize =>
            Before(n, M) < (page.number - 1) * PageSize \/ n \in Slice(M)
      BY <1>3, SliceCovers
    <2> QED BY <2>1, <2>2 DEF Covers
  <1>5. Covers(N, page.due, page.number, page.seen \cup Slice(M))
    <2> DEFINE S == page.seen \cup Slice(M)
    <2>1. page.number \in Int /\ Covers(M, page.due, page.number, S)
      BY <1>4, PagesSeen
    <2> HIDE DEF S
    <2>2. Covers(N, page.due, page.number, S)
      BY <1>2, <2>1, CoversStays
    <2> QED BY <2>2 DEF S
  <1>6. Followed(N, page)
    BY <1>2, SameFollows
  <1> QED BY <1>1, <1>5, <1>6 DEF Followed

\* The count comes: with the last page, every play that was due has been shown.
LEMMA CountFollows ==
  ASSUME page \in PageState, CountRows, NEW N, IsFiniteSet(N), N \subseteq Nat,
         Matching(page.filter) \subseteq N, Followed(Matching(page.filter), page)
  PROVE  Followed(N, page')
  <1> DEFINE M == Matching(page.filter)
             total == Cardinality(M)
             seen == page.seen \cup page.fetched
  <1>1. M \in SUBSET N /\ Followed(M, page) /\ page.stage = "fetched" /\ page' = Answered(total)
    BY DEF CountRows
  <1> HIDE DEF M
  <1>2. IsFiniteSet(M) /\ M \subseteq Nat
    BY <1>1, FS_Subset
  <1>3. total \in Nat
    BY <1>2, FS_CardinalityType
  <1> HIDE DEF total
  <1>4. /\ page'.stage = "shown" /\ page'.filter = page.filter /\ page'.number = page.number
        /\ page'.total = total /\ page'.due = page.due /\ page'.seen = seen
        /\ page'.kept = {k \in page.kept : k.filter # page.filter \/ k.number # page.number}
              \cup {[filter |-> page.filter, number |-> page.number,
                     rows |-> page.fetched, total |-> total, recent |-> TRUE]}
    BY <1>1, <1>3, AnsweredShape
  <1>5. page.due \subseteq M /\ Covers(M, page.due, page.number, seen)
    BY <1>1 DEF Followed
  <1>6. ASSUME total <= page.number * PageSize PROVE page.due \subseteq seen
    <2>1. page.number * PageSize \in Nat
      BY PageSizes, PagesSeen
    <2>2. \A n \in page.due : Before(n, M) \in Nat /\ Before(n, M) < total
      BY <1>2, <1>5, BeforeType DEF total
    <2>3. \A n \in page.due : Before(n, M) < page.number * PageSize
      <3> DEFINE x == page.number * PageSize
      <3> HIDE DEF x
      <3>1. x \in Nat /\ total <= x
        BY <1>6, <2>1 DEF x
      <3>2. \A n \in page.due : Before(n, M) < x
        BY <1>3, <2>2, <3>1
      <3> QED BY <3>2 DEF x
    <2> QED BY <1>5, <2>3 DEF Covers
  <1>7. Done(M, page.due, page.number, total, seen)
    BY <1>5, <1>6 DEF Done
  <1>a. page.seen \subseteq seen
    OBVIOUS
  <1> HIDE DEF seen
  <1>8. Done(N, page.due, page.number, total, seen)
    <2>1. page.number \in Int
      BY PagesSeen
    <2> QED BY <1>1, <1>7, <2>1, DoneStays
  <1>9. ASSUME NEW k \in page.kept, k.recent, k.filter = page.filter
        PROVE  Done(N, page.due, k.number, k.total, seen)
    <2>1. Done(M, page.due, k.number, k.total, page.seen)
      BY <1>1, <1>9 DEF Followed
    <2>2. k.number \in Int
      BY PagesSeen
    <2> QED BY <1>1, <1>a, <2>1, <2>2, DoneStays
  <1>10. page.due \subseteq N
    BY <1>1, <1>5
  <1> QED BY <1>4, <1>8, <1>9, <1>10 DEF Followed

\* Every way the page can change.
LEMMA SkipCase ==
  ASSUME TypeInv, IdleInv, SkipInv, [Next]_vars,
         page'.stage # "closed", ~page'.old,
         NEW c, c = page'.filter, FilterStays(c)
  PROVE  Followed(Matching(c)', page')
  <1> DEFINE M == Matching(c)
             N == Matching(c)'
  <1>0. page \in PageState
    BY DEF TypeInv, TypeOK
  <1>1. M \in SUBSET N /\ IsFiniteSet(N) /\ N \subseteq Nat
    BY MatchingGrows, MatchingNext
  <1>2. ASSUME page.filter = c, page.stage # "closed", ~page.old
        PROVE  Followed(M, page)
    BY <1>2 DEF SkipInv
  <1>3. CASE page' = page
    BY <1>0, <1>1, <1>2, <1>3, SameFollows
  <1>4. CASE ReadRows
    <2>1. page.filter = c /\ ~page.old /\ page.stage = "asked"
      BY <1>0, <1>4 DEF ReadRows, PageState
    <2>2. Matching(page.filter) = M
      BY <2>1
    <2> HIDE DEF M, N
    <2>3. Followed(N, page')
      BY <1>0, <1>1, <1>2, <1>4, <2>1, <2>2, ReadFollows
    <2> QED BY <2>3 DEF N
  <1>5. CASE CountRows
    <2>1. Cardinality(Matching(page.filter)) \in Nat
      BY MatchingType DEF TypeInv
    <2>2. page.filter = c /\ ~page.old /\ page.stage = "fetched"
      BY <1>0, <1>5, <2>1, AnsweredShape DEF CountRows
    <2>3. Matching(page.filter) = M
      BY <2>2
    <2> HIDE DEF M, N
    <2>4. Followed(N, page')
      BY <1>0, <1>1, <1>2, <1>5, <2>2, <2>3, CountFollows
    <2> QED BY <2>4 DEF N
  <1>6. CASE Refetch
    <2>1. /\ page.filter = c /\ ~page.old /\ page.stage = "shown" /\ page'.stage = "asked"
          /\ page'.number = page.number /\ page'.due = page.due
          /\ page'.filter = page.filter
          /\ page'.seen = page.seen /\ page'.kept = page.kept
      BY <1>0, <1>6 DEF Refetch, PageState
    <2> HIDE DEF M, N
    <2>2. Followed(N, page)
      BY <1>0, <1>1, <1>2, <2>1, SameFollows
    <2>3. Covers(N, page.due, page.number - 1, page.seen)
      <3>1. Covers(N, page.due, page.number, page.seen)
        BY <2>1, <2>2 DEF Followed, Done
      <3> QED BY <1>1, <3>1, CoversStays, PagesSeen, <1>0
    <2>4. Followed(N, page')
      BY <2>1, <2>2, <2>3 DEF Followed
    <2> QED BY <2>4 DEF N
  <1>7. ASSUME NEW filter \in Filter, SetFilter(filter)
        PROVE  Followed(N, page')
    <2>1. PICK p \in PageState :
             /\ Open(p)
             /\ p.filter = filter /\ p.number = 1 /\ p.due = Matching(filter)
             /\ p.seen = {} /\ p.kept = Aged /\ ~p.old
      BY <1>7, SetFilterShape
    <2>2. filter = c
      BY <2>1, OpenShape
    <2>3. p.due = M
      BY <2>1, <2>2
    <2> HIDE DEF M, N
    <2>4. Covers(M, p.due, p.number - 1, p.seen)
      <3>1. IsFiniteSet(M) /\ M \subseteq Nat
        BY <1>1, FS_Subset
      <3>2. \A n \in M : Before(n, M) \in Nat
        BY <3>1, BeforeType
      <3>3. (p.number - 1) * PageSize = 0
        BY <2>1, PageSizes
      <3> QED BY <2>3, <3>2, <3>3 DEF Covers
    <2>5. \A k \in p.kept : ~k.recent
      BY <1>0, <2>1, AgedShape
    <2> QED BY <1>1, <2>1, <2>3, <2>4, <2>5, OpenFollows
  <1>8. ASSUME NEW to \in 0 .. Cardinality(Plays) + 1, TurnPage(to)
        PROVE  Followed(N, page')
    <2>1. PICK p \in PageState :
             /\ Open(p)
             /\ p.filter = page.filter /\ p.number = to /\ p.due = page.due
             /\ p.seen = page.seen /\ p.kept = page.kept /\ p.old = page.old
      BY <1>8, TurnShape
    <2>2. page.filter = c /\ ~page.old
      BY <2>1, OpenShape
    <2>3. page.stage = "shown" /\ to - 1 <= page.number
      BY <1>0, <1>8, PagesSeen DEF TurnPage
    <2> HIDE DEF M, N
    <2>4. Followed(M, page)
      BY <1>2, <2>2, <2>3
    <2>5. IsFiniteSet(M)
      BY <1>1, FS_Subset
    <2>6. Covers(M, page.due, to - 1, page.seen)
      <3>1. Covers(M, page.due, page.number, page.seen)
        BY <2>3, <2>4 DEF Followed, Done
      <3> QED BY <1>0, <2>3, <2>5, <3>1, CoversStays, PagesSeen
    <2> QED BY <1>1, <2>1, <2>4, <2>6, OpenFollows DEF Followed
  <1> QED BY <1>3, <1>4, <1>5, <1>6, <1>7, <1>8, PageStep

\* Every step keeps what has been shown up to the page on the screen.
LEMMA SkipStep ==
  ASSUME TypeInv, IdleInv, SkipInv, [Next]_vars
  PROVE  SkipInv'
  <1> SUFFICES ASSUME page'.stage # "closed", FilterStays(page.filter)', ~page'.old
               PROVE  Followed(Matching(page.filter), page)'
    BY DEF SkipInv
  <1>1. PICK c : c = page'.filter
    OBVIOUS
  <1>2. FilterStays(c)
    BY <1>1, IdleStep DEF FilterStays
  <1>3. Matching(c)' = Matching(page.filter)'
    BY <1>1 DEF Matching
  <1>4. Followed(Matching(c)', page')
    BY <1>1, <1>2, SkipCase
  <1> QED BY <1>3, <1>4 DEF Followed, Done, Covers, Before

\* What is known of the page, on top of its type.
PageInv == IdleInv /\ TotalInv /\ SkipInv

\* It holds while the screen is closed.
LEMMA PageInit == Init => PageInv
  <1> SUFFICES ASSUME Init PROVE PageInv
    OBVIOUS
  <1>1. page.stage = "closed" /\ page.kept = {}
    BY DEF Init, NoPage
  <1> QED BY <1>1, IdleInit DEF PageInv, TotalInv, SkipInv

\* It holds always.
LEMMA PageHolds == Spec => [](TypeInv /\ PageInv)
  <1>1. TypeInv /\ PageInv /\ [Next]_vars => (TypeInv /\ PageInv)'
    BY TypeStep, IdleStep, TotalStep, SkipStep DEF PageInv
  <1> QED BY <1>1, TypeInit, PageInit, PTL DEF Spec

\* "Showing X-Y of total" counts the rows above it: a total that was counted after its
\* rows is never behind them, nor is one that was kept with them (getHistory).
THEOREM TotalsCover == Spec => []TotalCoversPage
  <1>1. TypeInv /\ PageInv => TotalCoversPage
    <2> SUFFICES ASSUME TypeInv, PageInv, page.stage = "shown", ItemsStayPut, page.rows # {}
                 PROVE  Cardinality(page.rows) <= ShownTo - ShownFrom + 1
      BY DEF TotalCoversPage
    <2>1. FilterStays(page.filter)
      BY DEF ItemsStayPut, FilterStays
    <2>2. Cardinality(page.rows) <= PageSize /\ Offset + Cardinality(page.rows) <= page.total
      BY <2>1 DEF PageInv, TotalInv, Fits, Offset
    <2>3. page.number \in Nat \ {0} /\ page.total \in Nat /\ page.rows \in SUBSET Plays
      BY DEF TypeInv, TypeOK, PageState
    <2>4. Cardinality(page.rows) \in Nat
      BY <2>3, ScriptType, FS_Subset, FS_CardinalityType DEF TypeInv, TypeOK
    <2> DEFINE x == page.number * PageSize
    <2>5. Offset \in Nat /\ x \in Nat /\ Offset + PageSize = x /\ PageSize \in Nat
      BY <2>3, PageSizes DEF Offset
    <2>6. ShownTo = IF x < page.total THEN x ELSE page.total
      BY DEF ShownTo
    <2> HIDE DEF x
    <2> QED BY <2>2, <2>3, <2>4, <2>5, <2>6 DEF ShownFrom
  <1> QED BY <1>1, PageHolds, PTL

\* Whoever pages on until there is no next page has been shown every play that matched
\* when the filter was set, whatever was played meanwhile and whichever way they paged
\* (getHistory, HistoryRoute, PlaybackHistoryTable).
THEOREM NothingSkipped == Spec => []NothingIsSkipped
  <1>1. TypeInv /\ PageInv => NothingIsSkipped
    <2> SUFFICES ASSUME TypeInv, PageInv, page.stage = "shown", ItemsStayPut, ~page.old, ~hasNext
                 PROVE  page.due \subseteq page.seen
      BY DEF NothingIsSkipped
    <2>1. FilterStays(page.filter)
      BY DEF ItemsStayPut, FilterStays
    <2>2. Done(Matching(page.filter), page.due, page.number, page.total, page.seen)
      BY <2>1 DEF PageInv, SkipInv, Followed
    <2>3. page.number \in Nat \ {0} /\ page.total \in Nat
      BY DEF TypeInv, TypeOK, PageState
    <2> DEFINE x == page.number * PageSize
    <2>4. x \in Nat
      BY <2>3, PageSizes
    <2>5. ~(ShownTo < page.total) /\ ShownTo = IF x < page.total THEN x ELSE page.total
      BY DEF hasNext, ShownTo
    <2> HIDE DEF x
    <2>6. page.total <= x
      BY <2>3, <2>4, <2>5
    <2> QED BY <2>2, <2>6 DEF Done, x
  <1> QED BY <1>1, PageHolds, PTL

=============================================================================
