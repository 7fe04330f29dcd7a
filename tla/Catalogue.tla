----------------------------- MODULE Catalogue -----------------------------
(***************************************************************************)
(* The catalogue: the users, libraries and items tables, and the job that  *)
(* copies them from Jellyfin (apps/server/src/sync/reference-sync.ts, the  *)
(* catalogue requests of packages/jellyfin/src/client.ts,                  *)
(* packages/db/src/repositories/reference.ts).                             *)
(*                                                                         *)
(* Jellyfin's users, libraries and content change while they are being     *)
(* asked for: the libraries are enumerated one request each, and answer at *)
(* different moments.  A request or a statement may fail at any stage,     *)
(* which ends the job and leaves what it wrote.                            *)
(*                                                                         *)
(* A definition whose name ends in _M is the one after it with a plausible *)
(* bug put in; it is used only to see that a property notices the bug.     *)
(***************************************************************************)
EXTENDS Naturals, FiniteSets

CONSTANTS
  Users,      \* Jellyfin user ids
  Items,      \* Jellyfin item ids
  Libraries,  \* Jellyfin library ids, in the order of /Library/VirtualFolders
  Position,   \* ... which this function gives
  None,       \* no row, no value, no answer yet
  ChunkSize,  \* CHUNK_SIZE: the rows of one INSERT
  Budgets     \* bound: what a behaviour starts with -- what Jellyfin has, and
              \* whether a full sync has run -- and what may happen in it: the
              \* kinds of sync, the number of changes, of faults, ...

\* Users and libraries: those Jellyfin has, or those the tables have.
Reference == [users : SUBSET Users, libraries : SUBSET Libraries]

NoReference == [users |-> {}, libraries |-> {}]

ASSUME CatalogueAssumption ==
  /\ ChunkSize \in Nat \ {0}
  /\ Position \in [Libraries -> Nat]
  /\ None \notin Libraries
  /\ \A b \in Budgets : /\ b.jellyfin \in Reference
                          /\ b.contents \subseteq [Items -> SUBSET b.jellyfin.libraries]
                          /\ b.synced \in BOOLEAN /\ b.syncs \subseteq BOOLEAN
                          /\ b.changes \in Nat /\ b.moves \in Nat /\ b.faults \in Nat

VARIABLES
  jellyfin,  \* Jellyfin: its users and its libraries
  where,     \* Jellyfin: the libraries that hold each item
  item,      \* the items table
  known,     \* the users and the libraries tables, from which nothing is deleted
  sync,      \* the reference sync
  budget,    \* the budget of this behaviour, and what is left of it
  steady     \* history: the items that have been in Jellyfin and have not moved
             \* since the sync began to enumerate them

catalogue == <<jellyfin, where, item, known, sync, budget, steady>>

-----------------------------------------------------------------------------
(* Data.                                                                    *)

ItemRow == [library : Libraries, archived : BOOLEAN]

\* An item as getItems returns it: tagged with the library it was asked of.
Listed == Items \X Libraries

Stages == {"idle", "asking", "users", "libraries", "folders", "items", "writing"}

\* `told`: the users and the libraries to be written.  `folders`: the libraries
\* getItems found.  `heard`: what each of them answered.  `rest`: what is listed
\* and not written yet.  `present`: the ids the items that are not archived must
\* have.
SyncState ==
  [stage : Stages, full : BOOLEAN, told : Reference, folders : SUBSET Libraries,
   heard : [Libraries -> (SUBSET Items) \cup {None}],
   rest : SUBSET Listed, present : SUBSET Items]

Unheard == [l \in Libraries |-> None]

NoSync == [stage |-> "idle", full |-> FALSE, told |-> NoReference, folders |-> {},
           heard |-> Unheard, rest |-> {}, present |-> {}]

InJellyfin == {i \in Items : where[i] # {}}

CatalogueInit ==
  /\ budget \in Budgets
  /\ jellyfin = budget.jellyfin
  /\ where \in budget.contents
  /\ item = [i \in Items |->
               IF budget.synced /\ where[i] # {}
                 THEN [library |-> CHOOSE l \in where[i] : TRUE, archived |-> FALSE]
               ELSE None]
  /\ known = IF budget.synced THEN jellyfin ELSE NoReference
  /\ sync = NoSync
  /\ steady = {}

-----------------------------------------------------------------------------
(* Jellyfin.                                                                *)

Change(there) ==
  /\ budget.changes > 0
  /\ jellyfin' = there
  /\ budget' = [budget EXCEPT !.changes = @ - 1]
  /\ UNCHANGED <<where, item, known, sync, steady>>

CreateUser(u) ==
  /\ u \notin jellyfin.users
  /\ Change([jellyfin EXCEPT !.users = @ \cup {u}])

RemoveUser(u) ==
  /\ u \in jellyfin.users
  /\ Change([jellyfin EXCEPT !.users = @ \ {u}])

CreateLibrary(l) ==
  /\ l \notin jellyfin.libraries
  /\ Change([jellyfin EXCEPT !.libraries = @ \cup {l}])

\* An item is added, removed or moved to other libraries.
Move(i, to) ==
  /\ budget.moves > 0
  /\ to \subseteq jellyfin.libraries
  /\ to # where[i]
  /\ where' = [where EXCEPT ![i] = to]
  /\ steady' = steady \ {i}
  /\ budget' = [budget EXCEPT !.moves = @ - 1]
  /\ UNCHANGED <<jellyfin, item, known, sync>>

-----------------------------------------------------------------------------
(* runReferenceSync.                                                        *)

\* The job starts: users and libraries are asked for.  `full` is includeItems.
BeginSync(full) ==
  /\ full \in budget.syncs
  /\ sync.stage = "idle"
  /\ sync' = [NoSync EXCEPT !.stage = "asking", !.full = full]
  /\ UNCHANGED <<jellyfin, where, item, known, budget, steady>>

\* Both have answered; one moment stands for the two, since users and libraries
\* are never compared.
HearReference ==
  /\ sync.stage = "asking"
  /\ sync' = [sync EXCEPT !.stage = "users", !.told = jellyfin]
  /\ UNCHANGED <<jellyfin, where, item, known, budget, steady>>

upsertUsers ==
  /\ sync.stage = "users"
  /\ known' = [known EXCEPT !.users = @ \cup sync.told.users]
  /\ sync' = [sync EXCEPT !.stage = "libraries"]
  /\ UNCHANGED <<jellyfin, where, item, budget, steady>>

\* The 15-minute cycle ends here; the full one goes on to getItems.
upsertLibraries ==
  /\ sync.stage = "libraries"
  /\ known' = [known EXCEPT !.libraries = @ \cup sync.told.libraries]
  /\ sync' = IF sync.full THEN [sync EXCEPT !.stage = "folders", !.told = NoReference]
             ELSE NoSync
  /\ UNCHANGED <<jellyfin, where, item, budget, steady>>

\* getItems asks for the libraries again, and then each of them for its items.
HearFolders ==
  /\ sync.stage = "folders"
  /\ sync' = [sync EXCEPT !.stage = "items", !.folders = jellyfin.libraries]
  /\ steady' = InJellyfin
  /\ UNCHANGED <<jellyfin, where, item, known, budget>>

\* A request that fails counts as an empty library.
HearLibrary_M(l) ==
  /\ sync.stage = "items"
  /\ l \in sync.folders
  /\ sync.heard[l] = None
  /\ \E failed \in BOOLEAN :
       sync' = [sync EXCEPT !.heard[l] = IF failed THEN {}
                                         ELSE {i \in Items : l \in where[i]}]
  /\ UNCHANGED <<jellyfin, where, item, known, budget, steady>>

\* A library answers with its descendants.
HearLibrary(l) ==
  /\ sync.stage = "items"
  /\ l \in sync.folders
  /\ sync.heard[l] = None
  /\ sync' = [sync EXCEPT !.heard[l] = {i \in Items : l \in where[i]}]
  /\ UNCHANGED <<jellyfin, where, item, known, budget, steady>>

\* The end of getItems: all libraries have answered.
CollectItems ==
  /\ sync.stage = "items"
  /\ \A l \in sync.folders : sync.heard[l] # None
  /\ LET listed == {x \in Listed : x[2] \in sync.folders /\ x[1] \in sync.heard[x[2]]}
     IN  sync' = [sync EXCEPT !.stage = "writing", !.folders = {}, !.heard = Unheard,
                              !.rest = listed,
                              !.present = {x[1] : x \in listed}]
  /\ UNCHANGED <<jellyfin, where, item, known, budget, steady>>

\* The next rows of upsertItems: libraries in order, the items of one library in
\* any order.
Chunks ==
  {C \in SUBSET sync.rest :
     /\ Cardinality(C) = IF Cardinality(sync.rest) < ChunkSize
                           THEN Cardinality(sync.rest) ELSE ChunkSize
     /\ \A x \in C, y \in sync.rest \ C : Position[x[2]] <= Position[y[2]]}

\* One INSERT refuses to update a row twice.
TouchesTwice(C) == \E x, y \in C : x # y /\ x[1] = y[1]

\* A row that is there already keeps its `archived`.
WriteChunk_M(C) ==
  /\ sync.stage = "writing"
  /\ sync.rest # {}
  /\ C \in Chunks
  /\ ~TouchesTwice(C)
  /\ sync' = [sync EXCEPT !.rest = @ \ C]
  /\ item' = [i \in Items |->
                IF \E x \in C : x[1] = i
                  THEN [library |-> (CHOOSE x \in C : x[1] = i)[2],
                        archived |-> item[i] # None /\ item[i].archived]
                ELSE item[i]]
  /\ UNCHANGED <<jellyfin, where, known, budget, steady>>

\* One INSERT ... ON CONFLICT of upsertItems.  When it is refused the job fails.
WriteChunk(C) ==
  /\ sync.stage = "writing"
  /\ sync.rest # {}
  /\ C \in Chunks
  /\ IF TouchesTwice(C)
       THEN /\ sync' = NoSync
            /\ UNCHANGED item
       ELSE /\ sync' = [sync EXCEPT !.rest = @ \ C]
            /\ item' = [i \in Items |->
                          IF \E x \in C : x[1] = i
                            THEN [library |-> (CHOOSE x \in C : x[1] = i)[2],
                                  archived |-> FALSE]
                          ELSE item[i]]
  /\ UNCHANGED <<jellyfin, where, known, budget, steady>>

\* The rows of missing items are deleted.
archiveMissingItems_M ==
  /\ sync.stage = "writing"
  /\ sync.rest = {}
  /\ item' = [i \in Items |->
                IF i \in sync.present \/ sync.present = {} THEN item[i] ELSE None]
  /\ sync' = NoSync
  /\ UNCHANGED <<jellyfin, where, known, budget, steady>>

\* The last statement of a full sync.  An empty list archives nothing.
archiveMissingItems ==
  /\ sync.stage = "writing"
  /\ sync.rest = {}
  /\ item' = [i \in Items |->
                IF item[i] = None \/ i \in sync.present \/ sync.present = {}
                  THEN item[i]
                ELSE [item[i] EXCEPT !.archived = TRUE]]
  /\ sync' = NoSync
  /\ UNCHANGED <<jellyfin, where, known, budget, steady>>

\* A request answers an error, is cut off after timeoutMs, or does not parse; a
\* statement fails; the process dies.
SyncFails ==
  /\ sync.stage # "idle"
  /\ budget.faults > 0
  /\ budget' = [budget EXCEPT !.faults = @ - 1]
  /\ sync' = NoSync
  /\ UNCHANGED <<jellyfin, where, item, known, steady>>

\* What the job does once it has begun, unless it fails.
SyncStep ==
  \/ HearReference
  \/ upsertUsers
  \/ upsertLibraries
  \/ HearFolders
  \/ \E l \in Libraries : HearLibrary(l)
  \/ CollectItems
  \/ \E C \in SUBSET Listed : WriteChunk(C)
  \/ archiveMissingItems

-----------------------------------------------------------------------------
(* Properties.                                                              *)

\* The catalogue part of the type invariant.
CatalogueTypeOK ==
  /\ jellyfin \in Reference /\ known \in Reference
  /\ where \in [Items -> SUBSET Libraries]
  /\ item \in [Items -> ItemRow \cup {None}]
  /\ sync \in SyncState
  /\ steady \subseteq Items

Archived(i) == item[i] # None /\ item[i].archived

\* An item is archived only if, at some moment of the enumeration that led to
\* it, it was missing from Jellyfin or on its way from one library to another:
\* no failed or half-done sync archives an item that has been in place all along
\* (client.ts getItems, archiveMissingItems).
ArchivedWasMissing ==
  [][\A i \in Items : ~Archived(i) /\ (item'[i] # None /\ item'[i].archived)
                         => i \notin steady]_catalogue

\* What Jellyfin holds is in the table, under a library that holds it, and what
\* it does not hold is archived or was never there.
Mirrors ==
  \A i \in Items :
    IF where[i] = {} THEN item[i] = None \/ item[i].archived
    ELSE item[i] # None /\ ~item[i].archived /\ item[i].library \in where[i]

Overlapping == \E i \in Items : Cardinality(where[i]) > 1

Emptied == InJellyfin = {}

\* Once Jellyfin stands still and failures stop, the full syncs bring the tables in
\* line with it, whatever an earlier sync left half-done: no user and no library
\* stays unknown, and the items are mirrored -- unless an item is in two
\* libraries, when a chunk that holds it twice is refused again and again, or
\* Jellyfin is empty, when archiveMissingItems does nothing (runReferenceSync,
\* upsertItems, archiveMissingItems).
CatalogueCatchesUp ==
  /\ <>[](/\ jellyfin.users \subseteq known.users
          /\ jellyfin.libraries \subseteq known.libraries)
  /\ <>[](Mirrors \/ Overlapping \/ Emptied)
=============================================================================
