---------------------------- MODULE MCReporting ----------------------------
(* The instance of Reporting for TLC.  Each budget is one corner of the      *)
(* system, with only as much of the rest as it needs.                        *)
EXTENDS Reporting

CONSTANTS i1, i2, l1, l2, u1, u2

TwoItems == {i1, i2}
TwoLibraries == {l1, l2}
TwoUsers == {u1, u2}
Folders == [l \in TwoLibraries |-> IF l = l1 THEN 1 ELSE 2]
Names == [i \in TwoItems |-> IF i = i1 THEN 1 ELSE 2]
ThreeDays == 1 .. 3

Placed(a, b) == [i \in TwoItems |-> IF i = i1 THEN a ELSE b]

From(a, b) == [from |-> a, to |-> b]

Both == [users |-> TwoUsers, libraries |-> TwoLibraries]

At(d, u, i) == [day |-> d, user |-> u, item |-> i]

\* The content moves and the sync fails; nothing is played.
MovingContent ==
  [jellyfin |-> Both,
   contents |-> [TwoItems -> SUBSET TwoLibraries], synced |-> FALSE,
   syncs |-> BOOLEAN, script |-> <<>>,
   changes |-> 0, moves |-> 2, faults |-> 1, backfills |-> {}, filters |-> {},
   visits |-> 0, played |-> 0]

\* Plays of two days, backfills of one and of both, and a fault.
Backfills ==
  [jellyfin |-> Both,
   contents |-> {Placed({l1}, {})}, synced |-> TRUE, syncs |-> {},
   script |-> <<At(1, u1, i1), At(2, u1, i1)>>,
   changes |-> 0, moves |-> 0, faults |-> 1,
   backfills |-> {From(1, 1), From(1, 2)}, filters |-> {}, visits |-> 0, played |-> 0]

\* Plays of two users and items, one of them moved meanwhile.
Dashboards ==
  [jellyfin |-> Both,
   contents |-> {Placed({l1}, {l2})}, synced |-> TRUE, syncs |-> {TRUE},
   script |-> <<At(1, u1, i1), At(2, u2, i2)>>,
   changes |-> 0, moves |-> 1, faults |-> 0, backfills |-> {}, filters |-> {},
   visits |-> 0, played |-> 0]

\* A play whose item moves and is rebuilt meanwhile.
Attribution ==
  [jellyfin |-> Both,
   contents |-> {Placed({l1}, {})}, synced |-> FALSE, syncs |-> {TRUE},
   script |-> <<At(1, u1, i1)>>,
   changes |-> 0, moves |-> 1, faults |-> 0, backfills |-> {From(1, 1)}, filters |-> {},
   visits |-> 0, played |-> 0]

\* The history, read while it grows; two plays share a rollup row.
Paging ==
  [jellyfin |-> Both,
   contents |-> {Placed({}, {l1})}, synced |-> TRUE, syncs |-> {},
   script |-> <<At(1, u2, i1), At(1, u1, i2), At(1, u1, i2)>>,
   changes |-> 0, moves |-> 0, faults |-> 0,
   backfills |-> {}, filters |-> {None, l1}, visits |-> 2, played |-> 1]

\* A user is created, plays and is removed, before, between and after the syncs.
Newcomers ==
  [jellyfin |-> [Both EXCEPT !.users = {u1}],
   contents |-> {Placed({l1}, {})}, synced |-> FALSE, syncs |-> {TRUE},
   script |-> <<At(1, u2, i1), At(1, u1, i1)>>,
   changes |-> 2, moves |-> 0, faults |-> 0, backfills |-> {}, filters |-> {},
   visits |-> 0, played |-> 0]

\* A library is created, and the item moved, while a sync runs.
Arrivals ==
  [jellyfin |-> [Both EXCEPT !.libraries = {l1}],
   contents |-> {Placed({l1}, {})}, synced |-> FALSE, syncs |-> {TRUE},
   script |-> <<At(1, u1, i1)>>,
   changes |-> 1, moves |-> 1, faults |-> 0, backfills |-> {}, filters |-> {},
   visits |-> 0, played |-> 0]

SevenCorners ==
  {MovingContent, Backfills, Dashboards, Attribution, Paging, Newcomers, Arrivals}
=============================================================================
