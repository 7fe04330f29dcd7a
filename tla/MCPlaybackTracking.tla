------------------------- MODULE MCPlaybackTracking -------------------------
(* Instances of PlaybackTracking for TLC.  One tick is half a poll           *)
(* interval: a poll is normally two ticks after the last, MaxWatchDelta is   *)
(* three and StaleAfter four, the ratios of env.ts.                          *)
EXTENDS PlaybackTracking, TLC

CONSTANTS s1, s2, e1, e2

OneSession == {s1}
TwoSessions == {s1, s2}
TwoItems == {e1, e2}
NotFar == {FALSE}
Either == BOOLEAN
Forward == {2, 5}
Skewed == {-2, 4}
NoFaults == {}
AllFaults == {"abort", "crash"}
AbortOnly == {"abort"}
CrashOnly == {"crash"}

Symmetry == Permutations({s1, s2}) \cup Permutations(TwoItems)
=============================================================================
