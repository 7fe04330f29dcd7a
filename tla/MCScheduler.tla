---------------------------- MODULE MCScheduler ----------------------------
(* Instances of Scheduler for TLC: session-poll (0), retried at once and due *)
(* on every tick, reference-sync (1), on a longer interval, and one daily    *)
(* job (2).                                                                  *)
EXTENDS Scheduler, TLC

Poll == {0}
Nightly == {2}
Intervals == (0 :> 1) @@ (1 :> 4) @@ (2 :> 4)
\* Polls that fail at once, and polls that hang for a whole rotation.
FastPolls == (0 :> 0) @@ (1 :> 1) @@ (2 :> 1)
HangingPolls == (0 :> 3) @@ (1 :> 0) @@ (2 :> 0)
Targets == (0 :> 0) @@ (1 :> 0) @@ (2 :> 1)
=============================================================================
