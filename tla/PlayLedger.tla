----------------------------- MODULE PlayLedger -----------------------------
(***************************************************************************)
(* What the daily statistics promise, without saying how: for every day    *)
(* and stream there is what the server holds of it (playback_sessions) and *)
(* what the dashboard shows of it (playback_rollup_daily).  Both only      *)
(* grow, one entry at a time; the dashboard may lag, but is never ahead;   *)
(* and a rebuild makes whole days exact.                                   *)
(*                                                                         *)
(* PlaybackTracking.tla is the detailed specification that implements it,  *)
(* whatever queries reject and wherever the process dies.                  *)
(***************************************************************************)
EXTENDS Naturals

CONSTANTS
  Days,    \* the UTC days
  Streams  \* the streams

VARIABLES
  held,   \* what the server holds, per day and stream
  shown   \* what the dashboard shows, per day and stream

vars == <<held, shown>>

Amount == [plays : Nat, watchMs : Nat]

AtMost(a, b) == a.plays <= b.plays /\ a.watchMs <= b.watchMs

\* The entry of stream s on day d is the only one of `book` that changes.
OnlyEntry(d, s, book, after) ==
  \A e \in Days, t \in Streams : <<e, t>> # <<d, s>> => after[e][t] = book[e][t]

Init ==
  /\ held = [d \in Days |-> [s \in Streams |-> [plays |-> 0, watchMs |-> 0]]]
  /\ shown = held

\* A play, or some watch time of one, is recorded.
Record(d, s) ==
  /\ held' \in [Days -> [Streams -> Amount]]
  /\ OnlyEntry(d, s, held, held')
  /\ AtMost(held[d][s], held'[d][s])
  /\ UNCHANGED shown

\* The dashboard comes closer to what is held.
Show(d, s) ==
  /\ shown' \in [Days -> [Streams -> Amount]]
  /\ OnlyEntry(d, s, shown, shown')
  /\ AtMost(shown[d][s], shown'[d][s])
  /\ AtMost(shown'[d][s], held[d][s])
  /\ UNCHANGED held

\* The days `span` are rebuilt.
Rebuild(span) ==
  /\ shown' = [d \in Days |-> IF d \in span THEN held[d] ELSE shown[d]]
  /\ UNCHANGED held

Next ==
  \/ \E d \in Days, s \in Streams : Record(d, s) \/ Show(d, s)
  \/ \E span \in SUBSET Days : Rebuild(span)

Spec == Init /\ [][Next]_vars
=============================================================================
