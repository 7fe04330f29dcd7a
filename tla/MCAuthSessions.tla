--------------------------- MODULE MCAuthSessions ---------------------------
(* The instance of AuthSessions for TLC.                                     *)
EXTENDS AuthSessions, TLC

CONSTANTS i1, i2, r1, r2

TwoIds == {i1, i2}
TwoSlots == {r1, r2}
Symmetry == Permutations(TwoIds) \cup Permutations(TwoSlots)

\* Bound: what is explored of the windows once both ids are taken: up to the limit,
\* or one short of it after a reload.  No login can succeed any more then, and the
\* page sees no difference between an attempt that is turned down and one that
\* CheckRateLimit cannot count.
Explored ==
  created = Ids => (window = None \/ window.count + reloads <= Limit)
=============================================================================
