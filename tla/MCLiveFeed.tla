----------------------------- MODULE MCLiveFeed -----------------------------
(* The instance of LiveFeed for TLC.                                         *)
EXTENDS LiveFeed

CONSTANTS p1, p2

TwoProbes == {p1, p2}
=============================================================================
