----------------------------- MODULE MCShutdown -----------------------------
(* The instance of Shutdown for TLC.                                         *)
EXTENDS Shutdown

CONSTANTS t1, t2

TwoTabs == {t1, t2}
=============================================================================
