--------------------------- MODULE MCEarlySuspend ---------------------------
(* EarlySuspend for TLC: one task that makes requests, while the works of  *)
(* its earlier ones run, and one handler.                                  *)
EXTENDS EarlySuspend

CONSTANTS h1, r1

MCWork == {"early_suspend", "late_resume", r1}
MCLevel == h1 :> 1
=============================================================================
