------------------------------ MODULE MCLogger ------------------------------
(***************************************************************************)
(* The log with two writers whose copies may fail.                         *)
(***************************************************************************)
EXTENDS Logger

\* A log that a failed write has cut too far back is not followed further:
\* intact never becomes true again, and every property excepts such a log.
WhileIntact == intact
=============================================================================
