---------------------------- MODULE MCTimerTable ----------------------------
(* Instances of TimerTable for TLC; the bounds are in the .cfg files.       *)
EXTENDS TimerTable
=============================================================================
