------------------------------ MODULE MCTimers ------------------------------
(* The instance of Timers the programs are, with some time to be late.     *)
EXTENDS Timers
=============================================================================
