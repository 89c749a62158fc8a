------------------------- MODULE MCSchedulerInterrupts -------------------------
(***************************************************************************)
(* Small instances of SchedulerInterrupts for TLC.                         *)
(***************************************************************************)
EXTENDS SchedulerInterrupts
=============================================================================
