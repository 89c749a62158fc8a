--------------------------- MODULE MCSchedulerOrder ---------------------------
(***************************************************************************)
(* Small instance of SchedulerOrder for TLC.                               *)
(***************************************************************************)
EXTENDS SchedulerOrder
=============================================================================
