--------------------------- MODULE MCShellInterrupts ---------------------------
(***************************************************************************)
(* A small instance of ShellInterrupts for TLC, with the keys and commands *)
(* of MCShell.                                                             *)
(***************************************************************************)
EXTENDS ShellInterrupts, MCShell
=============================================================================
