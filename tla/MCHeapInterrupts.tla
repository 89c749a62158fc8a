--------------------------- MODULE MCHeapInterrupts ---------------------------
(***************************************************************************)
(* A small instance of HeapInterrupts for TLC, in units of 4 bytes as in   *)
(* MCHeap.                                                                 *)
(***************************************************************************)
EXTENDS HeapInterrupts

MCTestSizes == <<6, 12>>
=============================================================================
