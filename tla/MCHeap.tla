-------------------------------- MODULE MCHeap --------------------------------
(***************************************************************************)
(* Small instances of the heap for TLC.  Addresses and sizes are in units  *)
(* of 4 bytes, so that the header (16 bytes), the rounding (8 bytes) and   *)
(* the smallest remainder (32 bytes) keep their proportions.               *)
(***************************************************************************)
EXTENDS HeapWalk

MCCallocArgs == {<<2, 3>>, <<3, 40>>, <<0, 1>>}
MCAlignedArgs == {<<1, 4>>}
=============================================================================
