------------------------------- MODULE Allocator -------------------------------
(***************************************************************************)
(* What a heap allocator promises its callers: every area it hands out     *)
(* lies inside the heap, has the size asked for, and overlaps no area that *)
(* is still in use.  Where an area is placed is not part of the promise.   *)
(***************************************************************************)
EXTENDS Integers

CONSTANTS
    Start,      \* first address of the heap
    Size        \* its size

VARIABLE areas  \* the areas in use

\* An area is a record of its first address, lo, and its length, len.
Inside(a) == Start <= a.lo /\ a.lo + a.len <= Start + Size
Apart(a, b) == a.lo + a.len <= b.lo \/ b.lo + b.len <= a.lo

AllocatorInit == areas = {}

\* A new area beside those in use.
Alloc(a) ==
    /\ Inside(a)
    /\ \A b \in areas : Apart(a, b)
    /\ areas' = areas \cup {a}

Free(a) == a \in areas /\ areas' = areas \ {a}

\* The area is cut off or extended where it is, into unused space.
Resize(a, b) ==
    /\ a \in areas /\ b.lo = a.lo /\ Inside(b)
    /\ \A c \in areas \ {a} : Apart(b, c)
    /\ areas' = (areas \ {a}) \cup {b}

\* The area is replaced by another; both exist while the content is copied.
Move(a, b) ==
    /\ a \in areas /\ Inside(b)
    /\ \A c \in areas : Apart(b, c)
    /\ areas' = (areas \ {a}) \cup {b}

AllocatorNext ==
    \/ \E a \in areas' : Alloc(a)
    \/ \E a \in areas : Free(a)
    \/ \E a \in areas, b \in areas' : Resize(a, b) \/ Move(a, b)

AllocatorSpec == AllocatorInit /\ [][AllocatorNext]_areas
=============================================================================
