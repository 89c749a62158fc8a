------------------------------ MODULE HeapHistory ------------------------------
(***************************************************************************)
(* The heap with one thing remembered: shrunk says that krealloc has split *)
(* a block in place, which it does without rounding, accounting or         *)
(* merging, so that some properties hold only before.  It is not in the    *)
(* code and influences no step.                                            *)
(***************************************************************************)
EXTENDS Heap

\* The heap starts aligned and headers keep the alignment.
ASSUME AlignedConstants == KERNEL_HEAP_START % ALIGN = 0 /\ HDR % ALIGN = 0

VARIABLE shrunk

historyVars == <<vars, shrunk>>

HistoryInit == Init /\ shrunk = FALSE

HistoryNext ==
    \/ CoreNext /\ UNCHANGED shrunk
    \/ \E b \in DOMAIN live, new_size \in ReallocSizes :
          \/ krealloc_move(b, new_size) /\ UNCHANGED shrunk
          \/ krealloc_shrink(b, new_size) /\ shrunk' = (shrunk \/ hdr' # hdr)

\* merge_free_blocks is a loop in straight-line code: it goes on.
HistorySpec ==
    /\ HistoryInit /\ [][HistoryNext]_historyVars
    /\ WF_historyVars(merge_free_blocks /\ UNCHANGED shrunk)

----------------------------------------------------------------------------
\* As long as krealloc has split no block in place, no two neighbours are free
\* between calls ("Merge adjacent free blocks", merge_free_blocks in mm.c),
\* wherever krealloc has moved blocks to.
Coalesced ==
    ~shrunk /\ pc = "idle" =>
        \A b \in DOMAIN hdr :
            hdr[b].is_free = 1 /\ hdr[b].next # NULL => hdr[hdr[b].next].is_free = 0

\* Likewise, every payload starts at an aligned address ("Align size to 8 bytes",
\* kmalloc in mm.c): the headers are aligned and so are the sizes.
PayloadsAligned == ~shrunk => \A b \in DOMAIN hdr : (b + HDR) % ALIGN = 0
=============================================================================
