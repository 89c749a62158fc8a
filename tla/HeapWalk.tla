------------------------------- MODULE HeapWalk -------------------------------
(***************************************************************************)
(* The functions of mm.c that walk the block list, as the walks they are,  *)
(* and what they find in every reachable heap.  Heap describes the same    *)
(* functions without the walk.                                             *)
(***************************************************************************)
EXTENDS HeapHistory

Blocks == DOMAIN hdr \cup {NULL}

\* find_free_block, from the block current on.
FindFrom(current, size) ==
    LET walk[c \in Blocks] ==
            IF c = NULL THEN NULL ELSE IF Fits(c, size) THEN c ELSE walk[hdr[c].next]
    IN  walk[current]

\* mm_check_heap_integrity, from the block current on, with total_size so far.
IntactFrom(current, total_size) ==
    LET walk[c \in Blocks] ==
            [total \in Nat |->
                IF c = NULL THEN IF total <= KERNEL_HEAP_SIZE THEN 1 ELSE 0
                ELSE IF /\ KERNEL_HEAP_START <= c /\ c < HeapEnd
                        /\ hdr[c].next # NULL => hdr[hdr[c].next].prev = c
                THEN walk[hdr[c].next][total + hdr[c].size + HDR]
                ELSE 0]
    IN  walk[current][total_size]

mm_check_heap_integrity == IntactFrom(heap_head, 0)

----------------------------------------------------------------------------
\* The walk of find_free_block stops at the lowest block that fits, and finds
\* one whenever there is one: no block is off the list or out of order.
WalkFindsLowest ==
    \A size \in 0 .. KERNEL_HEAP_SIZE :
        LET b == FindFrom(heap_head, size)
        IN  find_free_block(size) = IF b = NULL THEN {} ELSE {b}

\* mm_check_heap_integrity never reports corruption, not even when it is called
\* between two iterations of merge_free_blocks.
IntegrityHolds == mm_check_heap_integrity = 1

\* The payload bytes of the blocks in use.
UsedBytes(h) ==
    {x \in Address : \E b \in DOMAIN h :
                        h[b].is_free = 0 /\ b + HDR <= x /\ x < End(h, b)}

\* The statistics that mm_print_stats shows agree with the heap: allocations less
\* frees are the blocks in use and, as long as krealloc has split no block in place,
\* used_memory is what they hold and free_memory the rest.
StatsAgree ==
    /\ CountsAgree
    /\ ~shrunk =>
        /\ mem_stats.used_memory = Cardinality(UsedBytes(hdr))
        /\ mem_stats.used_memory + mem_stats.free_memory = KERNEL_HEAP_SIZE - HDR
=============================================================================
