---------------------------------- MODULE Heap ----------------------------------
(***************************************************************************)
(* The kernel heap of MiniCore-OS (mm.c, mm.h): a doubly linked list of    *)
(* blocks, each a header followed by its payload, that together fill the   *)
(* heap from its first to its last byte.                                   *)
(*                                                                         *)
(* hdr maps the address of every block of the list to its header, and the  *)
(* pointers in it are addresses, so that whether blocks overlap, leave a   *)
(* gap or point at nothing is a question about numbers.  What callers      *)
(* write into the payloads is not modelled.  live remembers what callers   *)
(* were given and have not returned; the code has no such table, and apart *)
(* from choosing the arguments of kfree and krealloc it influences no step.*)
(*                                                                         *)
(* Every function is one action, except that the two loops of              *)
(* merge_free_blocks are one action per iteration, with pc and block as    *)
(* the program counter and the local variable.  Calls that return NULL and *)
(* the second kfree of a block change nothing and are no steps here.       *)
(*                                                                         *)
(* CoreNext leaves out krealloc, which nothing in the kernel calls.        *)
(***************************************************************************)
EXTENDS Integers, FiniteSets

CONSTANTS
    KERNEL_HEAP_START, KERNEL_HEAP_SIZE,
    HDR,            \* sizeof(mem_block_t), 16
    ALIGN,          \* sizes are rounded up to a multiple of it, 8
    MIN_SPLIT,      \* a remainder must be larger than this to be split off, 32
    PTR,            \* sizeof(void*), 4
    SIZE_MOD,       \* 2^32, the modulus of size_t
    Sizes,          \* arguments of kmalloc
    CallocArgs,     \* pairs (count, size), arguments of kcalloc
    AlignedArgs,    \* pairs (size, alignment), arguments of kmalloc_aligned
    ReallocSizes,   \* second arguments of krealloc
    MaxAllocs       \* bound: number of allocations in a behaviour

ASSUME HeapConstants ==
    /\ KERNEL_HEAP_START \in Nat \ {0}
    /\ HDR \in Nat \ {0} /\ KERNEL_HEAP_SIZE \in Nat /\ KERNEL_HEAP_SIZE > HDR
    /\ ALIGN \in Nat \ {0} /\ MIN_SPLIT \in Nat /\ PTR \in Nat
    /\ SIZE_MOD \in Nat /\ SIZE_MOD > KERNEL_HEAP_START + KERNEL_HEAP_SIZE
    /\ SIZE_MOD > KERNEL_HEAP_SIZE + HDR + MIN_SPLIT
    /\ Sizes \subseteq 0 .. SIZE_MOD - 1
    /\ CallocArgs \subseteq (0 .. SIZE_MOD - 1) \X (0 .. SIZE_MOD - 1)
    /\ AlignedArgs \subseteq (0 .. SIZE_MOD - 1) \X (1 .. SIZE_MOD - 1)
    /\ ReallocSizes \subseteq 1 .. SIZE_MOD - 1
    /\ MaxAllocs \in Nat

VARIABLES
    hdr,        \* the headers of the blocks in the list, by address
    mem_stats,
    live,       \* what the owner of each used block was given
    pc,         \* "next" and "prev" inside merge_free_blocks, "fault" after #DE
    block       \* local variable of merge_free_blocks

vars == <<hdr, mem_stats, live, pc, block>>

NULL == 0
heap_head == KERNEL_HEAP_START
HeapEnd == KERNEL_HEAP_START + KERNEL_HEAP_SIZE
Address == KERNEL_HEAP_START .. HeapEnd - 1
Header == [size : 0 .. KERNEL_HEAP_SIZE, is_free : {0, 1},
           next : Address \cup {NULL}, prev : Address \cup {NULL}]
IsHeap(h) == DOMAIN h \subseteq Address /\ h \in [DOMAIN h -> Header]
Grant == [ptr : Int, req : Nat]
End(h, b) == b + HDR + h[b].size

----------------------------------------------------------------------------
\* mm_init.
FreshHeap == [b \in {heap_head} |->
                 [size |-> KERNEL_HEAP_SIZE - HDR, is_free |-> 1,
                  next |-> NULL, prev |-> NULL]]

Init ==
    /\ hdr = FreshHeap
    /\ mem_stats = [free_memory |-> KERNEL_HEAP_SIZE - HDR, used_memory |-> 0,
                    num_allocations |-> 0, num_frees |-> 0,
                    largest_free_block |-> KERNEL_HEAP_SIZE - HDR]
    /\ live = [b \in {} |-> [ptr |-> NULL, req |-> 0]]
    /\ pc = "idle"
    /\ block = NULL

\* Mutant of AlignUp: no rounding.
AlignUp_none(size) == size

\* (size + 7) & ~7 in size_t.
AlignUp(size) ==
    LET sum == (size + ALIGN - 1) % SIZE_MOD IN sum - (sum % ALIGN)

\* Mutant of Fits: blocks in use are not skipped.
Fits_used(b, size) == hdr[b].size >= size

Fits(b, size) == hdr[b].is_free = 1 /\ hdr[b].size >= size

\* The first block of the list that fits, as a set of at most one block.  The
\* list is in address order (Tiled), so the first one is the lowest.
find_free_block(size) ==
    {b \in DOMAIN hdr :
        Fits(b, size) /\ \A c \in DOMAIN hdr : Fits(c, size) => b <= c}

\* Mutant of split_block: the rest of the list is dropped.
split_block_drops_rest(h, b, size) ==
    IF h[b].size > size + HDR + MIN_SPLIT
    THEN LET new_block == b + HDR + size
         IN  [a \in DOMAIN h \cup {new_block} |->
                IF a = b
                THEN [h[b] EXCEPT !.size = size, !.next = new_block]
                ELSE IF a = new_block
                THEN [size |-> h[b].size - size - HDR, is_free |-> 1,
                      next |-> NULL, prev |-> b]
                ELSE h[a]]
    ELSE h

split_block(h, b, size) ==
    IF h[b].size > size + HDR + MIN_SPLIT
    THEN LET new_block == b + HDR + size
         IN  [a \in DOMAIN h \cup {new_block} |->
                IF a = b
                THEN [size |-> size, is_free |-> h[b].is_free,
                      next |-> new_block, prev |-> h[b].prev]
                ELSE IF a = new_block
                THEN [size |-> h[b].size - size - HDR, is_free |-> 1,
                      next |-> h[b].next, prev |-> b]
                ELSE IF a = h[b].next
                THEN [h[a] EXCEPT !.prev = new_block]
                ELSE h[a]]
    ELSE h

\* Mutant of absorb: the header of the block taken in is forgotten.
absorb_no_header(h, b) ==
    LET n == h[b].next
    IN  [a \in DOMAIN h \ {n} |->
            IF a = b
            THEN [h[b] EXCEPT !.size = @ + h[n].size, !.next = h[n].next]
            ELSE IF a = h[n].next THEN [h[a] EXCEPT !.prev = b]
            ELSE h[a]]

\* Mutant of absorb: the next block's prev is not updated.
absorb_no_prev(h, b) ==
    LET n == h[b].next
    IN  [a \in DOMAIN h \ {n} |->
            IF a = b
            THEN [h[b] EXCEPT !.size = @ + h[n].size + HDR, !.next = h[n].next]
            ELSE h[a]]

\* One iteration of either loop of merge_free_blocks: b takes in its successor.
absorb(h, b) ==
    LET n == h[b].next
    IN  [a \in DOMAIN h \ {n} |->
            IF a = b
            THEN [size |-> h[b].size + h[n].size + HDR, is_free |-> h[b].is_free,
                  next |-> h[n].next, prev |-> h[b].prev]
            ELSE IF a = h[n].next
            THEN [h[a] EXCEPT !.prev = b]
            ELSE h[a]]

\* The heap after kmalloc has taken block b for size bytes.
taken(b, size) ==
    LET h == split_block(hdr, b, size) IN [h EXCEPT ![b].is_free = 0]

\* The heap after kfree has marked block b.
released(h, b) == [h EXCEPT ![b].is_free = 1]

\* kmalloc and kfree account for the whole block.
CountAlloc(stats, size) ==
    [stats EXCEPT !.used_memory = (@ + size) % SIZE_MOD,
                  !.free_memory = (@ - size) % SIZE_MOD,
                  !.num_allocations = @ + 1]

CountFree(stats, size) ==
    [stats EXCEPT !.used_memory = (@ - size) % SIZE_MOD,
                  !.free_memory = (@ + size) % SIZE_MOD,
                  !.num_frees = @ + 1]

Granted(b, ptr, req) ==
    [a \in DOMAIN live \cup {b} |->
        IF a = b THEN [ptr |-> ptr, req |-> req] ELSE live[a]]
Returned(l, b) == [a \in DOMAIN l \ {b} |-> l[a]]

----------------------------------------------------------------------------
\* Mutant of Take: the size asked for is accounted, not the block's.
Take_asked(size, b) ==
    /\ pc = "idle"
    /\ mem_stats.num_allocations < MaxAllocs
    /\ size # 0
    /\ b \in find_free_block(AlignUp(size))
    /\ hdr' = taken(b, AlignUp(size))
    /\ mem_stats' = CountAlloc(mem_stats, AlignUp(size))
    /\ UNCHANGED <<pc, block>>

\* The allocating part of every action: kmalloc(size) takes block b.
Take(size, b) ==
    /\ pc = "idle"
    /\ mem_stats.num_allocations < MaxAllocs
    /\ size # 0
    /\ b \in find_free_block(AlignUp(size))
    /\ hdr' = taken(b, AlignUp(size))
    /\ mem_stats' = CountAlloc(mem_stats, hdr'[b].size)
    /\ UNCHANGED <<pc, block>>

kmalloc(size) ==
    \E b \in DOMAIN hdr : Take(size, b) /\ live' = Granted(b, b + HDR, size)

\* The pointer handed out is not the one kmalloc returned, and kfree cannot
\* take it: it would read a header PTR bytes below the payload's data.
kmalloc_aligned(size, alignment) ==
    LET total_size == (size + alignment + PTR) % SIZE_MOD
        aligned(raw) == LET sum == raw + PTR + alignment - 1
                        IN  sum - (sum % alignment)
    IN  /\ \E i \in 0 .. alignment : alignment = 2 ^ i
        /\ \E b \in DOMAIN hdr :
           /\ Take(total_size, b)
           /\ live' = Granted(b, aligned(b + HDR), size)

\* The overflow check divides by count: with count = 0 the processor raises #DE.
kcalloc(count, size) ==
    LET total_size == (count * size) % SIZE_MOD
    IN  \/ /\ count # 0 /\ total_size \div count = size
           /\ \E b \in DOMAIN hdr :
                 Take(total_size, b) /\ live' = Granted(b, b + HDR, count * size)
        \/ /\ count = 0 /\ pc = "idle"
           /\ pc' = "fault"
           /\ UNCHANGED <<hdr, mem_stats, live, block>>

\* isr_handler stops the machine in a hlt loop.  (Should the int_no it reads,
\* see Interrupts, happen to have a handler, it returns to the same division.)
Halted == pc = "fault" /\ UNCHANGED vars

\* Only pointers that kmalloc, kcalloc or krealloc returned.
Freeable(b) == b \in DOMAIN live /\ live[b].ptr = b + HDR

kfree(b) ==
    /\ pc = "idle"
    /\ Freeable(b)
    /\ hdr[b].is_free = 0
    /\ hdr' = released(hdr, b)
    /\ mem_stats' = CountFree(mem_stats, hdr[b].size)
    /\ live' = Returned(live, b)
    /\ pc' = "next"
    /\ block' = b

FreeBlock(b) == b # NULL /\ hdr[b].is_free = 1

\* Mutant of merge_next: an if instead of a while.
merge_next_once ==
    /\ pc = "next"
    /\ hdr' = IF FreeBlock(hdr[block].next) THEN absorb(hdr, block) ELSE hdr
    /\ pc' = "prev"
    /\ UNCHANGED <<mem_stats, live, block>>

\* First loop of merge_free_blocks: take in free successors.
merge_next ==
    LET n == hdr[block].next
    IN  /\ pc = "next"
        /\ \/ /\ FreeBlock(n)
              /\ hdr' = absorb(hdr, block)
              /\ UNCHANGED pc
           \/ /\ ~FreeBlock(n)
              /\ pc' = "prev"
              /\ UNCHANGED hdr
        /\ UNCHANGED <<mem_stats, live, block>>

\* Mutant of merge_prev: predecessors are left alone.
merge_prev_skipped ==
    /\ pc = "prev"
    /\ pc' = "idle"
    /\ block' = NULL
    /\ UNCHANGED <<hdr, mem_stats, live>>

\* Mutant of merge_prev: the loop ends only at the first block.
merge_prev_spins ==
    /\ pc = "prev"
    /\ IF FreeBlock(hdr[block].prev)
       THEN hdr' = absorb(hdr, hdr[block].prev) /\ block' = hdr[block].prev /\ UNCHANGED pc
       ELSE /\ pc' = IF hdr[block].prev = NULL THEN "idle" ELSE "prev"
            /\ UNCHANGED <<hdr, block>>
    /\ UNCHANGED <<mem_stats, live>>

\* Second loop: be taken in by free predecessors.
merge_prev ==
    LET p == hdr[block].prev
    IN  /\ pc = "prev"
        /\ \/ /\ FreeBlock(p)
              /\ hdr' = absorb(hdr, p)
              /\ block' = p
              /\ UNCHANGED pc
           \/ /\ ~FreeBlock(p)
              /\ pc' = "idle"
              /\ block' = NULL
              /\ UNCHANGED hdr
        /\ UNCHANGED <<mem_stats, live>>

merge_free_blocks == merge_next \/ merge_prev

\* krealloc of a large enough block splits it in place, without rounding,
\* accounting or merging.
krealloc_shrink(b, new_size) ==
    /\ pc = "idle"
    /\ Freeable(b)
    /\ hdr[b].size >= new_size
    /\ hdr' = split_block(hdr, b, new_size)
    /\ live' = Granted(b, b + HDR, new_size)
    /\ UNCHANGED <<mem_stats, pc, block>>

\* Otherwise the content moves to a new block and the old one is freed.
krealloc_move(b, new_size) ==
    /\ pc = "idle"
    /\ mem_stats.num_allocations < MaxAllocs
    /\ Freeable(b)
    /\ hdr[b].size < new_size
    /\ hdr[b].is_free = 0
    /\ \E c \in find_free_block(AlignUp(new_size)) :
          LET h == taken(c, AlignUp(new_size))
          IN  /\ hdr' = released(h, b)
              /\ mem_stats' = CountFree(CountAlloc(mem_stats, h[c].size), h[b].size)
              /\ live' = Returned(Granted(c, c + HDR, new_size), b)
    /\ pc' = "next"
    /\ block' = b

krealloc(b, new_size) == krealloc_shrink(b, new_size) \/ krealloc_move(b, new_size)

FreeBlockSizes == {hdr[b].size : b \in {c \in DOMAIN hdr : hdr[c].is_free = 1}}

mm_get_stats ==
    /\ pc = "idle"
    /\ \E largest \in FreeBlockSizes \cup {0} :
          /\ \A size \in FreeBlockSizes : size <= largest
          /\ mem_stats' = [mem_stats EXCEPT !.largest_free_block = largest]
    /\ UNCHANGED <<hdr, live, pc, block>>

----------------------------------------------------------------------------
CoreNext ==
    \/ \E size \in Sizes : kmalloc(size)
    \/ \E args \in AlignedArgs : kmalloc_aligned(args[1], args[2])
    \/ \E args \in CallocArgs : kcalloc(args[1], args[2])
    \/ \E b \in DOMAIN live : kfree(b)
    \/ merge_free_blocks
    \/ mm_get_stats
    \/ Halted

Next ==
    \/ CoreNext
    \/ \E b \in DOMAIN live, new_size \in ReallocSizes : krealloc(b, new_size)

Spec == Init /\ [][Next]_vars

----------------------------------------------------------------------------
TypeOK ==
    /\ IsHeap(hdr)
    /\ DOMAIN live \subseteq Address
    /\ live \in [DOMAIN live -> Grant]
    /\ pc \in {"idle", "next", "prev", "fault"}
    /\ block \in Address \cup {NULL}
    /\ mem_stats \in [free_memory : Nat, used_memory : Nat,
                      num_allocations : 0 .. MaxAllocs, num_frees : Nat,
                      largest_free_block : Nat]

\* The successor of a block starts where the block ends; the last one ends with
\* the heap.
NextAdjacent(h) ==
    \A b \in DOMAIN h :
        IF h[b].next = NULL THEN End(h, b) = HeapEnd
        ELSE h[b].next \in DOMAIN h /\ h[b].next = End(h, b)

\* next and prev are inverse to each other, and only the first block has no prev.
LinksInverse(h) ==
    \A b \in DOMAIN h :
        /\ h[b].next # NULL => h[h[b].next].prev = b
        /\ IF h[b].prev = NULL THEN b = heap_head
           ELSE h[b].prev \in DOMAIN h /\ h[h[b].prev].next = b

Disjoint(h) ==
    \A b, c \in DOMAIN h : b < c => End(h, b) <= c

IsTiled(h) ==
    /\ heap_head \in DOMAIN h
    /\ NextAdjacent(h) /\ LinksInverse(h) /\ Disjoint(h)

\* The blocks fill the heap without gap or overlap, at every step of every
\* operation, the iterations of merge_free_blocks included.
Tiled == IsTiled(hdr)

\* Exactly the blocks that callers hold are marked used: no split or merge
\* takes in a block in use, and none is lost.
UsedIsLive ==
    /\ DOMAIN live \subseteq DOMAIN hdr
    /\ \A b \in DOMAIN hdr : hdr[b].is_free = 0 <=> b \in DOMAIN live

\* Allocations less frees are the blocks in use: no call counts twice or not at
\* all, krealloc included.
CountsAgree ==
    mem_stats.num_allocations - mem_stats.num_frees =
        Cardinality({b \in DOMAIN hdr : hdr[b].is_free = 0})

\* The block merge_free_blocks works on is a free block of the list.
MergingFree ==
    pc \in {"next", "prev"} => block \in DOMAIN hdr /\ hdr[block].is_free = 1

\* The area a caller was given holds the bytes it asked for and lies inside the
\* payload of its block ("Find a free block that can fit the requested size",
\* find_free_block in mm.c).
RequestFits ==
    \A b \in DOMAIN live :
        b + HDR <= live[b].ptr /\ live[b].ptr + live[b].req <= End(hdr, b)

\* When every pointer has been returned, kfree's loops have put the heap back
\* into the single free block of mm_init, however it was cut up before.
AllFreedRestores == pc = "idle" /\ live = << >> => hdr = FreshHeap

\* merge_free_blocks returns.
MergeReturns == pc = "next" ~> pc = "idle"

\* The areas in use, as the abstract allocator sees them.
Areas == {[lo |-> live[b].ptr, len |-> live[b].req] : b \in DOMAIN live}

A == INSTANCE Allocator WITH
        Start <- KERNEL_HEAP_START, Size <- KERNEL_HEAP_SIZE, areas <- Areas

\* The block list implements the allocator's promise: areas handed out lie in
\* the heap and overlap none that is in use, and nothing else changes them.
ImplementsAllocator == A!AllocatorSpec
=============================================================================
