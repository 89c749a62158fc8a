---------------------------- MODULE HeapInterrupts ----------------------------
(***************************************************************************)
(* cmd_memtest of MiniCore-OS with interrupts on.  The main loop executes  *)
(* the command before it clears the input buffer, so an Enter key that     *)
(* IRQ1 delivers meanwhile finds the same line, or one typed meanwhile,    *)
(* and executes memtest a second time, inside the first; the handler runs  *)
(* with interrupts off and returns before the first one goes on.           *)
(*                                                                         *)
(* memtest's calls are the actions of Heap.  The interrupt comes between   *)
(* two of them or between two iterations of merge_free_blocks, which is    *)
(* where it does harm first; the stores within kmalloc are not taken apart.*)
(***************************************************************************)
EXTENDS Heap, Sequences

CONSTANT TestSizes      \* the arguments of the two kmalloc calls, 100 and 200

VARIABLES
    step,       \* the next call of cmd_memtest: 1 and 2 kmalloc, 3 and 4 kfree
    ptr,        \* ptr1 and ptr2, as the blocks they belong to
    stack       \* what the interrupt has interrupted

testVars == <<vars, step, ptr, stack>>

NoPtr == [k \in 1 .. 2 |-> NULL]

TestInit == Init /\ step = 0 /\ ptr = NoPtr /\ stack = <<>>

\* The command is entered at the prompt.
EnterMemtest ==
    /\ step = 0
    /\ mem_stats.num_allocations + 2 * Len(TestSizes) <= MaxAllocs
    /\ step' = 1 /\ ptr' = NoPtr
    /\ UNCHANGED <<vars, stack>>

\* kmalloc(TestSizes[k]), which may return NULL.
Allocate(k) ==
    /\ step = k /\ pc = "idle"
    /\ \/ /\ find_free_block(AlignUp(TestSizes[k])) = {}
          /\ UNCHANGED <<vars, ptr>>
       \/ \E b \in DOMAIN hdr :
             /\ Take(TestSizes[k], b)
             /\ live' = Granted(b, b + HDR, TestSizes[k])
             /\ ptr' = [ptr EXCEPT ![k] = b]
    /\ step' = step + 1
    /\ UNCHANGED stack

\* kfree of the k-th pointer, up to the loops of merge_free_blocks.
Free(k) ==
    /\ step = k + 2 /\ pc = "idle"
    /\ \/ ptr[k] = NULL /\ UNCHANGED vars
       \/ ptr[k] # NULL /\ kfree(ptr[k])
    /\ step' = step + 1
    /\ UNCHANGED <<ptr, stack>>

Merge == merge_free_blocks /\ UNCHANGED <<step, ptr, stack>>

\* IRQ1 with an Enter key: keyboard_handler executes the line once more.
EnterInterrupt ==
    /\ step # 0 /\ stack = <<>>
    /\ stack' = <<[pc |-> pc, block |-> block, step |-> step, ptr |-> ptr]>>
    /\ pc' = "idle" /\ block' = NULL
    /\ step' = 1 /\ ptr' = NoPtr
    /\ UNCHANGED <<hdr, mem_stats, live>>

\* The command is done: back to the prompt, or to what was interrupted.
Return ==
    /\ step = 5 /\ pc = "idle"
    /\ \/ /\ stack = <<>>
          /\ step' = 0
          /\ UNCHANGED <<vars, ptr, stack>>
       \/ /\ stack # <<>>
          /\ pc' = stack[1].pc /\ block' = stack[1].block
          /\ step' = stack[1].step /\ ptr' = stack[1].ptr
          /\ stack' = <<>>
          /\ UNCHANGED <<hdr, mem_stats, live>>

TestNext ==
    \/ EnterMemtest
    \/ \E k \in 1 .. 2 : Allocate(k) \/ Free(k)
    \/ Merge \/ EnterInterrupt \/ Return

TestSpec == TestInit /\ [][TestNext]_testVars

----------------------------------------------------------------------------
\* The block that merge_free_blocks merges is a free block of the list ("Merge
\* adjacent free blocks", merge_free_blocks in mm.c), also after an interrupt.
MergesListed == MergingFree
=============================================================================
