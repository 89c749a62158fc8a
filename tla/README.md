# Verification of MiniCore-OS

TLA+ specifications of MiniCore-OS, a 32-bit x86 teaching kernel in C and
assembly: the task scheduler, the kernel heap, the text terminal, the shell, the
file system, and the path from start-up through interrupts to the handlers.
TLC checks small instances; TLAPS proves every safety property and refinement of the
passing runs for every value of the constants, one of them under a hypothesis that is
named below.

## The system

The machine has one processor and one address space. `boot.asm` calls
`kernel_main`, which initialises the parts below in a fixed order and ends in
`shell_run`. Until the command `enableints` nothing is concurrent: interrupts are
masked and the keyboard is polled. After it, IRQ0 (timer) and IRQ1 (keyboard)
interrupt the shell between any two instructions. Interrupt gates clear the
interrupt flag, so handlers do not interrupt each other unless one of them
executes `sti`.

| Part | State | Operations | Uses |
|---|---|---|---|
| Scheduler (`scheduler.c`) | 8 task slots, ready queue threaded through them, `current_task`, `system_ticks` | `task_create`, `task_yield`, `task_sleep`, `task_exit`, `schedule`, `scheduler_tick` (IRQ0) | terminal |
| Heap (`mm.c`) | block list inside 1 MB, statistics | `kmalloc`, `kmalloc_aligned`, `kcalloc`, `kfree`, `krealloc`, `mm_get_stats`, `mm_check_heap_integrity` | |
| Terminal (`kernel.c`) | 80 x 25 cells, cursor, colour | `terminal_putchar`, `terminal_clear`, `terminal_scroll_up`, writers of strings and numbers | |
| Shell and keyboard (`shell.c`) | line buffer, modifier flags | `keyboard_handler` (polled, and IRQ1), line editor, parser, 13 commands | all others |
| File system (`fs.c`) | 16 file entries and their bytes, in memory | `fs_init`, `fs_add_file`, `fs_find_file`, `fs_list`, `fs_read`, `fs_create_demo_files` | terminal |
| Interrupts (`idt.c`, `isr.c`, `interrupt.asm`) | IDT, PIC masks, handler table | `idt_init`, `isr_handler`, `irq_handler`, `irq_enable`, `irq_disable` | scheduler, shell |
| Start-up (`kernel.c`, `boot.asm`) | | `kernel_main` | all |
| Paging (`mm.c`), context switch (`task_switch.asm`) | a table that is never loaded; code that is never called | | |

What is hard here, and hard to test:

* the ready queue is a linked list whose tail is tested in one function and whose
  head in another, and which both task calls and the timer handler change;
* counters of fixed width that are compared or decremented at their limits;
* a heap whose blocks are cut and joined in any order, where a wrong link shows
  many calls later;
* loops that end only because of such invariants;
* edges: the last row and column of the screen, the last place of the buffer;
* after `enableints`, the same handler runs in the main loop and in an interrupt, on
  the same line buffer, the same heap and the same ready queue, and nothing disables
  interrupts around them.

`PROJECT.json` lists these hazards line by line with the properties for each.

## Modules

| Module | What it is |
|---|---|
| `Scheduler` | the scheduler, with the queue as head, tail and next pointers |
| `RoundRobin` | abstract: a first-in first-out ready list, one running task, sleepers |
| `SchedulerInterrupts` | `Scheduler` with `task_create` store by store and timer interrupts in between |
| `SchedulerOrder` | `Scheduler` with the history variable `order`, through which it implements `RoundRobin` |
| `Heap` | the block list, with addresses as numbers |
| `Allocator` | abstract: areas that lie in the heap and do not overlap |
| `HeapHistory` | `Heap` with `shrunk`, which remembers that `krealloc` has split a block in place |
| `HeapWalk` | the functions that walk the list, as recursive functions along it |
| `HeapInterrupts` | `cmd_memtest`, executed again by IRQ1 while it runs; built on `Heap` |
| `Terminal` | cell grid and cursor |
| `Teletype` | abstract: lines above, and the current line |
| `Shell` | keyboard, line editor, parser and commands in polling mode; built on `Terminal` |
| `ShellInterrupts` | the polled handler load by load and store by store, with IRQ1 in between; built on `Shell` |
| `Interrupts` | `kernel_main`, the IRQ path, and which `keyboard_handler` takes which scan code |
| `FileSystem` | the table of files and the array of their bytes |
| `FileStore` | abstract: a directory of named files that never change |
| `SchedulerProofs`, `SchedulerInterruptsProofs`, `SchedulerOrderProofs`, `HeapProofs`, `TerminalProofs`, `ShellProofs`, `InterruptsProofs`, `FileSystemProofs` | theorems |
| `MC...` | instances for TLC |

### Scheduler

Slot `i` stands for `&tasks[i-1]`; the fields of the slots are one function each.
Every exported function is one action that does all the function does, the call
of `schedule()` and `switch_to_task()` at its end included: `schedule(st, rem,
cur)` is given what its caller assigned before the call. `scheduler_tick` is
three actions, `TickCount`, one `TickWake` for each slot, and `TickCharge`; while
`tick_i` is not 0 the handler is running with interrupts off and no other action
is enabled. `task_create` with no free slot changes nothing and is no step.
Ids, names, stacks and saved registers are left out: nothing reads them, because
`switch_to_task` only simulates the switch and no caller looks at what `task_create`
returns. (Ids would repeat after 2^32 creations, and 0, which `task_create` returns when
there is no slot, would then be one of them.)

`Spec` lets any caller do anything. `IdleSpec` adds what the demo tasks do:
`cmd_starttasks` creates the idle task first, and `task_idle`, a `hlt` loop,
never sleeps or exits. The difference
matters: with an empty queue `schedule()` returns at once, and `task_sleep` returns
to a task that goes on executing in state SLEEPING and is later queued while it is
current.

`SchedulerInterrupts` replaces `task_create` by its stores in the order of the source;
`create` holds the slot and the tail that are in registers. The steps of `scheduler_tick` may come between any two.
`raced` remembers a tick that changed the queue while `task_create` held the tail it
had read. `task_yield`, `task_sleep` and `task_exit` are called by tasks only, which
never run in this kernel (run `sched_start`); they stay atomic.

### Heap

`hdr` maps the address of each block to its header, whose `next` and `prev` are
addresses, so gaps, overlaps and dangling links are expressible. `live` records
what callers hold; the code has no such table, and it influences no step except
by choosing arguments callers may pass. The two loops of `merge_free_blocks` are
one action per iteration. `find_free_block` is the lowest block that fits;
`HeapWalk` has the walk itself and the property `WalkFindsLowest` that they
agree. `size_t` arithmetic is modulo `SIZE_MOD`. Calls that return NULL, and the
second `kfree` of a block, change nothing and are no steps. `kcalloc` with a
count of 0 divides by zero and ends in `isr_handler`'s `hlt` loop (`pc =
"fault"`). Of `krealloc`, the cases `ptr == NULL` and `new_size == 0` are
`kmalloc` and `kfree`; its sizes do not come near 2^32. Nothing in the
kernel calls `krealloc`. Three properties hold only until it has split a block in
place, which `HeapHistory` remembers in `shrunk`.

In `HeapInterrupts` the main loop executes `memtest`, and an Enter key delivered by
IRQ1 executes the line again, inside: `shell_clear_buffer` comes only after the
command. The interrupt comes between two calls or two iterations of
`merge_free_blocks`; the inner command runs to its end with interrupts off.

### Terminal and shell

The terminal's functions are operators on its state, which the shell's actions
compose. The shell has one action per kind of scan code; the action for Enter
goes from the newline through parser and command to the next prompt. A
command is abstracted to its kind: `clear`, `echo`, `halt`, unknown, or one that
writes some text. `held` (which modifier keys are down) restricts what the
keyboard can send to what a keyboard sends; `typed` is the line as the user sees
it and is only observed. PrintScreen and other grey keys send `E0 2A` before their own
code and `E0 AA` after it: the handler takes `E0` for the release of a key it does not
know and the rest for left shift, so `"grey"` is one of the keys that set the flag. With a
shift key down such a key sends `E0 AA` first instead, which only clears the flag early;
that is left out.

`ShellInterrupts` starts where `cmd_enableints` has executed `sti`. The handler in
the loop is one action per access to `input_buffer`, `buffer_pos` or
`keyboard_state`. `buffer_pos` is read once for the test, the store and the increment,
as a compiler that optimises (`-O2` in the Makefile) does; the two stores that follow, to
the line and to `buffer_pos`, come in either order (`Store`), since the language fixes
none. The handler in the interrupt is one
action, composed of the pieces of `Shell`. The screen is not followed. An IRQ1 that
executes `enableints` itself is left to `Interrupts`.

The loops of `terminal_write`, `shell_parse_command` and `cmd_echo` are recursive
functions of the round: `token[n]` is the parser's pointer when `n` arguments have been
found. `ArgsAreWords` is stated without any of them: the starts of words are a set of
positions of the typed line, and the `n`-th word is the one with `n` starts up to it.

### File system

Names and contents are sequences of bytes; an entry's name field and `file_data` are
the arrays of the code, so that a name without its NUL or two files that share bytes
can be expressed. The calls in `fs_create_demo_files` are one action each. `answer`
is what the last call returned, with the bytes that `cmd_cat` prints. In the kernel
only `fs_init` adds files; the model lets any code call `fs_add_file`, `fs_init` and
`fs_create_demo_files` at any time, as the header allows.

### Start-up and interrupts

The main routine is `kernel_main`, one action per stage in `BootOrder`. `idt_init`,
`isr_init` and `register_interrupt_handler` fill the tables; of the other stages only
that they have run is kept (`initialised`). The bootloader leaves interrupts off
(`boot.asm`) and the PIC's masks open.

`stack` is the stack of routines in progress: `kernel_main`, later in `shell_run`, at
the bottom and one frame for each interrupt in progress, each with its program counter and its local
`scancode`. The top frame executes; a step ends where an interrupt makes a
difference. The PIC (mask, requests, in service), the timer and the keyboard
controller are external and modelled by what the ports do: the data port repeats the
last byte when there is no new one, and a request stays latched when polling has
already taken the byte. The number `irq_handler` reads as `r->int_no` is any element
of `IntNos`, since `interrupt.asm` pushes no pointer; behind the handler table any
word can be found, and a call there is a state without exit (`"lost"`). A scan code
is the number of the key stroke; what matters about it is whether it enters
`enableints`, `halt` or something else. `scheduler_tick` runs with interrupts off to
its end and has no effect here.

## Runs

| Run | Result | What it shows |
|---|---|---|
| `sched_api` | holds | for any caller, with ticks between the stores of `task_create`: one running task, the slot in execution is never reused, queue ends agree outside one window |
| `sched_idle` | holds | with an idle task: the linked queue is the ready tasks in order and implements `RoundRobin`, sleeping and exiting find a successor; ready tasks run and sleepers wake |
| `sched_slice` | violated | a slice that expires with an empty queue wraps `time_remaining` |
| `sched_start` | violated | tasks made by `starttasks` never run: nobody calls `schedule()` first |
| `heap_safe` | holds | for requests that do not wrap: tiling, no leak, counters, integrity check, refinement of `Allocator`; the merge loops return; until a block is split in place, free neighbours are merged, payloads aligned and statistics right |
| `heap_wrap` | violated | `kmalloc` of a size that rounding takes past 2^32 returns a block that is too small |
| `heap_reentry` | violated | `memtest` executed inside `memtest`: the outer `merge_free_blocks` goes on with a block that has been merged away |
| `shell_line` | holds | buffer and screen bounds, arguments are the typed words, shift not stuck, also where the line wraps and scrolls |
| `shell_echo` | violated | where the line has just wrapped, `shell_backspace` erases in the buffer and not on the screen |
| `shell_ints` | holds | with IRQ1 between any two accesses: no write outside the buffer, the last place holds NUL, the parser stays inside and comes to an end |
| `parts` | holds | interrupts: from start-up on, with any `int_no`, interrupts come on only when gates, handlers and components are ready, handlers nest only after `sti`, no interrupt stays in service, the main loop stays interruptible, no key stroke is lost or waits for ever; terminal: no stale characters, refinement of `Teletype`; files: names keep their NUL, the demo files are loaded, files never change, refinement of `FileStore` |
| `ints_dispatch` | violated | the stubs pass no register structure: `irq_handler` runs another handler or none |

Run `parts` is about three modules that share no state. Each of its behaviours is one of
the module chosen in the initial state, and the two others stay where they start:
interleaving them would multiply the states and show nothing.

Each violated property states what a comment or message in the code says; the
findings in `PROJECT.json` quote them. Other facts met while modelling have no run:

* without another ready task `task_sleep` returns to a SLEEPING task (above);
* a sleep across the wrap of `system_ticks` ends at the next tick;
* `krealloc` that shrinks in place cuts at an unrounded size, which misaligns later
  payloads, and updates no statistics (hence `shrunk`);
* releasing one of two shift keys clears `SHIFT_PRESSED` while the other is down;
* after `enableints` a scan code can also be handled after one that came later: the
  loop has read it, and IRQ1 comes before it is handled;
* an IRQ1 between the loop's reads of the status and the data port (`shell.c:139`)
  takes the scan code, and the loop reads the same byte and handles it again;
* a grey key held alone turns shift on (above);
* after `enableints` the two handlers can lose or exchange characters, leave a NUL
  inside the line, so that the rest of it is ignored, and leave shift on after its
  key is up (the loop has read the press, and IRQ1 handles the release first); keys
  typed while a command runs are cleared with its line. What `shell_ints` shows is
  that memory stays intact, and only because `buffer_pos` is read once: read again
  for the store or the increment, it would not (the mutants of `PutChar` and
  `StorePos`);
* a tick that empties or extends the queue between the load and the store of the tail
  in `task_queue_add` leaves head and tail in disagreement or loses a task. In this
  kernel `current_task` stays NULL, so that no task sleeps and no tick changes the queue;
* on the screen, an interrupt inside `shell_backspace` that wraps to a new line lets
  its second decrement take `terminal_column` below 0.

### Bounds

* Scheduler: 3 slots, so that one task runs, one is queued and one sleeps or is
  reused; a slice of 1 or 2 ticks and a warm-up of 1, so that both sides of each
  comparison occur; counters modulo 3 or 6, so that `system_ticks` wraps. Behaviours
  are unbounded, and slots are reused again and again.
* Heap: units of 4 bytes, so that header (16), rounding (8) and smallest
  remainder (32) keep their proportions in a heap of 192 bytes (256 for two nested
  `memtest`), which holds up to four blocks; 4 allocations (`MaxAllocs`), any
  number of frees. The requests include one that splits, one that does not fit after
  two others, and a `kcalloc` that overflows. No size wraps when it is rounded, except
  in `heap_wrap`: that run ends where the block is too small, for what the caller, or
  `kcalloc`'s `memset`, then writes over the next header is not modelled.
* Terminal: 3 x 3 cells with two glyphs: every wrap and scroll happens; behaviours
  are unbounded.
* Shell: a buffer of 6 and 2 arguments, or, with interrupts, a buffer of 4 and one
  argument, so that both limits are reached; 4 x 2 cells, so that a full line wraps and scrolls;
  behaviours are unbounded.
* Interrupts: 3 key strokes, so that `enableints` runs inside the handler of another
  `enableints` with a further key to come; interrupt numbers of both handlers, of
  none, and behind the table.
* File system: 4 entries, 2 of them demo files, fields of 3 bytes; names and contents
  of every length up to the first that is refused; behaviours are unbounded.

Only `heap_reentry` checks no deadlock, because it ends with its allocations; a
halted machine stutters explicitly.

### Fairness

`IdleFairSpec` and `OrderFairSpec` have weak fairness of `scheduler_tick`: the timer is periodic and its
handler is a bounded loop. Nothing is assumed of tasks, which may compute for
ever. `HistorySpec` of the heap has weak fairness of the steps of
`merge_free_blocks`, straight-line code that nothing blocks. `FairSpec` of
the interrupts, whose fairness `PartsSpec` takes over, has strong fairness of each nesting level: interrupts come again and
again but leave every routine time to go on, since the timer's period is long
compared with its handler. `IntSpec` of the shell has weak fairness of the steps of
the polled handler, for the same reason; nothing is assumed of the keyboard.

## Proofs

TLAPS proves the theorems below for every value of the constants allowed by the named
assumptions next to the declarations. `SchedulerConstants`, `HeapConstants`,
`TerminalConstants`, `ShellConstants`, `InterruptsConstants` and `FileSystemConstants`
say what kind of value each constant is. Five say more:

* `NoWrap`, a hypothesis of two heap theorems: no request is within the rounding of 2^32
  (run `heap_wrap` is why it is needed);
* `NoEraseAtEdge`, a hypothesis of `EchoTrue` in `ShellProofs`: no character is taken back
  with the cursor in column 0 (likewise run `shell_echo`);
* `AlignedConstants` (`HeapHistory`): the start of the heap and the size of a header
  are multiples of 8, as in `mm.h`;
* `EnableintsFits` (`ShellInterrupts`): the command that turns interrupts on fits into
  the line buffer;
* `DemoFilesFit` (`FileSystem`): the files of `fs_create_demo_files` are no more than
  the table has entries, are short enough and have different names. The code's five
  have names of at most 11 bytes, and the longest is shorter than 500.

Every proof has the same form: an inductive invariant, the lemma that every action
preserves it, and theorems that are its consequences.

What a loop computes takes an induction over its rounds as well. The library's induction
theorems take an operator as a parameter, which the provers cannot instantiate; the
proofs use sets instead. `LeastNumber`, from the library's theorem that `<` is
well-founded on `Nat`, says that a non-empty set of numbers has a least element, and the
set to apply it to is that of the rounds, or of the blocks, where the claim fails. In
`ShellProofs` two lemmas follow from it: `UpTo`, that a set with 0 and with the successor
of each of its elements up to `N` holds `0 .. N`, and `Loop`, that a loop of `N` rounds
has a function from rounds to states. `Loop` shows that the `CHOOSE` behind a recursive
function has something to choose.

**Scheduler.** `SchedulerProofs!TypeCorrect` and `ApiSafe` are about `Spec`, with
`task_create` as a whole. `SchedulerInterruptsProofs` proves all four properties of
`sched_api` for the scheduler with ticks between the stores of `task_create`
(`TypesInterrupted`, `OneRunning`, `CurrentKept`, `RaceWindow`). `RaceWindow` needs `EndsInv`: as
long as no tick changed the queue in the window, the register holds the
queue's tail until the task is linked in, and after that only the store of the tail is
missing.

`SchedulerOrderProofs!QueueCorrect` and `CurrentAlwaysRuns` are about the idle-task
discipline. `QueueInOrder`, `CurrentRuns` and `IdleRunnable` are only inductive
together: that `task_sleep` and `task_exit` find a successor needs an idle task in the
queue, that it is in the queue needs `QueueInOrder`, and that a woken or preempted task
is not linked in twice needs that the current task is RUNNING. The argument follows the
sequence `order`, which the pointers spell out (`Spells`), through each action.
`Implements`: every step is a `RoundRobin` step or a stutter.

**Heap.** `HeapProofs!HeapCorrect` proves `TypeOK`, `Tiled` and `UsedIsLive` for all
calls, `krealloc` included. The inductive invariant `HeapInv` adds `MergingFree`, that
the block being merged is free and in the list; the core are two lemmas on single heaps,
`SplitKeepsTiled` and `AbsorbKeepsTiled`. `RequestsFit` and `Implements` (of
`Allocator`) hold under `NoWrap`, so that a wrap is the only way to get a block that is
too small; `OverflowCheckExact` shows that `kcalloc`'s test
detects exactly the products that overflow. `Restores` (`AllFreedRestores`) and
`MergesAll` (`Coalesced`) need `NextDone`, that the second loop of `merge_free_blocks`
starts only when the block has no free successor left, and `MergesAll` needs
`PairsAtBlock`, that two free neighbours exist only where the merge is at work.
`PointersAligned` (`PayloadsAligned`) needs that blocks, not only payloads, are aligned.
`CountsRight` is the part of `StatsAgree` that counts blocks: `UsedIsLive` turns it into a
statement about what callers hold.

`WalkRight` (`WalkFindsLowest`), `IntegrityRight` (`IntegrityHolds`) and `StatsRight`
(`StatsAgree`) are about the whole list. In a tiled heap `next` is the neighbour above, so
that both walks are well-defined by induction from the last block down, the walk of
`find_free_block` passes over no block that fits, and the total that
`mm_check_heap_integrity` adds up is the distance from the start of the heap, which ends at
its size. `used_memory` is the number of payload bytes in use: an allocated or freed
block adds or removes the bytes of one interval that meets no other, and merging, which
joins free blocks, none.

**Terminal.** `TerminalProofs!TerminalSafe`: the cursor stays on the screen and the
cells ahead of it are blank. `TeletypeImplemented`: the grid implements `Teletype`. It
rests on what `NextRow` does to the lines above the cursor (`NextRowJoins`), on the blank
cells, which are the padding of a line that a newline ends (`RowPadded`), and on the one
cell that a character or a backspace changes (`CellPut`, `EraseLines`).

**Shell.** `ShellProofs!LineSafe` and `ShiftReleased` are about polling mode. With IRQ1
between any two accesses, `ParserStaysInside` (`IntTypeOK`) and `AlwaysTerminated`
(`BufferEnds`) hold because each copy of `buffer_pos` that the interrupted handler holds
left room for the NUL when it was read, and the last place of the buffer is only ever
given a NUL; the parser stops there at the latest.

`ArgsRight` (`ArgsAreWords`): the buffer holds exactly the typed line and NULs after it
(`LineHeld`, inductive over all keys), and in every round of the parser's loop the pointer is at the
end of the line or at the start of a word, with as many words before it as arguments have
been found (`AtToken`, `FirstToken`, `FollowingToken`). Counting starts of words
(`CountFacts`, `CountOnce`) then gives number and order of the arguments (`Parsed`).
`ShellSafe` (`TypeOK`): the screen stays a screen with blank cells ahead of the cursor
through every text, prompt and `echo` (`WritesExist`, `EchoClean`, `ExecuteClean`); that
the arguments are sequences of characters, which `echo` prints, comes from `Parsed`.

`EchoTrue` (`EchoShown`) numbers the cells by their distance before the cursor. A character
adds one to the distance of every cell, also where the line wraps and where the
screen scrolls (`PutShown`), and a backspace outside column 0 takes one away
(`EraseShown`). The hypothesis `NoEraseAtEdge` is needed: in column 0 `shell_backspace`
leaves the screen as it is (run `shell_echo`). The theorem shows that this is the only
way in which screen and line come apart: it covers lines that wrap and scroll.

**Interrupts.** `InterruptsProofs` proves the six safety properties of `Interrupts` that run `parts` checks, for
any `int_no` and any number of key strokes: `NestingBounded` (`TypeOK`),
`HandlersUninterrupted`, `EoiComplete`, `MainStaysInterruptible`, `KeysKept`,
`ReadyWhenOn`. The invariant `IntInv` has a part for start-up (what `kernel_main` has
done at each stage), for nesting, for the masks, for key strokes and for depth. The
depth of the stack is the hard one: a handler that lets itself be interrupted has
executed `enableints` for a key stroke of its own (`DepthInv`), so that there are no more
such handlers than key strokes, by counting.

**File system.** `FileSystemProofs` proves the four properties of the file system. The
invariant `FsInv` adds to the types that there is no file before `fs_init`, that every
file has the area of its slot, that no two have one name, and how far `fs_init` has come
with the demo files (`DemoInv`). Areas are disjoint because `i * FS_MAX_FILESIZE` is
monotonic (`AreaEnds`), so that an added file leaves the bytes of the others
(`AcceptedOld`) and is read back as it was given (`AcceptedNew`, `StrcpyReads`). For
`StoreImplemented`, every call of `fs_add_file`, those of `fs_create_demo_files`
included, is one `Add`; unique names make the first file of a name the only one
(`FoundIs`).

`HeadTailAgree`, `IdleRunnable`, `UsedIsLive`, `TerminalType` and `LineType` are checked
by no run of their own: they are parts of these inductive invariants. So is `CountsAgree`,
which `heap_safe` checks inside `StatsAgree`. `RequestFits` and `EchoShown`, which the code
violates, are proved under the hypotheses above.

Only model-checked: liveness (`ReadyRuns`, `SleeperWakes`, `MergeReturns`,
`HandlerReturns`, `KeyRead`), since the prover does not do fairness.

## Not modelled

* Contents of heap payloads; printing of statistics, numbers and listings; colours.
* Paging (a constant table that is never loaded), `task_switch.asm`,
  `process_command`, `irq_disable` and `fs_print_file_info` (never called), boot code.
* Exceptions: `isr_handler` stops the machine. The division in `kcalloc` is in `Heap`;
  otherwise only a call through an arbitrary word (`"lost"`) could raise one, and what
  happens then is arbitrary.
* `kfree` of a pointer from `kmalloc_aligned`: no header precedes it, and what `kfree`
  reads there is payload.
* The screen once interrupts are on, `starttasks` inside `starttasks`, and interrupts
  between the stores of `kmalloc`. Each is listed as a hazard or named above.

## Plan

1. Done: every part of the system that keeps state, its abstract specification where
   it promises something to callers, and its behaviour under interrupts.
2. Done: a proof of every safety property and refinement the passing runs check, and of
   `RequestFits` and `EchoShown` outside the cases in which the code breaks them.
3. Left: what `memtest` inside `memtest` still preserves, and liveness, which stays with
   TLC.
