------------------------------- MODULE Interrupts -------------------------------
(***************************************************************************)
(* How MiniCore-OS starts, and how the keyboard reaches its shell once     *)
(* interrupts are on (kernel_main in kernel.c, idt.c, isr.c,               *)
(* interrupt.asm, shell.c).  shell_run goes on polling                     *)
(* the keyboard after the command enableints, and the same                 *)
(* keyboard_handler also runs from IRQ1, between any two instructions of   *)
(* the loop; IRQ0 interrupts both.                                         *)
(*                                                                         *)
(* stack holds the routines in progress, the main loop at the bottom and   *)
(* the routine that executes on top; a frame is the program counter of a   *)
(* routine, its local variable scancode, the line that interrupted and the *)
(* handler that was chosen for it.  A routine step is what happens between *)
(* two points at which an interrupt makes a difference.                    *)
(*                                                                         *)
(* The stubs call irq_handler without pushing a pointer.  What it takes    *)
(* for its argument r is the word below, the saved data segment and the    *)
(* upper half of eax, so that r->int_no is read from an arbitrary address: *)
(* it is any element of IntNos.                                            *)
(*                                                                         *)
(* A scan code is the number of the key stroke that sent it, and sent[n]   *)
(* says what handling it amounts to: the Enter that runs the command       *)
(* enableints or halt, or anything else ("char").  The line editor and the *)
(* parser are in Shell.  handled is only observed.                         *)
(*                                                                         *)
(* The main routine starts as kernel_main.  Its stages that matter here    *)
(* fill the two tables and the PIC; of the others only that they have run  *)
(* is kept, since a handler uses what they initialise.                     *)
(***************************************************************************)
EXTENDS Integers, Sequences, SequencesExt

CONSTANTS
    IntNos,     \* what r->int_no can be
    MaxKeys     \* bound: number of key strokes in a behaviour

ASSUME InterruptsConstants == IntNos \subseteq Nat /\ MaxKeys \in Nat

VARIABLES
    IF_flag,        \* the processor's interrupt flag
    mask,           \* the lines masked in the PIC
    irr,            \* the lines with a request in the PIC
    in_service,     \* the lines whose interrupt waits for its EOI
    out_full,       \* bit 0 of the keyboard's status port
    out_data,       \* the byte at the keyboard's data port
    sent,           \* the key strokes so far
    stack,          \* the routines in progress
    handled,        \* the scan codes in the order in which they were handled
    idt_entries,    \* the gates that are present, by vector
    interrupt_handlers, \* the registered handlers, by interrupt number
    initialised     \* the stages of kernel_main that have run

pic == <<mask, irr, in_service>>
keyboard == <<out_full, out_data, sent>>
kernel == <<idt_entries, interrupt_handlers, initialised>>
vars == <<IF_flag, pic, keyboard, stack, handled, kernel>>

Lines == {0, 1}         \* timer and keyboard
MainLoop == 16          \* in place of a line, for the frame of shell_run
Effects == {"char", "enableints", "halt"}

\* The vector of a line, once idt_init has moved those of the PIC behind the
\* exceptions.
Vector(irq) == 32 + irq

NoEntries == [v \in {} |-> "none"]

Top == stack[Len(stack)]
Below == SubSeq(stack, 1, Len(stack) - 1)
InMain == Len(stack) = 1

\* The frames with the executing routine at pc.
At(pc) == [stack EXCEPT ![Len(stack)].pc = pc]

\* Where keyboard_handler returns to: the loop of shell_run, or the IRQ stub.
Return == IF InMain THEN "poll" ELSE "iret"

\* Mutant of BootOrder: the table of handlers is cleared after they are registered.
BootOrder_clears_late ==
    <<"terminal_initialize", "mm_init", "idt_init", "scheduler_init", "fs_init",
      "register_irq0", "register_irq1", "isr_init", "shell_init">>

\* What kernel_main calls before shell_run.
BootOrder ==
    <<"terminal_initialize", "mm_init", "idt_init", "isr_init", "scheduler_init", "fs_init",
      "register_irq0", "register_irq1", "shell_init">>
Stages == Range(BootOrder)

\* Where kernel_main goes on after a stage.
After(stage) == IF stage = Last(BootOrder) THEN "poll"
                ELSE BootOrder[1 + CHOOSE i \in DOMAIN BootOrder : BootOrder[i] = stage]

\* The bootloader leaves interrupts off and says nothing of the PIC's masks.
Init ==
    /\ IF_flag = FALSE
    /\ mask \in SUBSET Lines
    /\ irr = {} /\ in_service = {}
    /\ out_full = FALSE /\ out_data = 0 /\ sent = <<>>
    /\ stack = <<[irq |-> MainLoop, runs |-> "kernel_main", pc |-> BootOrder[1],
                  scancode |-> 0]>>
    /\ handled = <<>>
    /\ idt_entries = NoEntries /\ interrupt_handlers = NoEntries
    /\ initialised = {}

----------------------------------------------------------------------------
\* kernel_main.

\* What every stage does: kernel_main, with interrupts off, goes on to the next.
Boot(stage) ==
    /\ Top.pc = stage /\ stack' = At(After(stage))
    /\ initialised' = initialised \cup {stage}
    /\ UNCHANGED <<IF_flag, in_service, keyboard, handled>>

\* The gates are cleared and set, and the PIC is initialised, which drops its
\* requests, and then masked.
idt_init ==
    /\ Boot("idt_init")
    /\ idt_entries' = [v \in 0 .. 47 |-> IF v < 32 THEN "isr" ELSE "irq"]
    /\ mask' = Lines /\ irr' = {}
    /\ UNCHANGED interrupt_handlers

isr_init ==
    /\ Boot("isr_init")
    /\ interrupt_handlers' = NoEntries
    /\ UNCHANGED <<idt_entries, mask, irr>>

register_interrupt_handler(stage, n, handler) ==
    /\ Boot(stage)
    /\ interrupt_handlers' = [m \in DOMAIN interrupt_handlers \cup {n} |->
                                IF m = n THEN handler ELSE interrupt_handlers[m]]
    /\ UNCHANGED <<idt_entries, mask, irr>>

\* A stage that initialises another component.
InitComponent(stage) ==
    /\ stage \in {"terminal_initialize", "mm_init", "scheduler_init", "fs_init", "shell_init"}
    /\ Boot(stage)
    /\ UNCHANGED <<idt_entries, interrupt_handlers, mask, irr>>

kernel_main ==
    \/ idt_init \/ isr_init
    \/ register_interrupt_handler("register_irq0", Vector(0), "scheduler_tick")
    \/ register_interrupt_handler("register_irq1", Vector(1), "keyboard_interrupt_handler")
    \/ \E stage \in Stages : InitComponent(stage)

----------------------------------------------------------------------------
\* The devices.

\* The timer raises IRQ0 periodically.
TimerFires ==
    /\ irr' = irr \cup {0}
    /\ UNCHANGED <<IF_flag, mask, in_service, keyboard, stack, handled, kernel>>

\* The keyboard controller offers the next scan code, once the last one has been
\* read, and raises IRQ1.
KeyArrives(effect) ==
    /\ ~out_full /\ Len(sent) < MaxKeys
    /\ sent' = Append(sent, effect)
    /\ out_full' = TRUE /\ out_data' = Len(sent')
    /\ irr' = irr \cup {1}
    /\ UNCHANGED <<IF_flag, mask, in_service, stack, handled, kernel>>

\* What a vector leads to: the stub of its gate, or nothing the code provides.
Gate(irq) ==
    IF Vector(irq) \in DOMAIN idt_entries THEN idt_entries[Vector(irq)] ELSE "lost"

\* Mutant of Interrupt: the gate leaves the interrupt flag on.
Interrupt_trap(irq) ==
    /\ IF_flag /\ irq \in irr \ mask
    /\ \A other \in in_service : irq < other
    /\ irr' = irr \ {irq} /\ in_service' = in_service \cup {irq}
    /\ stack' = Append(stack, [irq |-> irq, runs |-> "none", pc |-> Gate(irq), scancode |-> 0])
    /\ UNCHANGED <<IF_flag, mask, keyboard, handled, kernel>>

\* The processor takes an interrupt, through an interrupt gate and the stub,
\* unless one of the same or a higher priority is in service.
Interrupt(irq) ==
    /\ IF_flag /\ irq \in irr \ mask
    /\ \A other \in in_service : irq < other
    /\ irr' = irr \ {irq} /\ in_service' = in_service \cup {irq}
    /\ IF_flag' = FALSE
    /\ stack' = Append(stack, [irq |-> irq, runs |-> "none", pc |-> Gate(irq), scancode |-> 0])
    /\ UNCHANGED <<mask, keyboard, handled, kernel>>

----------------------------------------------------------------------------
\* The IRQ stubs and irq_handler.

\* Mutant of irq_ack: the EOI goes to one of the two PICs.
irq_ack_either(irq) ==
    IF in_service = {} \/ irq >= 8 THEN in_service ELSE in_service \ {Min(in_service)}

\* The lines in service after an EOI that does not name one: the master always
\* gets it, and no line of the slave is ever unmasked.
irq_ack(irq) == IF in_service = {} THEN {} ELSE in_service \ {Min(in_service)}

\* The handler found at int_no; behind the table, any word of memory.
Found(int_no) ==
    CASE int_no \in DOMAIN interrupt_handlers -> {interrupt_handlers[int_no]}
      [] int_no \in 0 .. 255 \ DOMAIN interrupt_handlers -> {"none"}
      [] OTHER -> {"none", "unknown"}

\* scheduler_tick, which is in Scheduler, runs with interrupts off to its end.
FirstPc(handler) ==
    IF handler = "keyboard_interrupt_handler" THEN "poll"
    ELSE IF handler = "unknown" THEN "lost" ELSE "iret"

\* Mutant of irq_handler: interrupts are enabled for the handler.
irq_handler_sti(int_no) ==
    /\ Top.pc = "irq"
    /\ in_service' = irq_ack((int_no - 32) % 256)
    /\ \E handler \in Found(int_no) :
          stack' = [At(FirstPc(handler)) EXCEPT ![Len(stack)].runs = handler]
    /\ IF_flag' = TRUE
    /\ UNCHANGED <<mask, irr, keyboard, handled, kernel>>

irq_handler(int_no) ==
    /\ Top.pc = "irq"
    /\ in_service' = irq_ack((int_no - 32) % 256)
    /\ \E handler \in Found(int_no) :
          stack' = [At(FirstPc(handler)) EXCEPT ![Len(stack)].runs = handler]
    /\ UNCHANGED <<IF_flag, mask, irr, keyboard, handled, kernel>>

\* Mutant of iret: the stub returns without the saved flags.
iret_flags ==
    /\ Top.pc = "iret"
    /\ stack' = Below
    /\ UNCHANGED <<IF_flag, pic, keyboard, handled, kernel>>

\* iret restores the flags of a routine that could be interrupted.
iret ==
    /\ Top.pc = "iret"
    /\ stack' = Below /\ IF_flag' = TRUE
    /\ UNCHANGED <<pic, keyboard, handled, kernel>>

----------------------------------------------------------------------------
\* keyboard_handler, in the main loop and in IRQ1.

\* Mutant of ReadStatus: shell_run stops polling once interrupts are on.
ReadStatus_irq_only ==
    /\ Top.pc = "poll"
    /\ stack' = IF out_full /\ ~IF_flag THEN At("data") ELSE At(Return)
    /\ UNCHANGED <<IF_flag, pic, keyboard, handled, kernel>>

\* keyboard_read_scancode: the status port.
ReadStatus ==
    /\ Top.pc = "poll"
    /\ stack' = IF out_full THEN At("data") ELSE At(Return)
    /\ UNCHANGED <<IF_flag, pic, keyboard, handled, kernel>>

\* Mutant of ReadData: scancode is one static variable.
ReadData_static ==
    /\ Top.pc = "data"
    /\ out_full' = FALSE
    /\ stack' = [i \in DOMAIN stack |-> [At("run")[i] EXCEPT !.scancode = out_data]]
    /\ UNCHANGED <<IF_flag, pic, out_data, sent, handled, kernel>>

\* keyboard_read_scancode: the data port, which repeats the last byte when there
\* is no new one.
ReadData ==
    /\ Top.pc = "data"
    /\ out_full' = FALSE
    /\ stack' = [At("run") EXCEPT ![Len(stack)].scancode = out_data]
    /\ UNCHANGED <<IF_flag, pic, out_data, sent, handled, kernel>>

\* The scan code is handled, with all that follows from it, unless it runs a
\* command that changes the interrupt flag.  An Enter handled again finds the
\* line empty.
HandleKey ==
    /\ Top.pc = "run"
    /\ handled' = Append(handled, Top.scancode)
    /\ LET again == Top.scancode \in Range(handled)
           effect == IF again THEN "char" ELSE sent[Top.scancode]
       IN  /\ stack' = CASE effect = "char"       -> At(Return)
                         [] effect = "enableints" -> At("irq_enable_1")
                         [] effect = "halt"       -> At("halted")
           /\ IF_flag' = (IF_flag /\ effect # "halt")
    /\ UNCHANGED <<pic, keyboard, kernel>>

\* cmd_enableints
EnableKeyboard ==
    /\ Top.pc = "irq_enable_1"
    /\ mask' = mask \ {1} /\ stack' = At("irq_enable_0")
    /\ UNCHANGED <<IF_flag, irr, in_service, keyboard, handled, kernel>>

EnableTimer ==
    /\ Top.pc = "irq_enable_0"
    /\ mask' = mask \ {0} /\ stack' = At("sti")
    /\ UNCHANGED <<IF_flag, irr, in_service, keyboard, handled, kernel>>

Sti ==
    /\ Top.pc = "sti"
    /\ IF_flag' = TRUE /\ stack' = At("prompt")
    /\ UNCHANGED <<pic, keyboard, handled, kernel>>

\* The rest of the command and shell_process_input, with interrupts on.
Prompt ==
    /\ Top.pc = "prompt"
    /\ stack' = At(Return)
    /\ UNCHANGED <<IF_flag, pic, keyboard, handled, kernel>>

cmd_enableints == EnableKeyboard \/ EnableTimer \/ Sti \/ Prompt

\* cmd_halt has stopped the machine, or irq_handler has called an address that
\* is no function.
Stopped == Top.pc \in {"halted", "lost"}
Stay == Stopped /\ UNCHANGED vars

----------------------------------------------------------------------------
keyboard_handler == ReadStatus \/ ReadData \/ HandleKey \/ cmd_enableints

\* The routine on top goes on.
Execute ==
    kernel_main \/ (\E int_no \in IntNos : irq_handler(int_no)) \/ iret \/ keyboard_handler

Next ==
    \/ TimerFires
    \/ \E effect \in Effects : KeyArrives(effect)
    \/ \E irq \in Lines : Interrupt(irq)
    \/ Execute
    \/ Stay

Spec == Init /\ [][Next]_vars

\* Each routine goes on although interrupts keep coming: the timer's period is
\* long compared with what its handler takes.
MaxDepth == MaxKeys + 2
FairSpec == Spec /\ \A depth \in 1 .. MaxDepth : SF_vars(Len(stack) = depth /\ Execute)

----------------------------------------------------------------------------
Pcs == {"poll", "data", "run", "irq_enable_1", "irq_enable_0", "sti", "prompt",
        "irq", "iret", "halted", "lost"} \cup Stages
Handlers == {"kernel_main", "scheduler_tick", "keyboard_interrupt_handler", "none", "unknown"}

\* The types, and that routines nest no deeper than one for each enableints, one
\* timer interrupt and the main loop: the stack does not overflow unless
\* enableints is entered over and over inside its own output.
TypeOK ==
    /\ IF_flag \in BOOLEAN /\ out_full \in BOOLEAN
    /\ mask \subseteq Lines /\ irr \subseteq Lines /\ in_service \subseteq Lines
    /\ sent \in Seq(Effects) /\ Len(sent) <= MaxKeys
    /\ out_data \in 0 .. Len(sent)
    /\ handled \in Seq(1 .. Len(sent))
    /\ stack \in Seq([irq : Lines \cup {MainLoop}, runs : Handlers, pc : Pcs,
                      scancode : 0 .. Len(sent)])
    /\ Len(stack) \in 1 .. MaxDepth
    /\ initialised \subseteq Stages

\* A handler is interrupted only after it has itself executed sti, which only
\* enableints does: everywhere else handlers run to their end.
NestsAfterSti ==
    \A i \in 2 .. Len(stack) - 1 : stack[i].pc \in {"prompt", "iret"}

\* No interrupt stays in service once irq_handler has run, whatever int_no it
\* read: no line is blocked for ever by a missing EOI.
NoStuckService == in_service # {} => Top.pc = "irq"

\* Once enableints has run in the main loop, the main loop can be interrupted
\* between any two of its steps: no handler returns with interrupts off.
MainInterruptible ==
    InMain /\ initialised = Stages /\ mask = {} /\ Top.pc \notin {"sti", "halted"} => IF_flag

\* Every key stroke is waiting at the keyboard, in the hands of one of the
\* nested keyboard_handlers, or handled: none is lost between polling and IRQ1.
NoKeyLost ==
    1 .. Len(sent) = Range(handled)
                     \cup {stack[i].scancode : i \in {j \in DOMAIN stack : stack[j].pc = "run"}}
                     \cup (IF out_full THEN {out_data} ELSE {})

\* A scan code that waits at the keyboard is read, even when every IRQ1 is sent
\* to the wrong handler, as long as the machine runs.
KeyRead == out_full ~> ~out_full \/ Stopped

\* The machine can be interrupted only once the gates, the handlers of both lines
\* and everything the handlers use are in place: kernel_main does not enable
\* interrupts ("DON'T enable them yet", kernel.c), and no command can run before
\* shell_run.
ReadyForInterrupts ==
    IF_flag => /\ \A irq \in Lines : /\ Gate(irq) = "irq"
                                     /\ Vector(irq) \in DOMAIN interrupt_handlers
               /\ initialised = Stages

\* An interrupt runs the handler registered for its line ("Call registered
\* handler if exists", irq_handler in isr.c; "called by IRQ1",
\* keyboard_interrupt_handler in shell.c).
RightHandler ==
    \A i \in DOMAIN stack :
        stack[i].irq \in Lines /\ stack[i].pc # "irq" =>
            /\ Vector(stack[i].irq) \in DOMAIN interrupt_handlers
            /\ stack[i].runs = interrupt_handlers[Vector(stack[i].irq)]
=============================================================================
