---------------------------- MODULE InterruptsProofs ----------------------------
(***************************************************************************)
(* What is proved of start-up and interrupts for every set of numbers that *)
(* irq_handler can read as r->int_no and any number of key strokes.        *)
(***************************************************************************)
EXTENDS Interrupts, FiniteSetTheorems, TLAPS

----------------------------------------------------------------------------
\* The inductive invariant, in parts.

Frame == [irq : Lines \cup {MainLoop}, runs : Handlers, pc : Pcs, scancode : 0 .. Len(sent)]

\* The types, without the bound on the nesting, and that the data port shows the
\* last key stroke.
Types ==
    /\ IF_flag \in BOOLEAN /\ out_full \in BOOLEAN
    /\ mask \subseteq Lines /\ irr \subseteq Lines /\ in_service \subseteq Lines
    /\ sent \in Seq(Effects) /\ Len(sent) <= MaxKeys
    /\ out_data = Len(sent)
    /\ handled \in Seq(1 .. Len(sent))
    /\ stack \in Seq(Frame) /\ Len(stack) >= 1
    /\ initialised \subseteq Stages
    /\ \A n \in DOMAIN interrupt_handlers : interrupt_handlers[n] \in Handlers

Booting == stack[1].pc \in Stages

\* Gates, handlers and components are in place.
Ready ==
    /\ \A irq \in Lines : Gate(irq) = "irq" /\ Vector(irq) \in DOMAIN interrupt_handlers
    /\ initialised = Stages

\* What kernel_main has done when it has come to the stage BootOrder[k].
DoneBefore(k) ==
    /\ initialised = {BootOrder[j] : j \in 1 .. k - 1}
    /\ k > 3 => mask = Lines /\ \A irq \in Lines : Gate(irq) = "irq"
    /\ k > 7 => Vector(0) \in DOMAIN interrupt_handlers
    /\ k > 8 => Vector(1) \in DOMAIN interrupt_handlers

BootInv ==
    /\ Booting => Len(stack) = 1 /\ ~IF_flag
    /\ \A k \in 1 .. Len(BootOrder) : stack[1].pc = BootOrder[k] => DoneBefore(k)
    /\ ~Booting => Ready

\* Only the routine on top can be in a stub before its EOI, the main routine is in
\* none, and a handler runs with interrupts off until it has executed sti.
NestInv ==
    /\ stack[1].pc \notin {"irq", "iret", "lost"}
    /\ \A i \in 2 .. Len(stack) : stack[i].pc \notin Stages
    /\ NestsAfterSti
    /\ IF_flag /\ Len(stack) >= 2 => Top.pc \in {"prompt", "iret"}
    /\ Top.pc = "irq" => ~IF_flag /\ \E irq \in Lines : in_service = {irq}
    /\ NoStuckService

\* After start-up the keyboard's line is unmasked before the timer's, and once both
\* are, only sti is missing.
MaskInv ==
    ~Booting =>
        /\ 1 \in mask => 0 \in mask
        /\ \A i \in 1 .. Len(stack) : stack[i].pc = "irq_enable_0" => 1 \notin mask
        /\ InMain /\ mask = {} /\ Top.pc \notin {"sti", "halted"} => IF_flag

\* A routine that goes to the data port has seen a key stroke.
KeyInv ==
    /\ \A i \in 1 .. Len(stack) :
          /\ stack[i].pc = "data" => Len(sent) > 0
          /\ stack[i].pc = "run" => stack[i].scancode > 0
    /\ NoKeyLost

\* The handler in frame i executes enableints, or has executed it and can be
\* interrupted.
Enabling(i) ==
    \/ stack[i].pc \in {"irq_enable_1", "irq_enable_0", "sti", "prompt"}
    \/ stack[i].pc = "iret" /\ (i < Len(stack) \/ IF_flag)

\* No two handlers execute enableints for the same key stroke.
DepthInv ==
    /\ \A i \in 2 .. Len(stack) : Enabling(i) => stack[i].scancode \in Range(handled)
    /\ \A i, j \in 2 .. Len(stack) :
          Enabling(i) /\ Enabling(j) /\ stack[i].scancode = stack[j].scancode => i = j

IntInv == Types /\ BootInv /\ NestInv /\ MaskInv /\ KeyInv /\ DepthInv

----------------------------------------------------------------------------
\* Start-up order.

StageSet ==
    {"terminal_initialize", "mm_init", "idt_init", "isr_init", "scheduler_init", "fs_init",
     "register_irq0", "register_irq1", "shell_init"}

LEMMA OrderFacts ==
    /\ Len(BootOrder) = 9 /\ DOMAIN BootOrder = 1 .. 9
    /\ BootOrder[1] = "terminal_initialize" /\ BootOrder[2] = "mm_init"
    /\ BootOrder[3] = "idt_init" /\ BootOrder[4] = "isr_init"
    /\ BootOrder[5] = "scheduler_init" /\ BootOrder[6] = "fs_init"
    /\ BootOrder[7] = "register_irq0" /\ BootOrder[8] = "register_irq1"
    /\ BootOrder[9] = "shell_init"
  BY DEF BootOrder

LEMMA OneToNine == \A k \in 1 .. 9 : k \in {1, 2, 3, 4, 5, 6, 7, 8, 9}
  OBVIOUS

LEMMA StagesAre == Stages = StageSet
  <1>1. Stages = {BootOrder[k] : k \in 1 .. 9}
    BY OrderFacts DEF Stages, Range
  <1>2. \A k \in 1 .. 9 : BootOrder[k] \in StageSet
    BY OrderFacts, OneToNine DEF StageSet
  <1>3. \A s \in StageSet : \E k \in 1 .. 9 : BootOrder[k] = s
    BY OrderFacts DEF StageSet
  <1> QED BY <1>1, <1>2, <1>3

LEMMA OrderInjective ==
    ASSUME NEW j \in 1 .. 9, NEW k \in 1 .. 9, BootOrder[j] = BootOrder[k]
    PROVE  j = k
  BY OrderFacts, OneToNine

LEMMA AfterIs ==
    ASSUME NEW k \in 1 .. 9
    PROVE  After(BootOrder[k]) = IF k = 9 THEN "poll" ELSE BootOrder[k + 1]
  <1>1. Last(BootOrder) = BootOrder[9]
    BY OrderFacts DEF Last
  <1> DEFINE place == CHOOSE i \in DOMAIN BootOrder : BootOrder[i] = BootOrder[k]
  <1>2. place = k
    BY OrderFacts, OrderInjective
  <1>3. 9 \in 1 .. 9
    OBVIOUS
  <1>4. BootOrder[k] = BootOrder[9] <=> k = 9
    BY <1>3, OrderInjective
  <1>5. CASE k = 9
    BY <1>1, <1>4, <1>5 DEF After
  <1>6. CASE k # 9
    <2>1. After(BootOrder[k]) = BootOrder[1 + place]
      <3>1. BootOrder[k] # Last(BootOrder)
        BY <1>1, <1>4, <1>6
      <3> QED BY <3>1 DEF After
    <2> HIDE DEF place
    <2> QED BY <2>1, <1>2, <1>6
  <1> QED BY <1>5, <1>6

----------------------------------------------------------------------------
\* The stack.

LEMMA StackFacts ==
    ASSUME Types
    PROVE  /\ Len(stack) \in Nat /\ Len(stack) >= 1 /\ DOMAIN stack = 1 .. Len(stack)
           /\ Len(stack) \in 1 .. Len(stack) /\ 1 \in 1 .. Len(stack)
           /\ \A i \in 1 .. Len(stack) : stack[i] \in Frame
           /\ Top = stack[Len(stack)]
           /\ Len(sent) \in Nat
  BY DEF Types, Top

\* The routine on top becomes f.
LEMMA ReplaceTop ==
    ASSUME Types, NEW f, stack' = [stack EXCEPT ![Len(stack)] = f]
    PROVE  /\ Len(stack') = Len(stack) /\ DOMAIN stack' = 1 .. Len(stack)
           /\ stack'[Len(stack)] = f /\ Top' = f
           /\ \A i \in 1 .. Len(stack) - 1 : stack'[i] = stack[i]
           /\ f \in Frame => stack' \in Seq(Frame)
  BY DEF Types, Top

LEMMA AtIs ==
    ASSUME Types, NEW p
    PROVE  At(p) = [stack EXCEPT ![Len(stack)] =
                      [irq |-> Top.irq, runs |-> Top.runs, pc |-> p,
                       scancode |-> Top.scancode]]
  <1>1. Top \in Frame
    BY StackFacts
  <1>2. [Top EXCEPT !.pc = p] =
            [irq |-> Top.irq, runs |-> Top.runs, pc |-> p, scancode |-> Top.scancode]
    BY <1>1 DEF Frame
  <1> QED BY <1>2 DEF At, Top

\* The routine on top goes on at p.
Moves(p) ==
    /\ Len(stack') = Len(stack) /\ DOMAIN stack' = 1 .. Len(stack)
    /\ Top' = stack'[Len(stack)]
    /\ stack'[Len(stack)].pc = p
    /\ \A i \in 1 .. Len(stack) - 1 : stack'[i] = stack[i]

LEMMA AtMoves ==
    ASSUME Types, NEW p \in Pcs, stack' = At(p)
    PROVE  /\ Moves(p) /\ stack' \in Seq(Frame)
           /\ stack'[Len(stack)].scancode = Top.scancode
  <1> DEFINE f == [irq |-> Top.irq, runs |-> Top.runs, pc |-> p, scancode |-> Top.scancode]
  <1>1. f \in Frame /\ f.pc = p /\ f.scancode = Top.scancode
    BY StackFacts DEF Frame
  <1>2. stack' = [stack EXCEPT ![Len(stack)] = f]
    BY AtIs
  <1> HIDE DEF f
  <1> QED BY <1>1, <1>2, ReplaceTop DEF Moves

----------------------------------------------------------------------------
\* Start-up.

LEMMA PcsAre ==
    Pcs = {"poll", "data", "run", "irq_enable_1", "irq_enable_0", "sti", "prompt",
           "irq", "iret", "halted", "lost"} \cup StageSet
  BY StagesAre DEF Pcs

LEMMA StageNumber == \A s \in Stages : \E k \in 1 .. 9 : s = BootOrder[k]
  BY OrderFacts DEF Stages, Range

LEMMA StageIn == \A k \in 1 .. 9 : BootOrder[k] \in Stages
  BY OrderFacts DEF Stages, Range

\* What follows a stage.
Following(k) == IF k = 9 THEN "poll" ELSE BootOrder[k + 1]

LEMMA FollowingIn == \A k \in 1 .. 9 : Following(k) \in Pcs
  <1>1. \A k \in 1 .. 9 : k # 9 => k + 1 \in 1 .. 9
    OBVIOUS
  <1> QED BY <1>1, StageIn DEF Following, Pcs

LEMMA BootMoves ==
    ASSUME IntInv, NEW k \in 1 .. 9, Boot(BootOrder[k])
    PROVE  /\ Len(stack) = 1 /\ stack[1].pc = BootOrder[k] /\ Booting
           /\ IF_flag = FALSE /\ DoneBefore(k) /\ in_service = {}
           /\ Len(stack') = 1 /\ stack'[1].pc = Following(k)
           /\ Top'.pc = Following(k) /\ stack' \in Seq(Frame)
           /\ initialised' = {BootOrder[j] : j \in 1 .. k}
  <1> USE DEF IntInv
  <1>1. Top.pc = BootOrder[k] /\ BootOrder[k] \in Stages
    BY StageIn DEF Boot
  <1>2. Len(stack) = 1 /\ stack[1].pc = BootOrder[k]
    BY <1>1, StackFacts DEF NestInv
  <1>3. Booting /\ ~IF_flag /\ DoneBefore(k)
    BY <1>1, <1>2, OrderFacts DEF Booting, BootInv
  <1>4. in_service = {}
    BY <1>1, StagesAre DEF NestInv, NoStuckService, StageSet
  <1>5. stack' = At(Following(k))
    BY AfterIs DEF Boot, Following
  <1>6. Moves(Following(k)) /\ stack' \in Seq(Frame)
    BY <1>5, AtMoves, FollowingIn
  <1>7. initialised' = {BootOrder[j] : j \in 1 .. k}
    <2>1. initialised' = {BootOrder[j] : j \in 1 .. k - 1} \cup {BootOrder[k]}
      BY <1>3 DEF DoneBefore, Boot
    <2>2. 1 .. k = 1 .. k - 1 \cup {k}
      OBVIOUS
    <2> QED BY <2>1, <2>2
  <1>8. IF_flag = FALSE
    BY <1>3 DEF Types
  <1> QED BY <1>2, <1>3, <1>4, <1>6, <1>7, <1>8, StackFacts DEF Moves

\* A stage keeps the invariant if it leaves behind what the next one, or the
\* shell, relies on.
LEMMA BootKeeps ==
    ASSUME IntInv, NEW k \in 1 .. 9, Boot(BootOrder[k]),
           mask' \subseteq Lines, irr' \subseteq Lines,
           \A n \in DOMAIN interrupt_handlers' : interrupt_handlers'[n] \in Handlers,
           k # 9 => DoneBefore(k + 1)',
           k = 9 => Ready' /\ mask' = Lines
    PROVE  IntInv'
  <1> USE DEF IntInv
  <1>a. /\ Len(stack) = 1 /\ stack[1].pc = BootOrder[k]
        /\ IF_flag = FALSE /\ DoneBefore(k) /\ in_service = {}
        /\ Len(stack') = 1 /\ stack'[1].pc = Following(k)
        /\ Top'.pc = Following(k) /\ stack' \in Seq(Frame)
        /\ initialised' = {BootOrder[j] : j \in 1 .. k}
    BY BootMoves
  <1>b. UNCHANGED <<IF_flag, in_service, out_full, out_data, sent, handled>>
    BY DEF Boot, keyboard
  <1>c. Following(k) \in {"poll"} \cup Stages
    <2>1. k # 9 => k + 1 \in 1 .. 9
      OBVIOUS
    <2> QED BY <2>1, StageIn DEF Following
  <1>1. Types'
    <2>1. initialised' \subseteq Stages
      BY <1>a, StageIn
    <2>2. Frame' = Frame
      BY <1>b DEF Frame
    <2> QED BY <1>a, <1>b, <2>1, <2>2 DEF Types
  <1>2. BootInv'
    <2>1. IF_flag' = FALSE
      BY <1>a, <1>b
    <2>2. CASE k = 9
      <3>1. ~Booting'
        BY <1>a, <2>2, StagesAre DEF Following, Booting, StageSet
      <3>2. \A j \in 1 .. 9 : stack'[1].pc # BootOrder[j]
        BY <3>1, StageIn DEF Booting
      <3> QED BY <3>1, <3>2, <2>2, OrderFacts DEF BootInv
    <2>3. CASE k # 9
      <3>1. k + 1 \in 1 .. 9 /\ stack'[1].pc = BootOrder[k + 1]
        BY <1>a, <2>3 DEF Following
      <3>2. Booting'
        BY <3>1, StageIn DEF Booting
      <3>3. \A j \in 1 .. 9 : stack'[1].pc = BootOrder[j] => j = k + 1
        BY <3>1, OrderInjective
      <3>4. \A j \in 1 .. 9 : stack'[1].pc = BootOrder[j] => DoneBefore(j)'
        BY <3>3, <2>3
      <3> QED BY <3>2, <3>4, <1>a, <2>1, OrderFacts DEF BootInv
    <2> QED BY <2>2, <2>3
  <1>3. NestInv'
    <2>1. Following(k) \notin {"irq", "iret", "lost"}
      BY <1>c, StagesAre DEF StageSet
    <2> QED BY <1>a, <1>b, <2>1 DEF NestInv, NestsAfterSti, NoStuckService
  <1>4. MaskInv'
    <2>1. CASE k = 9
      BY <2>1, <1>a DEF MaskInv, Following, Lines, InMain
    <2>2. CASE k # 9
      BY <2>2, <1>a, StageIn DEF MaskInv, Following, Booting
    <2> QED BY <2>1, <2>2
  <1>5. KeyInv'
    <2>1. Following(k) \notin {"data", "run"}
      BY <1>c, StagesAre DEF StageSet
    <2>2. BootOrder[k] # "run"
      BY StageIn, StagesAre DEF StageSet
    <2>3. DOMAIN stack = {1} /\ DOMAIN stack' = {1}
      BY <1>a, StackFacts
    <2>4. {j \in DOMAIN stack : stack[j].pc = "run"} = {}
      BY <2>2, <2>3, <1>a
    <2>5. {j \in DOMAIN stack : stack[j].pc = "run"}' = {}
      BY <2>1, <2>3, <1>a
    <2> QED BY <2>1, <2>4, <2>5, <1>a, <1>b DEF KeyInv, NoKeyLost
  <1>6. DepthInv'
    BY <1>a DEF DepthInv
  <1> QED BY <1>1, <1>2, <1>3, <1>4, <1>5, <1>6
LEMMA GateIs ==
    ASSUME NEW irq \in Lines,
           idt_entries' = [v \in 0 .. 47 |-> IF v < 32 THEN "isr" ELSE "irq"]
    PROVE  Gate(irq)' = "irq"
  BY DEF Lines, Gate, Vector

\* The stages that leave the gates alone.
LEMMA GatesStay ==
    ASSUME UNCHANGED idt_entries, NEW irq
    PROVE  Gate(irq)' = Gate(irq)
  BY DEF Gate

LEMMA AllStages == {BootOrder[j] : j \in 1 .. 9} = Stages
  BY StageIn, StageNumber

LEMMA BootStep ==
    ASSUME IntInv, kernel_main
    PROVE  IntInv'
  <1>1. CASE idt_init
    <2>1. 3 \in 1 .. 9 /\ Boot(BootOrder[3])
      BY <1>1, OrderFacts DEF idt_init
    <2>2. initialised' = {BootOrder[j] : j \in 1 .. 3}
      BY <2>1, BootMoves
    <2>3. mask' = Lines /\ irr' = {}
      BY <1>1 DEF idt_init
    <2>4. \A irq \in Lines : Gate(irq)' = "irq"
      BY <1>1, GateIs DEF idt_init
    <2>5. DoneBefore(3 + 1)'
      BY <2>2, <2>3, <2>4 DEF DoneBefore
    <2>6. \A n \in DOMAIN interrupt_handlers' : interrupt_handlers'[n] \in Handlers
      BY <1>1 DEF idt_init, IntInv, Types
    <2> QED BY <2>1, <2>3, <2>5, <2>6, BootKeeps
  <1>2. CASE isr_init
    <2>1. 4 \in 1 .. 9 /\ Boot(BootOrder[4])
      BY <1>2, OrderFacts DEF isr_init
    <2>2. initialised' = {BootOrder[j] : j \in 1 .. 4} /\ DoneBefore(4)
      BY <2>1, BootMoves
    <2>3. UNCHANGED <<idt_entries, mask, irr>>
      BY <1>2 DEF isr_init
    <2>4. \A irq \in Lines : Gate(irq)' = "irq"
      BY <2>2, <2>3, GatesStay DEF DoneBefore
    <2>5. DoneBefore(4 + 1)'
      BY <2>2, <2>3, <2>4 DEF DoneBefore
    <2>6. mask' \subseteq Lines /\ irr' \subseteq Lines
      BY <2>3 DEF IntInv, Types
    <2>7. \A n \in DOMAIN interrupt_handlers' : interrupt_handlers'[n] \in Handlers
      BY <1>2 DEF isr_init, NoEntries
    <2> QED BY <2>1, <2>5, <2>6, <2>7, BootKeeps
  <1>3. CASE register_interrupt_handler("register_irq0", Vector(0), "scheduler_tick")
    <2>1. 7 \in 1 .. 9 /\ Boot(BootOrder[7])
      BY <1>3, OrderFacts DEF register_interrupt_handler
    <2>2. initialised' = {BootOrder[j] : j \in 1 .. 7} /\ DoneBefore(7)
      BY <2>1, BootMoves
    <2>3. UNCHANGED <<idt_entries, mask, irr>>
      BY <1>3 DEF register_interrupt_handler
    <2>4. \A irq \in Lines : Gate(irq)' = "irq"
      BY <2>2, <2>3, GatesStay DEF DoneBefore
    <2>5. Vector(0)' \in DOMAIN interrupt_handlers'
      BY <1>3 DEF register_interrupt_handler, Vector
    <2>6. DoneBefore(7 + 1)'
      BY <2>2, <2>3, <2>4, <2>5 DEF DoneBefore
    <2>7. mask' \subseteq Lines /\ irr' \subseteq Lines
      BY <2>3 DEF IntInv, Types
    <2>8. \A n \in DOMAIN interrupt_handlers' : interrupt_handlers'[n] \in Handlers
      BY <1>3 DEF register_interrupt_handler, IntInv, Types, Handlers
    <2> QED BY <2>1, <2>6, <2>7, <2>8, BootKeeps
  <1>4. CASE register_interrupt_handler("register_irq1", Vector(1), "keyboard_interrupt_handler")
    <2>1. 8 \in 1 .. 9 /\ Boot(BootOrder[8])
      BY <1>4, OrderFacts DEF register_interrupt_handler
    <2>2. initialised' = {BootOrder[j] : j \in 1 .. 8} /\ DoneBefore(8)
      BY <2>1, BootMoves
    <2>3. UNCHANGED <<idt_entries, mask, irr>>
      BY <1>4 DEF register_interrupt_handler
    <2>4. \A irq \in Lines : Gate(irq)' = "irq"
      BY <2>2, <2>3, GatesStay DEF DoneBefore
    <2>5. DOMAIN interrupt_handlers' = {Vector(1)} \cup DOMAIN interrupt_handlers
      BY <1>4 DEF register_interrupt_handler
    <2>6. Vector(0)' \in DOMAIN interrupt_handlers' /\ Vector(1)' \in DOMAIN interrupt_handlers'
      BY <2>2, <2>5 DEF DoneBefore, Vector
    <2>7. DoneBefore(8 + 1)'
      BY <2>2, <2>3, <2>4, <2>6 DEF DoneBefore
    <2>8. mask' \subseteq Lines /\ irr' \subseteq Lines
      BY <2>3 DEF IntInv, Types
    <2>9. \A n \in DOMAIN interrupt_handlers' : interrupt_handlers'[n] \in Handlers
      BY <1>4 DEF register_interrupt_handler, IntInv, Types, Handlers
    <2> QED BY <2>1, <2>7, <2>8, <2>9, BootKeeps
  <1>5. ASSUME NEW stage \in Stages, InitComponent(stage)
        PROVE  IntInv'
    <2>1. PICK k \in 1 .. 9 : stage = BootOrder[k]
      BY StageNumber
    <2>2. k \in {1, 2, 5, 6, 9}
      BY <1>5, <2>1, OrderFacts, OneToNine DEF InitComponent
    <2>3. Boot(BootOrder[k]) /\ UNCHANGED <<idt_entries, interrupt_handlers, mask, irr>>
      BY <1>5, <2>1 DEF InitComponent
    <2>4. initialised' = {BootOrder[j] : j \in 1 .. k} /\ DoneBefore(k)
      BY <2>3, BootMoves
    <2>5. k > 3 => \A irq \in Lines : Gate(irq)' = "irq"
      BY <2>4, <2>3, GatesStay DEF DoneBefore
    <2>6. /\ mask' \subseteq Lines /\ irr' \subseteq Lines
          /\ \A n \in DOMAIN interrupt_handlers' : interrupt_handlers'[n] \in Handlers
      BY <2>3 DEF IntInv, Types
    <2>7. CASE k # 9
      <3>1. DoneBefore(k + 1)'
        BY <2>2, <2>3, <2>4, <2>5, <2>7 DEF DoneBefore
      <3> QED BY <2>3, <2>6, <2>7, <3>1, BootKeeps
    <2>8. CASE k = 9
      <3>1. initialised' = Stages /\ mask' = Lines
        BY <2>3, <2>4, <2>8, AllStages DEF DoneBefore
      <3>2. \A irq \in Lines : Vector(irq)' \in DOMAIN interrupt_handlers'
        BY <2>3, <2>4, <2>8 DEF DoneBefore, Lines, Vector
      <3>3. Ready'
        BY <2>5, <2>8, <3>1, <3>2 DEF Ready, Lines
      <3> QED BY <2>3, <2>6, <2>8, <3>1, <3>3, BootKeeps
    <2> QED BY <2>7, <2>8
  <1> QED BY <1>1, <1>2, <1>3, <1>4, <1>5 DEF kernel_main

----------------------------------------------------------------------------
\* The devices: the stack stays as it is.

LEMMA QuietStep ==
    ASSUME IntInv, UNCHANGED <<IF_flag, mask, in_service, keyboard, stack, handled, kernel>>,
           irr' \subseteq Lines
    PROVE  IntInv'
  <1> USE DEF IntInv
  <1>1. UNCHANGED <<IF_flag, mask, in_service, out_full, out_data, sent, stack, handled,
                    idt_entries, interrupt_handlers, initialised>>
    BY DEF keyboard, kernel
  <1>2. Types'
    BY <1>1 DEF Types, Frame
  <1>3. BootInv'
    BY <1>1 DEF BootInv, Booting, DoneBefore, Ready, Gate
  <1>4. NestInv'
    BY <1>1 DEF NestInv, Top, NestsAfterSti, NoStuckService
  <1>5. MaskInv'
    BY <1>1 DEF MaskInv, Booting, Top, InMain
  <1>6. KeyInv'
    BY <1>1 DEF KeyInv, NoKeyLost
  <1>7. DepthInv'
    BY <1>1 DEF DepthInv, Enabling
  <1> QED BY <1>2, <1>3, <1>4, <1>5, <1>6, <1>7

LEMMA KeyArrivesStep ==
    ASSUME IntInv, NEW effect \in Effects, KeyArrives(effect)
    PROVE  IntInv'
  <1> USE DEF IntInv
  <1>a. UNCHANGED <<IF_flag, mask, in_service, stack, handled,
                    idt_entries, interrupt_handlers, initialised>>
    BY DEF KeyArrives, kernel
  <1>b. /\ Len(sent') = Len(sent) + 1 /\ sent' \in Seq(Effects) /\ Len(sent) \in Nat
        /\ out_full = FALSE /\ out_full' = TRUE /\ out_data' = Len(sent)+ 1
        /\ Len(sent) + 1 <= MaxKeys
    BY InterruptsConstants DEF KeyArrives, Types
  <1>1. Types'
    <2>1. Frame \subseteq Frame'
      BY <1>b DEF Frame
    <2>2. stack' \in Seq(Frame') /\ handled' \in Seq(1 .. Len(sent'))
      BY <1>a, <1>b, <2>1 DEF Types
    <2>3. irr' \subseteq Lines
      BY DEF KeyArrives, Types, Lines
    <2> QED BY <1>a, <1>b, <2>2, <2>3 DEF Types
  <1>2. BootInv'
    BY <1>a DEF BootInv, Booting, DoneBefore, Ready, Gate
  <1>3. NestInv'
    BY <1>a DEF NestInv, Top, NestsAfterSti, NoStuckService
  <1>4. MaskInv'
    BY <1>a DEF MaskInv, Booting, Top, InMain
  <1>5. KeyInv'
    <2>1. 1 .. Len(sent') = 1 .. Len(sent) \cup {out_data'}
      BY <1>b
    <2>2. NoKeyLost'
      BY <2>1, <1>a, <1>b DEF KeyInv, NoKeyLost
    <2> QED BY <2>2, <1>a, <1>b DEF KeyInv
  <1>6. DepthInv'
    BY <1>a DEF DepthInv, Enabling
  <1> QED BY <1>1, <1>2, <1>3, <1>4, <1>5, <1>6

----------------------------------------------------------------------------
\* An interrupt.

LEMMA PushFacts ==
    ASSUME Types, NEW f \in Frame, stack' = Append(stack, f)
    PROVE  /\ Len(stack') = Len(stack) + 1 /\ Top' = f /\ stack'[Len(stack) + 1] = f
           /\ DOMAIN stack' = 1 .. Len(stack) + 1
           /\ \A i \in 1 .. Len(stack) : stack'[i] = stack[i]
           /\ stack' \in Seq(Frame)
  BY DEF Types, Top

LEMMA InterruptStep ==
    ASSUME IntInv, NEW irq \in Lines, Interrupt(irq)
    PROVE  IntInv'
  <1> USE DEF IntInv
  <1> DEFINE f == [irq |-> irq, runs |-> "none", pc |-> Gate(irq), scancode |-> 0]
             n == Len(stack)
  <1>a. UNCHANGED <<mask, out_full, out_data, sent, handled,
                    idt_entries, interrupt_handlers, initialised>>
    BY DEF Interrupt, keyboard, kernel
  <1>b. IF_flag = TRUE /\ IF_flag' = FALSE
    BY DEF Interrupt, Types
  <1>c. ~Booting /\ Ready
    BY <1>b DEF BootInv
  <1>d. Gate(irq) = "irq"
    BY <1>c DEF Ready
  <1>e. f \in Frame /\ f.pc = "irq" /\ f.scancode = 0
    BY <1>d, StackFacts DEF Frame, Handlers, Pcs
  <1>f. stack' = Append(stack, f)
    BY DEF Interrupt
  <1>g. in_service = {}
    BY <1>b DEF NestInv, NoStuckService
  <1>h. in_service' = {irq} /\ irr' \subseteq Lines
    BY <1>g DEF Interrupt, Types
  <1> HIDE DEF f
  <1>i. /\ Len(stack') = n + 1 /\ Top' = f /\ stack'[n + 1] = f
        /\ DOMAIN stack' = 1 .. n + 1
        /\ \A i \in 1 .. n : stack'[i] = stack[i]
        /\ stack' \in Seq(Frame)
    BY <1>e, <1>f, PushFacts
  <1>j. n \in Nat /\ n >= 1 /\ DOMAIN stack = 1 .. n /\ Top = stack[n] /\ stack'[1] = stack[1]
    BY StackFacts, <1>i
  <1>1. Types'
    <2>1. Frame' = Frame
      BY <1>a DEF Frame
    <2>2. in_service' \subseteq Lines /\ IF_flag' \in BOOLEAN
      BY <1>b, <1>h
    <2>3. Len(stack') >= 1
      BY <1>i, <1>j
    <2> QED BY <1>a, <1>h, <1>i, <2>1, <2>2, <2>3 DEF Types
  <1>2. BootInv'
    <2>1. ~Booting' /\ Ready'
      BY <1>a, <1>c, <1>j DEF Booting, Ready, Gate
    <2>2. \A k \in 1 .. 9 : stack'[1].pc # BootOrder[k]
      BY <2>1, StageIn DEF Booting
    <2> QED BY <2>1, <2>2, OrderFacts DEF BootInv
  <1>3. NestInv'
    <2>1. stack'[1].pc \notin {"irq", "iret", "lost"}
      BY <1>j DEF NestInv
    <2>2. \A i \in 2 .. n + 1 : stack'[i].pc \notin Stages
      <3>1. "irq" \notin Stages
        BY StagesAre DEF StageSet
      <3>2. \A i \in 2 .. n : stack'[i].pc \notin Stages
        BY <1>i DEF NestInv
      <3> QED BY <3>1, <3>2, <1>e, <1>i, <1>j
    <2>3. \A i \in 2 .. n : stack'[i].pc \in {"prompt", "iret"}
      <3>1. \A i \in 2 .. n - 1 : stack'[i].pc \in {"prompt", "iret"}
        BY <1>i, <1>j DEF NestInv, NestsAfterSti
      <3>2. n >= 2 => stack'[n].pc \in {"prompt", "iret"}
        BY <1>b, <1>i, <1>j DEF NestInv
      <3> QED BY <3>1, <3>2, <1>j
    <2>4. NestsAfterSti'
      BY <2>3, <1>i, <1>j DEF NestsAfterSti
    <2> QED BY <2>1, <2>2, <2>4, <1>b, <1>e, <1>h, <1>i DEF NestInv, NoStuckService
  <1>4. MaskInv'
    <2>1. \A i \in 1 .. n + 1 : stack'[i].pc = "irq_enable_0" => 1 \notin mask'
      BY <1>a, <1>c, <1>e, <1>i, <1>j DEF MaskInv
    <2>2. ~InMain'
      BY <1>i, <1>j DEF InMain
    <2> QED BY <2>1, <2>2, <1>a, <1>c, <1>i DEF MaskInv
  <1>5. KeyInv'
    <2>1. \A i \in 1 .. n + 1 : /\ stack'[i].pc = "data" => Len(sent') > 0
                                /\ stack'[i].pc = "run" => stack'[i].scancode > 0
      BY <1>a, <1>e, <1>i, <1>j DEF KeyInv
    <2>2. {j \in DOMAIN stack : stack[j].pc = "run"}' = {j \in DOMAIN stack : stack[j].pc = "run"}
      BY <1>e, <1>i, <1>j
    <2>3. {stack[i].scancode : i \in {j \in DOMAIN stack : stack[j].pc = "run"}}' =
            {stack[i].scancode : i \in {j \in DOMAIN stack : stack[j].pc = "run"}}
      BY <2>2, <1>i, <1>j
    <2>4. NoKeyLost'
      BY <2>3, <1>a DEF KeyInv, NoKeyLost
    <2> QED BY <2>1, <2>4, <1>i DEF KeyInv
  <1>6. DepthInv'
    <2>1. \A i \in 2 .. n + 1 : Enabling(i)' => i \in 2 .. n /\ Enabling(i)
      BY <1>b, <1>e, <1>i, <1>j DEF Enabling
    <2> QED BY <2>1, <1>a, <1>i, <1>j DEF DepthInv
  <1> QED BY <1>1, <1>2, <1>3, <1>4, <1>5, <1>6

----------------------------------------------------------------------------
\* The routine on top goes on.

LEMMA MoveNests ==
    ASSUME IntInv, Top.pc \notin Stages,
           NEW p \in Pcs \ Stages, p # "irq", Moves(p),
           in_service' = {}, UNCHANGED kernel, IF_flag' \in BOOLEAN,
           Len(stack) = 1 => p \notin {"iret", "lost"},
           Len(stack) >= 2 /\ IF_flag' => p \in {"prompt", "iret"}
    PROVE  ~Booting /\ ~Booting' /\ BootInv' /\ NestInv'
  <1> USE DEF IntInv
  <1> DEFINE n == Len(stack)
  <1>a. n \in Nat /\ n >= 1 /\ Top = stack[n]
    BY StackFacts
  <1>b. /\ Len(stack') = n /\ Top' = stack'[n] /\ stack'[n].pc = p
        /\ \A i \in 1 .. n - 1 : stack'[i] = stack[i]
    BY DEF Moves
  <1>1. ~Booting /\ Ready
    BY <1>a DEF Booting, BootInv
  <1>2. ~Booting'
    <2>1. CASE n = 1
      BY <2>1, <1>b DEF Booting
    <2>2. CASE n # 1
      BY <2>2, <1>a, <1>b, <1>1 DEF Booting
    <2> QED BY <2>1, <2>2
  <1>3. Ready'
    BY <1>1 DEF Ready, Gate, kernel
  <1>4. BootInv'
    <2>1. \A k \in 1 .. 9 : stack'[1].pc # BootOrder[k]
      BY <1>2, StageIn DEF Booting
    <2> QED BY <2>1, <1>2, <1>3, OrderFacts DEF BootInv
  <1>5. stack'[1].pc \notin {"irq", "iret", "lost"}
    BY <1>a, <1>b DEF NestInv
  <1>6. \A i \in 2 .. n : stack'[i].pc \notin Stages
    <2>1. \A i \in 2 .. n - 1 : stack'[i].pc \notin Stages
      BY <1>a, <1>b DEF NestInv
    <2> QED BY <2>1, <1>a, <1>b
  <1>7. NestsAfterSti'
    BY <1>a, <1>b DEF NestInv, NestsAfterSti
  <1>8. NestInv'
    BY <1>a, <1>b, <1>5, <1>6, <1>7 DEF NestInv, NoStuckService
  <1> QED BY <1>1, <1>2, <1>4, <1>8

\* The scan codes that have been read and not yet handled.
Held == {stack[i].scancode : i \in {j \in DOMAIN stack : stack[j].pc = "run"}}

LEMMA MoveKeys ==
    ASSUME IntInv, NEW p, p # "run", p = "data" => Len(sent) > 0, Moves(p),
           Top.pc # "run", UNCHANGED <<out_full, out_data, sent, handled>>
    PROVE  KeyInv'
  <1> USE DEF IntInv
  <1> DEFINE n == Len(stack)
  <1>a. n \in Nat /\ n >= 1 /\ Top = stack[n] /\ DOMAIN stack = 1 .. n
    BY StackFacts
  <1>b. /\ Len(stack') = n /\ DOMAIN stack' = 1 .. n /\ stack'[n].pc = p
        /\ \A i \in 1 .. n - 1 : stack'[i] = stack[i]
    BY DEF Moves
  <1>1. \A i \in 1 .. n : stack'[i].pc = "run" <=> stack[i].pc = "run"
    BY <1>a, <1>b
  <1>2. \A i \in 1 .. n : stack[i].pc = "run" => stack'[i] = stack[i]
    BY <1>a, <1>b
  <1>3. Held' = Held
    BY <1>a, <1>b, <1>1, <1>2 DEF Held
  <1>4. NoKeyLost'
    BY <1>3 DEF KeyInv, NoKeyLost, Held
  <1>5. \A i \in 1 .. n : /\ stack'[i].pc = "data" => Len(sent') > 0
                          /\ stack'[i].pc = "run" => stack'[i].scancode > 0
    BY <1>a, <1>b, <1>1, <1>2 DEF KeyInv
  <1> QED BY <1>b, <1>4, <1>5 DEF KeyInv

\* Enabling(i) after the step, for a frame i of the state before it.
EnablingNext(i) ==
    \/ stack'[i].pc \in {"irq_enable_1", "irq_enable_0", "sti", "prompt"}
    \/ stack'[i].pc = "iret" /\ (i < Len(stack') \/ IF_flag')

LEMMA MoveDepth ==
    ASSUME IntInv, NEW p, Moves(p), Range(handled) \subseteq Range(handled'),
           Len(stack) >= 2 /\ EnablingNext(Len(stack)) =>
               Enabling(Len(stack)) /\ stack'[Len(stack)].scancode = Top.scancode
    PROVE  DepthInv'
  <1> USE DEF IntInv
  <1> DEFINE n == Len(stack)
  <1>a. n \in Nat /\ n >= 1 /\ Top = stack[n]
    BY StackFacts
  <1>b. /\ Len(stack') = n
        /\ \A i \in 1 .. n - 1 : stack'[i] = stack[i]
    BY DEF Moves
  <1>1. \A i \in 2 .. n : Enabling(i)' => Enabling(i) /\ stack'[i].scancode = stack[i].scancode
    <2>1. \A i \in 2 .. n : Enabling(i)' <=> EnablingNext(i)
      BY DEF Enabling, EnablingNext
    <2>2. \A i \in 2 .. n - 1 :
              EnablingNext(i) => Enabling(i) /\ stack'[i].scancode = stack[i].scancode
      BY <1>a, <1>b DEF Enabling, EnablingNext
    <2>3. n >= 2 /\ EnablingNext(n) => Enabling(n) /\ stack'[n].scancode = stack[n].scancode
      BY <1>a
    <2> QED BY <2>1, <2>2, <2>3, <1>a
  <1>2. \A i \in 2 .. n : Enabling(i)' => stack'[i].scancode \in Range(handled')
    BY <1>1 DEF DepthInv
  <1>3. \A i, j \in 2 .. n :
          Enabling(i)' /\ Enabling(j)' /\ stack'[i].scancode = stack'[j].scancode => i = j
    BY <1>1 DEF DepthInv
  <1> QED BY <1>b, <1>2, <1>3 DEF DepthInv

----------------------------------------------------------------------------
\* irq_handler and iret.

LEMMA MinSingle == \A x \in Lines : Min({x}) = x
  BY DEF Min, Lines

LEMMA IrqHandlerStep ==
    ASSUME IntInv, NEW int_no \in IntNos, irq_handler(int_no)
    PROVE  IntInv'
  <1> USE DEF IntInv
  <1> DEFINE n == Len(stack)
  <1>a. UNCHANGED <<IF_flag, mask, irr, out_full, out_data, sent, handled, kernel>>
    BY DEF irq_handler, keyboard
  <1>b. Top.pc = "irq" /\ IF_flag = FALSE
    BY DEF irq_handler, NestInv, Types
  <1>c. in_service' = {}
    <2>1. PICK irq \in Lines : in_service = {irq}
      BY <1>b DEF NestInv
    <2>2. Min(in_service) = irq
      BY <2>1, MinSingle
    <2> QED BY <2>1, <2>2 DEF irq_handler, irq_ack
  <1>d. n \in Nat /\ n >= 2 /\ Top = stack[n] /\ Top \in Frame
    BY <1>b, StackFacts DEF NestInv
  <1>e. PICK handler \in Found(int_no) :
            stack' = [At(FirstPc(handler)) EXCEPT ![n].runs = handler]
    BY DEF irq_handler
  <1>f. handler \in Handlers
    BY <1>e DEF Found, Types, Handlers
  <1> DEFINE p == FirstPc(handler)
             f == [irq |-> Top.irq, runs |-> handler, pc |-> p, scancode |-> Top.scancode]
  <1>g. p \in {"poll", "lost", "iret"}
    BY DEF FirstPc
  <1>h. p \in Pcs \ Stages
    BY <1>g, StagesAre, PcsAre DEF StageSet
  <1> HIDE DEF p
  <1>i. stack' = [stack EXCEPT ![n] = f]
    <2> DEFINE g == [irq |-> Top.irq, runs |-> Top.runs, pc |-> p, scancode |-> Top.scancode]
    <2>1. At(p) = [stack EXCEPT ![n] = g]
      BY AtIs
    <2>2. stack' = [At(p) EXCEPT ![n].runs = handler]
      BY <1>e DEF p
    <2>3. [g EXCEPT !.runs = handler] = f
      OBVIOUS
    <2> HIDE DEF f, g
    <2>4. DOMAIN stack = 1 .. n /\ n \in 1 .. n
      BY StackFacts
    <2> QED BY <2>1, <2>2, <2>3, <2>4
  <1>j. f \in Frame /\ f.pc = p /\ f.scancode = Top.scancode
    BY <1>d, <1>f, <1>h DEF Frame
  <1> HIDE DEF f
  <1>k. Moves(p) /\ stack' \in Seq(Frame)
    BY <1>i, <1>j, ReplaceTop DEF Moves
  <1>1. Types'
    <2>1. Frame' = Frame
      BY <1>a DEF Frame
    <2>2. Len(stack') >= 1
      BY <1>d, <1>k DEF Moves
    <2> QED BY <1>a, <1>c, <1>k, <2>1, <2>2 DEF Types, kernel
  <1>2. ~Booting /\ ~Booting' /\ BootInv' /\ NestInv'
    <2>1. Top.pc \notin Stages
      BY <1>b, StagesAre DEF StageSet
    <2>2. p # "irq" /\ IF_flag' = FALSE /\ IF_flag' \in BOOLEAN
      BY <1>a, <1>b, <1>g
    <2> QED BY <1>a, <1>c, <1>d, <1>h, <1>k, <2>1, <2>2, MoveNests
  <1>3. MaskInv'
    <2>1. \A i \in 1 .. n : stack'[i].pc = "irq_enable_0" => 1 \notin mask'
      BY <1>a, <1>d, <1>g, <1>k, <1>2 DEF MaskInv, Moves
    <2>2. ~InMain'
      BY <1>d, <1>k DEF InMain, Moves
    <2> QED BY <2>1, <2>2, <1>a, <1>k, <1>2 DEF MaskInv, Moves
  <1>4. KeyInv'
    BY <1>a, <1>b, <1>g, <1>k, MoveKeys
  <1>5. DepthInv'
    <2>1. ~EnablingNext(n)
      BY <1>a, <1>b, <1>d, <1>g, <1>k DEF EnablingNext, Moves
    <2> QED BY <2>1, <1>a, <1>k, MoveDepth
  <1> QED BY <1>1, <1>2, <1>3, <1>4, <1>5

LEMMA PopFacts ==
    ASSUME Types, Len(stack) >= 2, stack' = Below
    PROVE  /\ Len(stack') = Len(stack) - 1 /\ DOMAIN stack' = 1 .. Len(stack) - 1
           /\ Top' = stack'[Len(stack) - 1]
           /\ \A i \in 1 .. Len(stack) - 1 : stack'[i] = stack[i]
           /\ stack' \in Seq(Frame)
  BY DEF Types, Top, Below

LEMMA IretStep ==
    ASSUME IntInv, iret
    PROVE  IntInv'
  <1> USE DEF IntInv
  <1> DEFINE n == Len(stack)
  <1>a. UNCHANGED <<mask, irr, in_service, out_full, out_data, sent, handled, kernel>>
    BY DEF iret, keyboard, pic
  <1>b. Top.pc = "iret" /\ IF_flag' = TRUE
    BY DEF iret
  <1>c. n \in Nat /\ n >= 2 /\ Top = stack[n] /\ DOMAIN stack = 1 .. n
    BY <1>b, StackFacts DEF NestInv
  <1>d. /\ Len(stack') = n - 1 /\ DOMAIN stack' = 1 .. n - 1
        /\ Top' = stack'[n - 1]
        /\ \A i \in 1 .. n - 1 : stack'[i] = stack[i]
        /\ stack' \in Seq(Frame)
    BY <1>c, PopFacts DEF iret
  <1>e. in_service = {} /\ stack'[1] = stack[1]
    BY <1>b, <1>c, <1>d DEF NestInv, NoStuckService
  <1>f. ~Booting /\ ~Booting' /\ Ready /\ Ready'
    <2>1. ~Booting /\ Ready
      BY <1>c DEF BootInv
    <2> QED BY <2>1, <1>a, <1>e DEF Booting, Ready, Gate, kernel
  <1>1. Types'
    <2>1. Frame' = Frame
      BY <1>a DEF Frame
    <2>2. Len(stack') >= 1 /\ IF_flag' \in BOOLEAN
      BY <1>b, <1>c, <1>d
    <2> QED BY <1>a, <1>d, <2>1, <2>2 DEF Types, kernel
  <1>2. BootInv'
    <2>1. \A k \in 1 .. 9 : stack'[1].pc # BootOrder[k]
      BY <1>f, StageIn DEF Booting
    <2> QED BY <2>1, <1>f, OrderFacts DEF BootInv
  <1>3. NestInv'
    <2>1. \A i \in 2 .. n - 1 : stack'[i].pc \notin Stages
      BY <1>c, <1>d DEF NestInv
    <2>2. \A i \in 2 .. n - 1 : stack'[i].pc \in {"prompt", "iret"}
      BY <1>c, <1>d DEF NestInv, NestsAfterSti
    <2>3. stack'[1].pc \notin {"irq", "iret", "lost"}
      BY <1>e DEF NestInv
    <2>4. n - 1 >= 2 => Top'.pc \in {"prompt", "iret"}
      BY <2>2, <1>c, <1>d
    <2>5. Top'.pc # "irq"
      BY <2>3, <2>4, <1>c, <1>d
    <2> QED BY <2>1, <2>2, <2>3, <2>4, <2>5, <1>a, <1>c, <1>d, <1>e
            DEF NestInv, NestsAfterSti, NoStuckService
  <1>4. MaskInv'
    BY <1>a, <1>b, <1>c, <1>d, <1>f DEF MaskInv
  <1>5. KeyInv'
    <2>1. Held' = Held
      BY <1>b, <1>c, <1>d DEF Held
    <2>2. NoKeyLost'
      BY <2>1, <1>a DEF KeyInv, NoKeyLost, Held
    <2>3. \A i \in 1 .. n - 1 : /\ stack'[i].pc = "data" => Len(sent') > 0
                                /\ stack'[i].pc = "run" => stack'[i].scancode > 0
      BY <1>a, <1>c, <1>d DEF KeyInv
    <2> QED BY <2>2, <2>3, <1>d DEF KeyInv
  <1>6. DepthInv'
    <2>1. \A i \in 2 .. n - 1 : i \in 2 .. n /\ stack'[i] = stack[i]
      BY <1>c, <1>d
    <2>2. \A i \in 2 .. n - 1 : Enabling(i)' => Enabling(i)
      BY <1>c, <1>d DEF Enabling
    <2>3. \A i \in 2 .. n - 1 : Enabling(i)' => stack'[i].scancode \in Range(handled')
      BY <2>1, <2>2, <1>a DEF DepthInv
    <2>4. \A i, j \in 2 .. n - 1 :
            Enabling(i)' /\ Enabling(j)' /\ stack'[i].scancode = stack'[j].scancode => i = j
      BY <2>1, <2>2 DEF DepthInv
    <2> QED BY <2>3, <2>4, <1>d DEF DepthInv
  <1> QED BY <1>1, <1>2, <1>3, <1>4, <1>5, <1>6

----------------------------------------------------------------------------
\* keyboard_handler.

HandlerPcs == {"poll", "data", "run", "irq_enable_1", "irq_enable_0", "sti", "prompt"}

LEMMA HandlerFacts ==
    ASSUME IntInv, Top.pc \in HandlerPcs
    PROVE  /\ Top.pc \notin Stages /\ in_service = {}
           /\ Return = IF Len(stack) = 1 THEN "poll" ELSE "iret"
           /\ HandlerPcs \cup {"iret", "halted"} \subseteq Pcs \ Stages
           /\ Top.pc # "prompt" => Len(stack) = 1 \/ IF_flag = FALSE
           /\ Top.pc # "prompt" /\ Len(stack) >= 2 => ~IF_flag
  <1>1. Top.pc \notin Stages
    BY StagesAre DEF StageSet, HandlerPcs
  <1>2. in_service = {}
    BY DEF IntInv, NestInv, NoStuckService, HandlerPcs
  <1>3. HandlerPcs \cup {"iret", "halted"} \subseteq Pcs \ Stages
    BY PcsAre, StagesAre DEF StageSet, HandlerPcs
  <1>4. Top.pc # "prompt" => Len(stack) = 1 \/ IF_flag = FALSE
    <2>1. Len(stack) \in Nat /\ Len(stack) >= 1 /\ IF_flag \in BOOLEAN
      BY StackFacts DEF IntInv, Types
    <2>2. IF_flag /\ Len(stack) >= 2 => Top.pc \in {"prompt", "iret"}
      BY DEF IntInv, NestInv
    <2>3. Top.pc # "iret"
      BY DEF HandlerPcs
    <2>4. Len(stack) = 1 \/ Len(stack) >= 2
      <3>1. \A n \in Nat : n >= 1 => n = 1 \/ n >= 2
        OBVIOUS
      <3> QED BY <2>1, <3>1
    <2>5. ~IF_flag => IF_flag = FALSE
      BY <2>1
    <2>6. Top.pc # "prompt" => Len(stack) = 1 \/ ~IF_flag
      BY <2>2, <2>3, <2>4
    <2> QED BY <2>5, <2>6
  <1>5. Top.pc # "prompt" /\ Len(stack) >= 2 => ~IF_flag
    BY DEF IntInv, NestInv, HandlerPcs
  <1> QED BY <1>1, <1>2, <1>3, <1>4, <1>5 DEF Return, InMain

\* What a step of the handler that goes on at p keeps, whatever it does to the
\* keyboard, the masks and the interrupt flag.
LEMMA HandlerMoves ==
    ASSUME IntInv, Top.pc \in HandlerPcs,
           NEW p \in HandlerPcs \cup {"iret", "halted"}, Moves(p),
           UNCHANGED <<in_service, kernel>>, IF_flag' \in BOOLEAN,
           Len(stack) = 1 => p # "iret",
           Len(stack) >= 2 /\ IF_flag' => p \in {"prompt", "iret"}
    PROVE  ~Booting /\ ~Booting' /\ BootInv' /\ NestInv'
  <1>1. /\ Top.pc \notin Stages /\ in_service = {}
        /\ HandlerPcs \cup {"iret", "halted"} \subseteq Pcs \ Stages
    BY HandlerFacts
  <1>2. p \in Pcs \ Stages /\ p # "irq" /\ p # "lost"
    BY <1>1 DEF HandlerPcs
  <1> QED BY <1>1, <1>2, MoveNests

\* The masks are as before, and the routine does not go to irq_enable_0.
LEMMA MoveMask ==
    ASSUME IntInv, NEW p, p # "irq_enable_0", Moves(p), ~Booting, ~Booting', UNCHANGED mask,
           Len(stack) = 1 /\ mask = {} /\ p \notin {"sti", "halted"} => IF_flag'
    PROVE  MaskInv'
  <1> USE DEF IntInv
  <1> DEFINE n == Len(stack)
  <1>a. n \in Nat /\ n >= 1 /\ Top = stack[n]
    BY StackFacts
  <1>b. /\ Len(stack') = n /\ Top' = stack'[n] /\ stack'[n].pc = p
        /\ \A i \in 1 .. n - 1 : stack'[i] = stack[i]
    BY DEF Moves
  <1>1. \A i \in 1 .. n : stack'[i].pc = "irq_enable_0" => 1 \notin mask'
    BY <1>a, <1>b DEF MaskInv
  <1> QED BY <1>b, <1>1 DEF MaskInv, InMain

LEMMA MoveTypes ==
    ASSUME IntInv, NEW p, Moves(p), stack' \in Seq(Frame), IF_flag' \in BOOLEAN,
           mask' \subseteq Lines, UNCHANGED <<irr, in_service, out_full, out_data, sent, kernel>>,
           handled' \in Seq(1 .. Len(sent))
    PROVE  Types'
  <1>1. Frame' = Frame
    BY DEF Frame
  <1>2. Len(stack') >= 1
    BY DEF IntInv, Types, Moves
  <1> QED BY <1>1, <1>2 DEF IntInv, Types, kernel

LEMMA ReadStatusStep ==
    ASSUME IntInv, ReadStatus
    PROVE  IntInv'
  <1> USE DEF IntInv
  <1> DEFINE p == IF out_full THEN "data" ELSE Return
  <1>a. Top.pc = "poll" /\ Top.pc \in HandlerPcs
    BY DEF ReadStatus, HandlerPcs
  <1>b. UNCHANGED <<IF_flag, mask, irr, in_service, out_full, out_data, sent, handled, kernel>>
    BY DEF ReadStatus, pic, keyboard
  <1>c. IF_flag \in BOOLEAN /\ mask \subseteq Lines /\ handled \in Seq(1 .. Len(sent))
    BY DEF Types
  <1>d. stack' = At(p)
    BY DEF ReadStatus
  <1>e. p \in {"data"} \cup {Return}
    OBVIOUS
  <1>f. p \in HandlerPcs \cup {"iret"} /\ p \in {"data", "poll", "iret"}
    BY <1>a, <1>e, HandlerFacts DEF HandlerPcs
  <1>g. Moves(p) /\ stack' \in Seq(Frame) /\ stack'[Len(stack)].scancode = Top.scancode
    BY <1>a, <1>d, <1>f, HandlerFacts, AtMoves
  <1>h. (Len(stack) = 1 => p # "iret") /\ (Len(stack) = 1 \/ IF_flag' = FALSE)
    BY <1>a, <1>b, <1>e, HandlerFacts
  <1>i. p = "data" => Len(sent) > 0
    <2>1. out_full => out_data \in 1 .. Len(sent)
      BY DEF KeyInv, NoKeyLost
    <2>2. p = "data" => out_full
      BY <1>a, HandlerFacts
    <2> QED BY <2>1, <2>2, StackFacts
  <1> HIDE DEF p
  <1>1. Types'
    BY <1>b, <1>c, <1>g, MoveTypes
  <1>2. ~Booting /\ ~Booting' /\ BootInv' /\ NestInv'
    BY <1>a, <1>b, <1>c, <1>f, <1>g, <1>h, StackFacts, HandlerMoves
  <1>3. MaskInv'
    <2>1. Len(stack) = 1 /\ mask = {} => IF_flag'
      BY <1>a, <1>b, <1>2 DEF MaskInv, InMain
    <2> QED BY <2>1, <1>b, <1>f, <1>g, <1>2, MoveMask
  <1>4. KeyInv'
    BY <1>a, <1>b, <1>f, <1>g, <1>i, MoveKeys
  <1>5. DepthInv'
    <2>1. Len(stack) >= 2 => ~EnablingNext(Len(stack))
      BY <1>f, <1>g, <1>h, StackFacts DEF EnablingNext, Moves, HandlerPcs
    <2> QED BY <2>1, <1>b, <1>g, MoveDepth
  <1> QED BY <1>1, <1>2, <1>3, <1>4, <1>5

LEMMA PromptStep ==
    ASSUME IntInv, Prompt
    PROVE  IntInv'
  <1> USE DEF IntInv
  <1>a. Top.pc = "prompt" /\ Top.pc \in HandlerPcs
    BY DEF Prompt, HandlerPcs
  <1>b. UNCHANGED <<IF_flag, mask, irr, in_service, out_full, out_data, sent, handled, kernel>>
    BY DEF Prompt, pic, keyboard
  <1>c. IF_flag \in BOOLEAN /\ mask \subseteq Lines /\ handled \in Seq(1 .. Len(sent))
    BY DEF Types
  <1>d. stack' = At(Return) /\ Return = IF Len(stack) = 1 THEN "poll" ELSE "iret"
    BY <1>a, HandlerFacts DEF Prompt
  <1>f. /\ Return \in HandlerPcs \cup {"iret"}
        /\ Return \notin {"data", "run", "irq_enable_0", "prompt", "sti"}
    BY <1>d DEF HandlerPcs
  <1>g. Moves(Return) /\ stack' \in Seq(Frame) /\ stack'[Len(stack)].scancode = Top.scancode
    BY <1>a, <1>d, <1>f, HandlerFacts, AtMoves
  <1>1. Types'
    BY <1>b, <1>c, <1>g, MoveTypes
  <1>2. ~Booting /\ ~Booting' /\ BootInv' /\ NestInv'
    <2>1. Len(stack) = 1 => Return # "iret"
      BY <1>d
    <2>2. Len(stack) >= 2 => Return = "iret"
      BY <1>d, StackFacts
    <2>3. IF_flag' \in BOOLEAN
      BY <1>b, <1>c
    <2> QED BY <1>a, <1>b, <1>f, <1>g, <2>1, <2>2, <2>3, HandlerMoves
  <1>3. MaskInv'
    <2>1. Len(stack) = 1 /\ mask = {} => IF_flag'
      BY <1>a, <1>b, <1>2 DEF MaskInv, InMain
    <2> QED BY <2>1, <1>b, <1>f, <1>g, <1>2, MoveMask
  <1>4. KeyInv'
    BY <1>a, <1>b, <1>f, <1>g, MoveKeys
  <1>5. DepthInv'
    <2>1. Enabling(Len(stack))
      BY <1>a, StackFacts DEF Enabling
    <2> QED BY <2>1, <1>b, <1>g, MoveDepth
  <1> QED BY <1>1, <1>2, <1>3, <1>4, <1>5

LEMMA StiStep ==
    ASSUME IntInv, Sti
    PROVE  IntInv'
  <1> USE DEF IntInv
  <1>a. Top.pc = "sti" /\ Top.pc \in HandlerPcs
    BY DEF Sti, HandlerPcs
  <1>b. UNCHANGED <<mask, irr, in_service, out_full, out_data, sent, handled, kernel>>
    BY DEF Sti, pic, keyboard
  <1>c. IF_flag' = TRUE /\ mask \subseteq Lines /\ handled \in Seq(1 .. Len(sent))
    BY DEF Types, Sti
  <1>d. stack' = At("prompt") /\ "prompt" \in HandlerPcs
    BY DEF Sti, HandlerPcs
  <1>g. Moves("prompt") /\ stack' \in Seq(Frame) /\ stack'[Len(stack)].scancode = Top.scancode
    BY <1>a, <1>d, HandlerFacts, AtMoves
  <1>h. IF_flag' \in BOOLEAN
    BY <1>c
  <1>1. Types'
    BY <1>b, <1>c, <1>g, <1>h, MoveTypes
  <1>2. ~Booting /\ ~Booting' /\ BootInv' /\ NestInv'
    BY <1>a, <1>b, <1>d, <1>g, <1>h, HandlerMoves
  <1>3. MaskInv'
    BY <1>b, <1>c, <1>g, <1>2, MoveMask
  <1>4. KeyInv'
    BY <1>a, <1>b, <1>g, MoveKeys
  <1>5. DepthInv'
    <2>1. Enabling(Len(stack))
      BY <1>a, StackFacts DEF Enabling
    <2> QED BY <2>1, <1>b, <1>g, MoveDepth
  <1> QED BY <1>1, <1>2, <1>3, <1>4, <1>5

LEMMA EnableKeyboardStep ==
    ASSUME IntInv, EnableKeyboard
    PROVE  IntInv'
  <1> USE DEF IntInv
  <1> DEFINE n == Len(stack)
  <1>a. Top.pc = "irq_enable_1" /\ Top.pc \in HandlerPcs
    BY DEF EnableKeyboard, HandlerPcs
  <1>b. UNCHANGED <<IF_flag, irr, in_service, out_full, out_data, sent, handled, kernel>>
    BY DEF EnableKeyboard, keyboard
  <1>c. mask' = mask \ {1} /\ mask \subseteq Lines /\ handled \in Seq(1 .. Len(sent))
    BY DEF Types, EnableKeyboard
  <1>d. stack' = At("irq_enable_0") /\ "irq_enable_0" \in HandlerPcs
    BY DEF EnableKeyboard, HandlerPcs
  <1>g. /\ Moves("irq_enable_0") /\ stack' \in Seq(Frame)
        /\ stack'[Len(stack)].scancode = Top.scancode
    BY <1>a, <1>d, HandlerFacts, AtMoves
  <1>h. IF_flag' \in BOOLEAN
    BY <1>b DEF Types
  <1>1. Types'
    <2>1. mask' \subseteq Lines
      BY <1>c
    <2> QED BY <2>1, <1>b, <1>c, <1>g, <1>h, MoveTypes
  <1>2. ~Booting /\ ~Booting' /\ BootInv' /\ NestInv'
    <2>1. Len(stack) >= 2 => ~IF_flag'
      BY <1>a, <1>b, HandlerFacts
    <2> QED BY <2>1, <1>a, <1>b, <1>d, <1>g, <1>h, HandlerMoves
  <1>3. MaskInv'
    <2>1. Len(stack') = n /\ 1 \notin mask'
      BY <1>c, <1>g DEF Moves
    <2>2. mask' = {} => mask = {}
      BY <1>2, <1>c DEF MaskInv, Lines
    <2>3. InMain /\ mask = {} => IF_flag'
      BY <1>a, <1>b, <1>2 DEF MaskInv
    <2>4. InMain' => InMain
      BY <2>1 DEF InMain
    <2> QED BY <2>1, <2>2, <2>3, <2>4 DEF MaskInv
  <1>4. KeyInv'
    BY <1>a, <1>b, <1>g, MoveKeys
  <1>5. DepthInv'
    <2>1. Enabling(Len(stack))
      BY <1>a, StackFacts DEF Enabling
    <2> QED BY <2>1, <1>b, <1>g, MoveDepth
  <1> QED BY <1>1, <1>2, <1>3, <1>4, <1>5

LEMMA EnableTimerStep ==
    ASSUME IntInv, EnableTimer
    PROVE  IntInv'
  <1> USE DEF IntInv
  <1> DEFINE n == Len(stack)
  <1>a. Top.pc = "irq_enable_0" /\ Top.pc \in HandlerPcs
    BY DEF EnableTimer, HandlerPcs
  <1>b. UNCHANGED <<IF_flag, irr, in_service, out_full, out_data, sent, handled, kernel>>
    BY DEF EnableTimer, keyboard
  <1>c. mask' = mask \ {0} /\ mask \subseteq Lines /\ handled \in Seq(1 .. Len(sent))
    BY DEF Types, EnableTimer
  <1>d. stack' = At("sti") /\ "sti" \in HandlerPcs
    BY DEF EnableTimer, HandlerPcs
  <1>g. Moves("sti") /\ stack' \in Seq(Frame) /\ stack'[Len(stack)].scancode = Top.scancode
    BY <1>a, <1>d, HandlerFacts, AtMoves
  <1>h. IF_flag' \in BOOLEAN
    BY <1>b DEF Types
  <1>1. Types'
    <2>1. mask' \subseteq Lines
      BY <1>c
    <2> QED BY <2>1, <1>b, <1>c, <1>g, <1>h, MoveTypes
  <1>2. ~Booting /\ ~Booting' /\ BootInv' /\ NestInv'
    <2>1. Len(stack) >= 2 => ~IF_flag'
      BY <1>a, <1>b, HandlerFacts
    <2> QED BY <2>1, <1>a, <1>b, <1>d, <1>g, <1>h, HandlerMoves
  <1>3. MaskInv'
    <2>1. 1 \notin mask
      BY <1>a, <1>2, StackFacts DEF MaskInv
    <2>2. 1 \notin mask' /\ Top'.pc = "sti"
      BY <2>1, <1>c, <1>g DEF Moves
    <2> QED BY <2>2 DEF MaskInv
  <1>4. KeyInv'
    BY <1>a, <1>b, <1>g, MoveKeys
  <1>5. DepthInv'
    <2>1. Enabling(Len(stack))
      BY <1>a, StackFacts DEF Enabling
    <2> QED BY <2>1, <1>b, <1>g, MoveDepth
  <1> QED BY <1>1, <1>2, <1>3, <1>4, <1>5

LEMMA BelowTop ==
    ASSUME NEW n \in Nat
    PROVE  /\ \A i \in 1 .. n : i # n => i \in 1 .. n - 1
           /\ \A i \in 2 .. n : i # n => i \in 2 .. n - 1
           /\ \A i \in 2 .. n - 1 : i \in 1 .. n - 1 /\ i \in 2 .. n /\ i # n
  OBVIOUS

LEMMA ReadDataStep ==
    ASSUME IntInv, ReadData
    PROVE  IntInv'
  <1> USE DEF IntInv
  <1> DEFINE n == Len(stack)
             f == [irq |-> Top.irq, runs |-> Top.runs, pc |-> "run", scancode |-> out_data]
  <1>a. Top.pc = "data" /\ Top.pc \in HandlerPcs
    BY DEF ReadData, HandlerPcs
  <1>b. UNCHANGED <<IF_flag, mask, irr, in_service, out_data, sent, handled, kernel>>
    BY DEF ReadData, pic
  <1>c. out_full' = FALSE
    BY DEF ReadData
  <1>d. /\ n \in Nat /\ n >= 1 /\ Top = stack[n] /\ Top \in Frame
        /\ DOMAIN stack = 1 .. n /\ n \in 1 .. n
    BY StackFacts
  <1>e. out_data = Len(sent) /\ Len(sent) > 0 /\ Len(sent) \in Nat
    BY <1>a, <1>d, StackFacts DEF KeyInv, Types
  <1>f. f \in Frame /\ f.pc = "run" /\ f.scancode = out_data
    BY <1>d, <1>e, PcsAre DEF Frame
  <1>g. stack' = [stack EXCEPT ![n] = f]
    <2> DEFINE g == [irq |-> Top.irq, runs |-> Top.runs, pc |-> "run", scancode |-> Top.scancode]
    <2>1. At("run") = [stack EXCEPT ![n] = g]
      BY AtIs
    <2>2. stack' = [At("run") EXCEPT ![n].scancode = out_data]
      BY DEF ReadData
    <2>3. [g EXCEPT !.scancode = out_data] = f
      OBVIOUS
    <2> HIDE DEF f, g
    <2> QED BY <2>1, <2>2, <2>3, <1>d
  <1> HIDE DEF f
  <1>h. Moves("run") /\ stack' \in Seq(Frame) /\ stack'[n] = f
    BY <1>f, <1>g, ReplaceTop DEF Moves
  <1>i. IF_flag' \in BOOLEAN /\ "run" \in HandlerPcs
    BY <1>b DEF Types, HandlerPcs
  <1>1. Types'
    <2>1. Frame' = Frame
      BY <1>b DEF Frame
    <2>2. Len(stack') >= 1 /\ out_full' \in BOOLEAN
      BY <1>c, <1>d, <1>h DEF Moves
    <2> QED BY <1>b, <1>h, <2>1, <2>2 DEF Types, kernel
  <1>2. ~Booting /\ ~Booting' /\ BootInv' /\ NestInv'
    <2>1. Len(stack) >= 2 => ~IF_flag'
      BY <1>a, <1>b, HandlerFacts
    <2> QED BY <2>1, <1>a, <1>b, <1>h, <1>i, HandlerMoves
  <1>3. MaskInv'
    <2>1. Len(stack) = 1 /\ mask = {} => IF_flag'
      BY <1>a, <1>b, <1>2 DEF MaskInv, InMain
    <2> QED BY <2>1, <1>b, <1>h, <1>2, MoveMask
  <1>4. KeyInv'
    <2>a. /\ Len(stack') = n /\ DOMAIN stack' = 1 .. n
          /\ \A i \in 1 .. n - 1 : stack'[i] = stack[i]
      BY <1>h DEF Moves
    <2>b. \A i \in 1 .. n : i # n => i \in 1 .. n - 1
      BY <1>d, BelowTop
    <2>1. Held' = Held \cup {out_data}
      <3>1. Held' \subseteq Held \cup {out_data}
        BY <1>a, <1>d, <1>f, <1>h, <2>a, <2>b DEF Held
      <3>2. Held \subseteq Held'
        BY <1>a, <1>d, <2>a, <2>b DEF Held
      <3>3. out_data \in Held'
        BY <1>d, <1>f, <1>h, <2>a DEF Held
      <3> QED BY <3>1, <3>2, <3>3
    <2>2. 1 .. Len(sent) = Range(handled) \cup Held \cup {out_data}
      <3>1. out_data \in 1 .. Len(sent)
        BY <1>e
      <3>2. 1 .. Len(sent) = Range(handled) \cup Held \cup (IF out_full THEN {out_data} ELSE {})
        BY DEF KeyInv, NoKeyLost, Held
      <3> QED BY <3>1, <3>2
    <2>3. 1 .. Len(sent') = Range(handled') \cup Held' \cup {}
      BY <2>1, <2>2, <1>b
    <2>4. NoKeyLost'
      BY <2>3, <1>c DEF NoKeyLost, Held
    <2>5. \A i \in 1 .. n : /\ stack'[i].pc = "data" => Len(sent') > 0
                            /\ stack'[i].pc = "run" => stack'[i].scancode > 0
      BY <1>b, <1>e, <1>f, <1>h, <2>a, <2>b DEF KeyInv
    <2> QED BY <2>a, <2>4, <2>5 DEF KeyInv
  <1>5. DepthInv'
    <2>1. ~EnablingNext(n)
      BY <1>f, <1>h DEF EnablingNext
    <2> QED BY <2>1, <1>b, <1>h, MoveDepth
  <1> QED BY <1>1, <1>2, <1>3, <1>4, <1>5

LEMMA AppendRange ==
    ASSUME NEW S, NEW s \in Seq(S), NEW x \in S
    PROVE  Range(Append(s, x)) = Range(s) \cup {x}
  <1>1. \A i \in DOMAIN Append(s, x) : Append(s, x)[i] \in Range(s) \cup {x}
    BY DEF Range
  <1>2. x = Append(s, x)[Len(s) + 1] /\ Len(s) + 1 \in DOMAIN Append(s, x)
    OBVIOUS
  <1>3. \A i \in DOMAIN s : i \in DOMAIN Append(s, x) /\ Append(s, x)[i] = s[i]
    OBVIOUS
  <1> QED BY <1>1, <1>2, <1>3 DEF Range

LEMMA HandleKeyStep ==
    ASSUME IntInv, HandleKey
    PROVE  IntInv'
  <1> USE DEF IntInv
  <1> DEFINE n == Len(stack)
             c == Top.scancode
             effect == IF c \in Range(handled) THEN "char" ELSE sent[c]
             p == CASE effect = "char"       -> Return
                    [] effect = "enableints" -> "irq_enable_1"
                    [] effect = "halt"       -> "halted"
  <1>a. Top.pc = "run" /\ Top.pc \in HandlerPcs
    BY DEF HandleKey, HandlerPcs
  <1>b. UNCHANGED <<mask, irr, in_service, out_full, out_data, sent, kernel>>
    BY DEF HandleKey, pic, keyboard
  <1>c. /\ n \in Nat /\ n >= 1 /\ Top = stack[n] /\ Top \in Frame
        /\ DOMAIN stack = 1 .. n /\ n \in 1 .. n /\ Len(sent) \in Nat
    BY StackFacts
  <1>d. c \in 1 .. Len(sent)
    BY <1>a, <1>c DEF KeyInv, Frame
  <1>e. effect \in Effects
    <2>1. sent[c] \in Effects
      BY <1>d DEF Types
    <2> QED BY <2>1 DEF Effects
  <1>f. handled' = Append(handled, c) /\ IF_flag' = (IF_flag /\ effect # "halt")
    BY DEF HandleKey
  <1>g. stack' = At(p)
    BY <1>e DEF HandleKey, Effects
  <1>h. /\ Return = IF n = 1 THEN "poll" ELSE "iret"
        /\ HandlerPcs \cup {"iret", "halted"} \subseteq Pcs \ Stages
        /\ n = 1 \/ IF_flag = FALSE
    BY <1>a, HandlerFacts
  <1>i. /\ effect = "char" => p = Return
        /\ effect = "enableints" => p = "irq_enable_1"
        /\ effect = "halt" => p = "halted"
        /\ p \in {Return, "irq_enable_1", "halted"}
    BY <1>e DEF Effects
  <1>j. effect = "enableints" => c \notin Range(handled)
    OBVIOUS
  <1> HIDE DEF p, effect
  <1>k. p \in HandlerPcs \cup {"iret", "halted"} /\ (n = 1 => p # "iret")
    BY <1>h, <1>i DEF HandlerPcs
  <1>l. Moves(p) /\ stack' \in Seq(Frame) /\ stack'[n].scancode = c
    BY <1>g, <1>h, <1>k, AtMoves
  <1>m. IF_flag' \in BOOLEAN
    BY <1>f
  <1>n. n >= 2 => ~IF_flag'
    BY <1>a, <1>f, HandlerFacts
  <1>o. handled' \in Seq(1 .. Len(sent)) /\ Range(handled') = Range(handled) \cup {c}
    BY <1>d, <1>f, AppendRange DEF Types
  <1>p. /\ Len(stack') = n /\ DOMAIN stack' = 1 .. n /\ stack'[n].pc = p
        /\ \A i \in 1 .. n - 1 : stack'[i] = stack[i]
    BY <1>l DEF Moves
  <1>q. /\ \A i \in 1 .. n : i # n => i \in 1 .. n - 1
        /\ \A i \in 2 .. n : i # n => i \in 2 .. n - 1
    BY <1>c, BelowTop
  <1>1. Types'
    <2>1. mask' \subseteq Lines
      BY <1>b DEF Types
    <2> QED BY <2>1, <1>b, <1>l, <1>m, <1>o, MoveTypes
  <1>2. ~Booting /\ ~Booting' /\ BootInv' /\ NestInv'
    BY <1>a, <1>b, <1>k, <1>l, <1>m, <1>n, HandlerMoves
  <1>3. MaskInv'
    <2>1. n = 1 /\ mask = {} => IF_flag
      BY <1>a, <1>2 DEF MaskInv, InMain
    <2>2. p # "halted" => effect # "halt"
      BY <1>i
    <2>3. n = 1 /\ mask = {} /\ p # "halted" => IF_flag'
      BY <2>1, <2>2, <1>f
    <2>4. p # "irq_enable_0"
      BY <1>h, <1>i
    <2> QED BY <2>3, <2>4, <1>b, <1>l, <1>2, MoveMask
  <1>4. KeyInv'
    <2>a. p \notin {"run", "data"}
      BY <1>h, <1>i
    <2>1. Held \subseteq Held' \cup {c}
      BY <1>c, <1>p, <1>q DEF Held
    <2>2. Held' \subseteq Held
      BY <1>c, <1>p, <1>q, <2>a DEF Held
    <2>3. c \in Held
      BY <1>a, <1>c DEF Held
    <2>4. NoKeyLost'
      BY <2>1, <2>2, <2>3, <1>b, <1>o DEF KeyInv, NoKeyLost, Held
    <2>5. \A i \in 1 .. n : /\ stack'[i].pc = "data" => Len(sent') > 0
                            /\ stack'[i].pc = "run" => stack'[i].scancode > 0
      BY <1>b, <1>p, <1>q, <2>a DEF KeyInv
    <2> QED BY <2>4, <2>5, <1>p DEF KeyInv
  <1>5. DepthInv'
    <2>1. CASE effect # "enableints" \/ n = 1
      <3>1. n >= 2 => ~EnablingNext(n)
        BY <2>1, <1>c, <1>e, <1>h, <1>i, <1>n, <1>p DEF EnablingNext, Effects
      <3> QED BY <3>1, <1>l, <1>o, MoveDepth
    <2>2. CASE effect = "enableints" /\ n # 1
      <3>1. c \notin Range(handled)
        BY <2>2, <1>j
      <3>2. \A i \in 2 .. n - 1 : stack'[i] = stack[i] /\ i \in 2 .. n /\ i < n
        <4>1. \A i \in 2 .. n - 1 : i < n
          BY <1>c
        <4> QED BY <4>1, <1>c, <1>p, BelowTop
      <3>3. \A i \in 2 .. n - 1 : Enabling(i)' => Enabling(i)
        BY <3>2 DEF Enabling
      <3>4. \A i \in 2 .. n - 1 :
              Enabling(i)' => stack'[i].scancode \in Range(handled)
        BY <3>2, <3>3 DEF DepthInv
      <3>5. \A i \in 2 .. n : Enabling(i)' => stack'[i].scancode \in Range(handled')
        BY <3>4, <1>l, <1>o, <1>q
      <3>6. \A i, j \in 2 .. n - 1 :
              Enabling(i)' /\ Enabling(j)' /\ stack'[i].scancode = stack'[j].scancode => i = j
        BY <3>2, <3>3 DEF DepthInv
      <3>7. \A i, j \in 2 .. n :
              Enabling(i)' /\ Enabling(j)' /\ stack'[i].scancode = stack'[j].scancode => i = j
        BY <3>1, <3>4, <3>6, <1>l, <1>q
      <3> QED BY <3>5, <3>7, <1>p DEF DepthInv
    <2> QED BY <2>1, <2>2
  <1> QED BY <1>1, <1>2, <1>3, <1>4, <1>5

----------------------------------------------------------------------------
\* The theorems.

LEMMA InitInv == Init => IntInv
  <1> SUFFICES ASSUME Init PROVE IntInv
    OBVIOUS
  <1> DEFINE f == [irq |-> MainLoop, runs |-> "kernel_main", pc |-> BootOrder[1], scancode |-> 0]
  <1>1. /\ stack = <<f>> /\ IF_flag = FALSE /\ in_service = {} /\ initialised = {}
        /\ sent = <<>> /\ handled = <<>> /\ out_full = FALSE
    BY DEF Init
  <1>2. f \in Frame
    BY <1>1, OrderFacts, PcsAre DEF Frame, Handlers, StageSet
  <1>3. f.pc = BootOrder[1] /\ BootOrder[1] \in Stages
    BY StageIn
  <1> HIDE DEF f
  <1>4. Len(stack) = 1 /\ stack[1] = f /\ DOMAIN stack = {1} /\ Top = f
    BY <1>1 DEF Top
  <1>5. Types
    <2>1. stack \in Seq(Frame) /\ sent \in Seq(Effects) /\ handled \in Seq(1 .. Len(sent))
      BY <1>1, <1>2
    <2>2. Len(sent) = 0 /\ 0 <= MaxKeys
      BY <1>1, InterruptsConstants
    <2>3. DOMAIN interrupt_handlers = {}
      BY DEF Init, NoEntries
    <2>4. IF_flag \in BOOLEAN /\ out_full \in BOOLEAN
      BY <1>1
    <2>5. mask \subseteq Lines /\ irr \subseteq Lines /\ out_data = 0
      BY DEF Init
    <2> QED BY <1>1, <1>4, <2>1, <2>2, <2>3, <2>4, <2>5 DEF Types
  <1>6. BootInv
    <2>1. Booting
      BY <1>3, <1>4 DEF Booting
    <2>2. 1 \in 1 .. 9
      OBVIOUS
    <2>3. \A k \in 1 .. 9 : stack[1].pc = BootOrder[k] => k = 1
      BY <1>3, <1>4, <2>2, OrderInjective
    <2>4. DoneBefore(1)
      BY <1>1 DEF DoneBefore
    <2> QED BY <1>1, <1>4, <2>1, <2>3, <2>4, OrderFacts DEF BootInv
  <1>7. f.pc = "terminal_initialize"
    BY <1>3, OrderFacts
  <1>8. NestInv
    BY <1>1, <1>4, <1>7 DEF NestInv, NestsAfterSti, NoStuckService
  <1>9. MaskInv
    BY <1>3, <1>4 DEF MaskInv, Booting
  <1>10. KeyInv
    <2>1. {j \in DOMAIN stack : stack[j].pc = "run"} = {}
      BY <1>4, <1>7
    <2>2. Range(handled) = {} /\ 1 .. Len(sent) = {}
      BY <1>1 DEF Range
    <2>3. NoKeyLost
      BY <1>1, <2>1, <2>2 DEF NoKeyLost
    <2> QED BY <2>3, <1>4, <1>7 DEF KeyInv
  <1>11. DepthInv
    BY <1>4 DEF DepthInv
  <1> QED BY <1>5, <1>6, <1>8, <1>9, <1>10, <1>11 DEF IntInv

LEMMA StepInv == IntInv /\ [Next]_vars => IntInv'
  <1> SUFFICES ASSUME IntInv, [Next]_vars PROVE IntInv'
    OBVIOUS
  <1>1. CASE TimerFires
    BY <1>1, QuietStep DEF TimerFires, IntInv, Types, Lines
  <1>2. ASSUME NEW effect \in Effects, KeyArrives(effect) PROVE IntInv'
    BY <1>2, KeyArrivesStep
  <1>3. ASSUME NEW irq \in Lines, Interrupt(irq) PROVE IntInv'
    BY <1>3, InterruptStep
  <1>4. CASE kernel_main
    BY <1>4, BootStep
  <1>5. ASSUME NEW int_no \in IntNos, irq_handler(int_no) PROVE IntInv'
    BY <1>5, IrqHandlerStep
  <1>6. CASE iret
    BY <1>6, IretStep
  <1>7. CASE keyboard_handler
    BY <1>7, ReadStatusStep, ReadDataStep, HandleKeyStep, EnableKeyboardStep, EnableTimerStep,
       StiStep, PromptStep DEF keyboard_handler, cmd_enableints
  <1>8. CASE UNCHANGED vars
    <2>1. UNCHANGED <<IF_flag, mask, in_service, keyboard, stack, handled, kernel>> /\ irr' = irr
      BY <1>8 DEF vars, pic
    <2> QED BY <2>1, QuietStep DEF IntInv, Types
  <1> QED BY <1>1, <1>2, <1>3, <1>4, <1>5, <1>6, <1>7, <1>8 DEF Next, Execute, Stay

LEMMA IntervalSizes ==
    ASSUME NEW m \in Nat
    PROVE  /\ IsFiniteSet(1 .. m) /\ Cardinality(1 .. m) = m
           /\ IsFiniteSet(2 .. m - 1) /\ (m >= 3 => Cardinality(2 .. m - 1) = m - 2)
  <1>1. 1 \in Int /\ 2 \in Int /\ m \in Int /\ m - 1 \in Int
    OBVIOUS
  <1>2. IsFiniteSet(1 .. m) /\ Cardinality(1 .. m) = IF 1 > m THEN 0 ELSE m - 1 + 1
    BY <1>1, FS_Interval
  <1>3. /\ IsFiniteSet(2 .. m - 1)
        /\ Cardinality(2 .. m - 1) = IF 2 > m - 1 THEN 0 ELSE (m - 1) - 2 + 1
    BY <1>1, FS_Interval
  <1> QED BY <1>2, <1>3

\* Each handler that can be interrupted has executed enableints for a key stroke
\* of its own.
LEMMA DepthBound ==
    ASSUME IntInv
    PROVE  Len(stack) <= MaxDepth
  <1> USE DEF IntInv
  <1> DEFINE n == Len(stack)
             S == 2 .. n - 1
             T == 1 .. Len(sent)
             f == [i \in S |-> stack[i].scancode]
  <1>1. n \in Nat /\ n >= 1 /\ Len(sent) \in Nat
    BY StackFacts
  <1>2. \A i \in S : i \in 2 .. n /\ Enabling(i)
    <2>1. \A i \in S : i \in 2 .. n /\ i < n
      BY <1>1
    <2> QED BY <2>1 DEF NestInv, NestsAfterSti, Enabling
  <1>3. Range(handled) \subseteq T
    BY DEF Types, Range
  <1>4. f \in [S -> T]
    BY <1>2, <1>3 DEF DepthInv
  <1>5. \A i, j \in S : f[i] = f[j] => i = j
    BY <1>2 DEF DepthInv
  <1>6. IsFiniteSet(T) /\ Cardinality(T) = Len(sent)
    BY <1>1, IntervalSizes
  <1>7. IsFiniteSet(S) /\ (n >= 3 => Cardinality(S) = n - 2)
    BY <1>1, IntervalSizes
  <1> HIDE DEF f, S, T
  <1>8. ~(Cardinality(T) < Cardinality(S))
    BY <1>4, <1>5, <1>6, <1>7, FS_PigeonHole
  <1>9. n >= 3 => n - 2 <= Len(sent)
    BY <1>1, <1>6, <1>7, <1>8
  <1>10. Len(sent) <= MaxKeys
    BY DEF Types
  <1> QED BY <1>1, <1>9, <1>10, InterruptsConstants DEF MaxDepth

LEMMA AlwaysInv == Spec => []IntInv
  BY InitInv, StepInv, PTL DEF Spec

\* The types hold, and however often enableints is entered inside its own output,
\* routines nest no deeper than the key strokes, one more interrupt and the main
\* loop: the stack is bounded by what the user has typed.
THEOREM NestingBounded == Spec => []TypeOK
  <1>1. IntInv => TypeOK
    <2> SUFFICES ASSUME IntInv PROVE TypeOK
      OBVIOUS
    <2>1. Types
      BY DEF IntInv
    <2>2. Len(stack) \in 1 .. MaxDepth
      BY <2>1, StackFacts, DepthBound, InterruptsConstants DEF MaxDepth
    <2>3. out_data \in 0 .. Len(sent)
      BY <2>1, StackFacts DEF Types
    <2> QED BY <2>1, <2>2, <2>3 DEF Types, TypeOK, Frame
  <1> QED BY <1>1, AlwaysInv, PTL

\* A handler is interrupted only after it has executed sti itself.
THEOREM HandlersUninterrupted == Spec => []NestsAfterSti
  <1>1. IntInv => NestsAfterSti
    BY DEF IntInv, NestInv
  <1> QED BY <1>1, AlwaysInv, PTL

\* Whatever number irq_handler reads as r->int_no, its EOI leaves no line in
\* service.
THEOREM EoiComplete == Spec => []NoStuckService
  <1>1. IntInv => NoStuckService
    BY DEF IntInv, NestInv
  <1> QED BY <1>1, AlwaysInv, PTL

\* No handler returns to the main loop with interrupts off once enableints has run.
THEOREM MainStaysInterruptible == Spec => []MainInterruptible
  <1>1. IntInv => MainInterruptible
    <2> SUFFICES ASSUME IntInv, InMain, initialised = Stages, mask = {},
                        Top.pc \notin {"sti", "halted"}
                 PROVE  IF_flag
      BY DEF MainInterruptible
    <2>1. ~Booting
      <3> SUFFICES ASSUME Booting PROVE FALSE
        OBVIOUS
      <3>1. PICK k \in 1 .. 9 : stack[1].pc = BootOrder[k]
        BY StageNumber DEF Booting
      <3>2. initialised = {BootOrder[j] : j \in 1 .. k - 1}
        BY <3>1, OrderFacts DEF IntInv, BootInv, DoneBefore
      <3>3. BootOrder[k] \in Stages
        BY StageIn
      <3>4. PICK j \in 1 .. k - 1 : BootOrder[j] = BootOrder[k]
        BY <3>2, <3>3
      <3>5. j \in 1 .. 9 /\ j # k
        OBVIOUS
      <3> QED BY <3>4, <3>5, OrderInjective
    <2> QED BY <2>1 DEF IntInv, MaskInv
  <1> QED BY <1>1, AlwaysInv, PTL

\* No key stroke is lost between polling and IRQ1.
THEOREM KeysKept == Spec => []NoKeyLost
  <1>1. IntInv => NoKeyLost
    BY DEF IntInv, KeyInv
  <1> QED BY <1>1, AlwaysInv, PTL

\* Interrupts are on only when gates, handlers and components are in place.
THEOREM ReadyWhenOn == Spec => []ReadyForInterrupts
  <1>1. IntInv => ReadyForInterrupts
    BY DEF IntInv, BootInv, Ready, ReadyForInterrupts
  <1> QED BY <1>1, AlwaysInv, PTL

=============================================================================
