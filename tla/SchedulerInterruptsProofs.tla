----------------------- MODULE SchedulerInterruptsProofs -----------------------
(***************************************************************************)
(* What is proved of the scheduler when the timer interrupts task_create   *)
(* between any two of its stores, for every number of slots and every      *)
(* width of the counters.                                                  *)
(***************************************************************************)
EXTENDS SchedulerInterrupts, SchedulerProofs

----------------------------------------------------------------------------
\* The inductive invariant.

CreateSteps == {"none", "state", "next", "load", "link", "tail"}

\* task_create in progress has a slot and an entry point.
CreateType ==
    /\ create \in [at : CreateSteps, task : Tasks \cup {NULL},
                   entry_point : EntryPoints \cup {"none"}, tail : Tasks \cup {NULL}]
    /\ raced \in BOOLEAN
    /\ create.at # "none" => create.task \in Tasks /\ create.entry_point \in EntryPoints

\* Unless the timer handler came in between: the ends of the queue agree until
\* the tail is read and the register holds the tail until the task is linked in;
\* after that the queue has a head and only the tail is missing.
EndsInv ==
    ~raced =>
        /\ create.at # "tail" => HeadTailAgree
        /\ create.at = "link" => create.tail = queue.tail
        /\ create.at = "tail" => queue.head # NULL

IntInv == TypeOK /\ CreateType /\ CurrentInv /\ EndsInv

LEMMA InitInv == IntInit => IntInv
  <1> SUFFICES ASSUME IntInit PROVE IntInv
    OBVIOUS
  <1>1. TypeOK
    BY TypeStart DEF IntInit
  <1>2. ApiInv
    BY ApiStart DEF IntInit
  <1>3. CreateType
    BY DEF IntInit, NoCreate, CreateType, CreateSteps
  <1>4. EndsInv
    BY <1>2 DEF IntInit, NoCreate, EndsInv, ApiInv
  <1> QED BY <1>1, <1>2, <1>3, <1>4 DEF IntInv, ApiInv

----------------------------------------------------------------------------
\* The steps of task_create.

\* A step that leaves the task table and the queue alone.
LEMMA Quiet ==
    ASSUME TypeOK, CurrentInv, UNCHANGED vars
    PROVE  TypeOK' /\ CurrentInv'
  BY TypeStep, CurrentStep

LEMMA FindSlotStep ==
    ASSUME IntInv, NEW e \in EntryPoints, FindSlot(e)
    PROVE  IntInv'
  <1> USE DEF IntInv
  <1>1. TypeOK' /\ CurrentInv'
    BY Quiet DEF FindSlot
  <1>2. PICK task \in Tasks :
            create' = [at |-> "state", task |-> task, entry_point |-> e, tail |-> NULL]
    BY DEF FindSlot
  <1>3. create.at = "none" /\ UNCHANGED <<queue, raced>>
    BY DEF FindSlot, vars
  <1>4. CreateType'
    BY <1>2, <1>3 DEF CreateType, CreateSteps
  <1>5. EndsInv'
    BY <1>2, <1>3 DEF EndsInv, HeadTailAgree
  <1> QED BY <1>1, <1>4, <1>5

\* A step moves on to another one.
LEMMA StepFacts ==
    ASSUME CreateType, NEW from \in CreateSteps \ {"none"}, NEW to \in CreateSteps,
           Step(from, to)
    PROVE  /\ CreateType' /\ create.task \in Tasks /\ create.entry_point \in EntryPoints
           /\ create.at = from /\ create'.at = to /\ create'.tail = create.tail
           /\ create'.task = create.task /\ raced' = raced
  BY DEF CreateType, Step

\* The slot may meanwhile have become the current task, which the timer handler
\* took from the queue: it is then READY, and no other task RUNNING.
LEMMA FillSlotStep ==
    ASSUME IntInv, FillSlot
    PROVE  IntInv'
  <1> USE DEF IntInv
  <1>1. /\ CreateType' /\ create.task \in Tasks /\ create.entry_point \in EntryPoints
        /\ create.at = "state" /\ create'.at = "next" /\ raced' = raced
    BY StepFacts DEF FillSlot, CreateSteps
  <1>2. /\ state' = [state EXCEPT ![create.task] = "READY"]
        /\ time_remaining' = [time_remaining EXCEPT ![create.task] = TIME_SLICE]
        /\ sleep_until' = [sleep_until EXCEPT ![create.task] = 0]
        /\ eip' = [eip EXCEPT ![create.task] = create.entry_point]
        /\ UNCHANGED <<queue, current_task, system_ticks, tick_i>>
    BY DEF FillSlot
  <1>3. TypeOK'
    <2>1. TIME_SLICE \in Uint32 /\ 0 \in Uint32
      BY SchedulerConstants DEF Uint32
    <2> QED BY <1>1, <1>2, <2>1 DEF TypeOK, TaskState
  <1>4. CurrentInv'
    BY <1>1, <1>2 DEF TypeOK, CurrentInv, RunningIsCurrent, CurrentNotReused
  <1>5. EndsInv'
    BY <1>1, <1>2 DEF EndsInv, HeadTailAgree
  <1> QED BY <1>1, <1>3, <1>4, <1>5

\* A step that only changes the queue.
LEMMA QueueStep ==
    ASSUME TypeOK, CurrentInv, queue' \in QueueType,
           UNCHANGED <<state, eip, time_remaining, sleep_until, current_task,
                       system_ticks, tick_i>>
    PROVE  TypeOK' /\ CurrentInv'
  BY DEF TypeOK, CurrentInv, RunningIsCurrent, CurrentNotReused

LEMMA ClearNextStep ==
    ASSUME IntInv, ClearNext
    PROVE  IntInv'
  <1> USE DEF IntInv
  <1>1. /\ CreateType' /\ create.task \in Tasks /\ create.at = "next" /\ create'.at = "load"
        /\ raced' = raced
    BY StepFacts DEF ClearNext, CreateSteps
  <1>2. queue' = [queue EXCEPT !.next[create.task] = NULL] /\ queue \in QueueType
    BY DEF ClearNext, TypeOK
  <1>3. queue' \in QueueType /\ queue'.head = queue.head /\ queue'.tail = queue.tail
    BY <1>1, <1>2 DEF QueueType
  <1>4. TypeOK' /\ CurrentInv'
    BY <1>3, QueueStep DEF ClearNext
  <1>5. EndsInv'
    BY <1>1, <1>3 DEF EndsInv, HeadTailAgree
  <1> QED BY <1>1, <1>4, <1>5

LEMMA LoadTailStep ==
    ASSUME IntInv, LoadTail
    PROVE  IntInv'
  <1> USE DEF IntInv
  <1>1. TypeOK' /\ CurrentInv'
    BY Quiet DEF LoadTail
  <1>2. /\ create.at = "load" /\ create' = [create EXCEPT !.at = "link", !.tail = queue.tail]
        /\ UNCHANGED <<queue, raced>> /\ queue.tail \in Tasks \cup {NULL}
    BY DEF LoadTail, vars, TypeOK, QueueType
  <1>3. CreateType' /\ create'.at = "link" /\ create'.tail = queue.tail
    BY <1>2 DEF CreateType, CreateSteps
  <1>4. EndsInv'
    BY <1>2, <1>3 DEF EndsInv, HeadTailAgree
  <1> QED BY <1>1, <1>3, <1>4

LEMMA LinkStep ==
    ASSUME IntInv, Link
    PROVE  IntInv'
  <1> USE DEF IntInv
  <1>1. /\ CreateType' /\ create.task \in Tasks /\ create.at = "link" /\ create'.at = "tail"
        /\ raced' = raced
    BY StepFacts DEF Link, CreateSteps
  <1>2. /\ queue' = IF create.tail = NULL THEN [queue EXCEPT !.head = create.task]
                    ELSE [queue EXCEPT !.next[create.tail] = create.task]
        /\ queue \in QueueType /\ create.tail \in Tasks \cup {NULL}
    BY DEF Link, TypeOK, CreateType
  <1>3. /\ queue' \in QueueType
        /\ create.tail = NULL => queue'.head = create.task
        /\ create.tail # NULL => queue'.head = queue.head
    BY <1>1, <1>2 DEF QueueType
  <1>4. TypeOK' /\ CurrentInv'
    BY <1>3, QueueStep DEF Link
  <1>5. EndsInv'
    BY <1>1, <1>3, NullNotTask DEF EndsInv, HeadTailAgree
  <1> QED BY <1>1, <1>4, <1>5

LEMMA StoreTailStep ==
    ASSUME IntInv, StoreTail
    PROVE  IntInv'
  <1> USE DEF IntInv
  <1>1. /\ create.task \in Tasks /\ create.at = "tail" /\ raced' = raced /\ create' = NoCreate
    BY DEF StoreTail, CreateType
  <1>2. queue' = [queue EXCEPT !.tail = create.task] /\ queue \in QueueType
    BY DEF StoreTail, TypeOK
  <1>3. queue' \in QueueType /\ queue'.head = queue.head /\ queue'.tail = create.task
    BY <1>1, <1>2 DEF QueueType
  <1>4. TypeOK' /\ CurrentInv'
    BY <1>3, QueueStep DEF StoreTail
  <1>5. CreateType'
    BY <1>1 DEF CreateType, CreateSteps, NoCreate
  <1>6. EndsInv'
    BY <1>1, <1>3, NullNotTask DEF EndsInv, HeadTailAgree, NoCreate
  <1> QED BY <1>4, <1>5, <1>6

----------------------------------------------------------------------------
\* The timer handler and the other calls are those of Scheduler.

LEMMA TimerInterruptStep ==
    ASSUME IntInv, TimerInterrupt
    PROVE  IntInv'
  <1> USE DEF IntInv
  <1>1. [Next]_vars
    BY DEF TimerInterrupt, Next
  <1>2. TypeOK' /\ CurrentInv'
    BY <1>1, TypeStep, CurrentStep
  <1>3. /\ UNCHANGED create
        /\ raced' = (raced \/ (create.at \in {"link", "tail"} /\ queue' # queue))
    BY DEF TimerInterrupt
  <1>4. CreateType'
    BY <1>3 DEF CreateType
  <1>5. HeadTailAgree => HeadTailAgree'
    BY <1>1, EndsStep
  <1>6. ~raced' => ~raced /\ (create.at \in {"link", "tail"} => queue' = queue)
    BY <1>3
  <1>7. EndsInv'
    BY <1>3, <1>5, <1>6 DEF EndsInv
  <1> QED BY <1>2, <1>4, <1>7

LEMMA CallStep ==
    ASSUME IntInv, Call
    PROVE  IntInv'
  <1> USE DEF IntInv
  <1>1. [Next]_vars
    BY DEF Call, Next
  <1>2. TypeOK' /\ CurrentInv'
    BY <1>1, TypeStep, CurrentStep
  <1>3. UNCHANGED <<create, raced>> /\ create.at = "none"
    BY DEF Call
  <1>4. CreateType'
    BY <1>3 DEF CreateType
  <1>5. EndsInv'
    BY <1>1, <1>3, EndsStep DEF EndsInv
  <1> QED BY <1>2, <1>4, <1>5

LEMMA StepInv == IntInv /\ [IntNext]_intVars => IntInv'
  <1> SUFFICES ASSUME IntInv, [IntNext]_intVars PROVE IntInv'
    OBVIOUS
  <1>1. CASE UNCHANGED intVars
    <2>1. UNCHANGED vars /\ UNCHANGED <<create, raced>>
      BY <1>1 DEF intVars
    <2>2. TypeOK' /\ CurrentInv'
      BY <2>1, Quiet DEF IntInv
    <2> QED BY <2>1, <2>2 DEF IntInv, CreateType, EndsInv, HeadTailAgree, vars
  <1> QED
    BY <1>1, FindSlotStep, FillSlotStep, ClearNextStep, LoadTailStep, LinkStep,
       StoreTailStep, TimerInterruptStep, CallStep
    DEF IntNext

LEMMA AlwaysInv == IntSpec => []IntInv
  BY InitInv, StepInv, PTL DEF IntSpec

----------------------------------------------------------------------------
\* The theorems.

\* A timer interrupt anywhere in task_create never makes it store a pointer
\* outside the task table.
THEOREM TypesInterrupted == IntSpec => []TypeOK
  <1>1. IntInv => TypeOK
    BY DEF IntInv
  <1> QED BY <1>1, AlwaysInv, PTL

\* At most the current task is RUNNING, even when the timer handler dispatches
\* while task_create fills in the slot.
THEOREM OneRunning == IntSpec => []RunningIsCurrent
  <1>1. IntInv => RunningIsCurrent
    BY DEF IntInv, CurrentInv
  <1> QED BY <1>1, AlwaysInv, PTL

\* task_create never finds the slot of the executing task TERMINATED, whatever
\* the timer handler dispatches.
THEOREM CurrentKept == IntSpec => []CurrentNotReused
  <1>1. IntInv => CurrentNotReused
    BY DEF IntInv, CurrentInv
  <1> QED BY <1>1, AlwaysInv, PTL

\* Only a timer handler that changes the queue between the load and the store of
\* the tail can leave the ends of the queue disagreeing.
THEOREM RaceWindow == IntSpec => []EndsAgreeUnlessRaced
  <1>1. IntInv => EndsAgreeUnlessRaced
    BY DEF IntInv, EndsInv, EndsAgreeUnlessRaced
  <1> QED BY <1>1, AlwaysInv, PTL

=============================================================================
