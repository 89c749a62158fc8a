------------------------------ MODULE Scheduler ------------------------------
(***************************************************************************)
(* The task scheduler of MiniCore-OS (scheduler.c, scheduler.h): a table   *)
(* of MAX_TASKS task slots, a singly linked ready queue threaded through   *)
(* the slots' next fields, the running task and the tick counter.          *)
(*                                                                         *)
(* The queue is modelled as the code keeps it, as head, tail and next      *)
(* pointers, because what can go wrong with it (a task linked in twice, a  *)
(* task cut off the list) has no counterpart in a sequence.  Ids, names,   *)
(* stacks and saved registers are left out: they are written and never     *)
(* read.                                                                   *)
(*                                                                         *)
(* Every exported function is one action, executed as a whole, except the  *)
(* timer handler scheduler_tick: its loop over the task table is one       *)
(* action per iteration, with tick_i as the loop counter.  Interrupt gates *)
(* clear the interrupt flag, so no other action is enabled before the      *)
(* handler has returned (tick_i = 0).                                      *)
(*                                                                         *)
(* Two specifications share the actions.  Spec lets any code call any      *)
(* function at any time.  IdleSpec is the use the demo tasks make of the   *)
(* scheduler: the idle task is created first and, being a hlt loop, it     *)
(* never sleeps and never exits.                                           *)
(***************************************************************************)
EXTENDS Integers

CONSTANTS
    MAX_TASKS,      \* number of task slots (8 in the code)
    TIME_SLICE,     \* ticks a task runs before it is preempted (10)
    WARMUP_TICKS,   \* ticks before preemption starts (100)
    UINT_MOD,       \* 2^32, the modulus of uint32_t
    SleepArgs,      \* the arguments task_sleep is called with (50, 75)
    Workers         \* entry points other than task_idle

ASSUME SchedulerConstants ==
    /\ MAX_TASKS \in Nat \ {0}
    /\ UINT_MOD \in Nat
    /\ TIME_SLICE \in 1 .. UINT_MOD - 1
    /\ WARMUP_TICKS \in Nat
    /\ SleepArgs \subseteq 0 .. UINT_MOD - 1
    /\ "task_idle" \notin Workers
    /\ "none" \notin Workers

VARIABLES
    state,          \* tasks[i].state
    eip,            \* tasks[i].eip, the entry point
    time_remaining, \* tasks[i].time_remaining
    sleep_until,    \* tasks[i].sleep_until
    queue,          \* task_queue_head, task_queue_tail and tasks[i].next
    current_task,
    system_ticks,
    tick_i          \* loop counter of scheduler_tick, 0 outside the handler

vars == <<state, eip, time_remaining, sleep_until, queue, current_task,
          system_ticks, tick_i>>

\* Slot i stands for &tasks[i - 1]; NULL is the null pointer.
NULL == 0
Tasks == 1 .. MAX_TASKS
TaskState == {"READY", "RUNNING", "SLEEPING", "TERMINATED"}
EntryPoints == Workers \cup {"task_idle"}
Uint32 == 0 .. UINT_MOD - 1
QueueType == [head : Tasks \cup {NULL}, tail : Tasks \cup {NULL},
              next : [Tasks -> Tasks \cup {NULL}]]

----------------------------------------------------------------------------
\* scheduler_init, and the static initializers it leaves alone.
Init ==
    /\ state = [t \in Tasks |-> "TERMINATED"]
    /\ eip = [t \in Tasks |-> "none"]
    /\ time_remaining = [t \in Tasks |-> 0]
    /\ sleep_until = [t \in Tasks |-> 0]
    /\ queue = [head |-> NULL, tail |-> NULL, next |-> [t \in Tasks |-> NULL]]
    /\ current_task = NULL
    /\ system_ticks = 0
    /\ tick_i = 0

\* Mutant of task_queue_add: the tail is not moved to the new task.
task_queue_add_no_tail(q, task) ==
    LET cleared == [q.next EXCEPT ![task] = NULL]
    IN  IF q.tail # NULL
        THEN [head |-> q.head, tail |-> q.tail,
              next |-> [cleared EXCEPT ![q.tail] = task]]
        ELSE [head |-> task, tail |-> task, next |-> cleared]

\* Mutant of task_queue_add: the task is linked in at the head.
task_queue_add_front(q, task) ==
    [head |-> task, tail |-> IF q.tail = NULL THEN task ELSE q.tail,
     next |-> [q.next EXCEPT ![task] = q.head]]

\* The assignments are in the code's order: when task is already the tail, the
\* second one makes it its own successor.
task_queue_add(q, task) ==
    LET cleared == [q.next EXCEPT ![task] = NULL]
    IN  IF q.tail # NULL
        THEN [head |-> q.head, tail |-> task,
              next |-> [cleared EXCEPT ![q.tail] = task]]
        ELSE [head |-> task, tail |-> task, next |-> cleared]

\* The queue after its head has been taken off; only for q.head # NULL.
task_queue_remove_next(q) ==
    LET rest == q.next[q.head]
    IN  [head |-> rest,
         tail |-> IF rest = NULL THEN NULL ELSE q.tail,
         next |-> [q.next EXCEPT ![q.head] = NULL]]

\* Mutant of schedule: the preempted task is queued but stays RUNNING.
schedule_stays_running(st, rem, cur) ==
    LET next_task == queue.head
        saves     == cur # NULL /\ st[cur] = "RUNNING"
        removed   == task_queue_remove_next(queue)
    IN  /\ queue' = IF next_task = NULL THEN queue
                    ELSE IF saves THEN task_queue_add(removed, cur) ELSE removed
        /\ state' = IF next_task = NULL THEN st
                    ELSE [st EXCEPT ![next_task] = "RUNNING"]
        /\ time_remaining' = rem
        /\ current_task' = IF next_task = NULL THEN cur ELSE next_task

\* Mutant of schedule: switch_to_task does not mark the new task RUNNING.
schedule_no_mark(st, rem, cur) ==
    LET next_task == queue.head
        saves     == cur # NULL /\ st[cur] = "RUNNING"
        removed   == task_queue_remove_next(queue)
    IN  /\ queue' = IF next_task = NULL THEN queue
                    ELSE IF saves THEN task_queue_add(removed, cur) ELSE removed
        /\ state' = IF next_task # NULL /\ saves
                    THEN [st EXCEPT ![cur] = "READY"] ELSE st
        /\ time_remaining' = rem
        /\ current_task' = IF next_task = NULL THEN cur ELSE next_task

\* schedule() and switch_to_task(), called after the caller has set the task
\* states to st, the remaining slices to rem and current_task to cur.
schedule(st, rem, cur) ==
    LET next_task == queue.head
        saves     == cur # NULL /\ st[cur] = "RUNNING"
        removed   == task_queue_remove_next(queue)
    IN  \/ /\ next_task = NULL
           /\ state' = st
           /\ time_remaining' = rem
           /\ current_task' = cur
           /\ UNCHANGED queue
        \/ /\ next_task # NULL
           /\ queue' = IF saves THEN task_queue_add(removed, cur) ELSE removed
           /\ state' = [t \in Tasks |-> IF t = next_task THEN "RUNNING"
                                        ELSE IF saves /\ t = cur THEN "READY"
                                        ELSE st[t]]
           /\ time_remaining' = [t \in Tasks |->
                                    IF t = next_task \/ (saves /\ t = cur)
                                    THEN TIME_SLICE ELSE rem[t]]
           /\ current_task' = next_task

\* With no free slot task_create returns 0 and changes nothing.
task_create(entry_point) ==
    /\ tick_i = 0
    /\ \E task \in Tasks :
        /\ state[task] = "TERMINATED"
        /\ \A i \in Tasks : i < task => state[i] # "TERMINATED"
        /\ state' = [state EXCEPT ![task] = "READY"]
        /\ time_remaining' = [time_remaining EXCEPT ![task] = TIME_SLICE]
        /\ sleep_until' = [sleep_until EXCEPT ![task] = 0]
        /\ eip' = [eip EXCEPT ![task] = entry_point]
        /\ queue' = task_queue_add(queue, task)
    /\ UNCHANGED <<current_task, system_ticks, tick_i>>

task_yield ==
    /\ tick_i = 0
    /\ schedule(state, time_remaining, current_task)
    /\ UNCHANGED <<eip, sleep_until, system_ticks, tick_i>>

task_sleep(ticks) ==
    /\ tick_i = 0
    /\ current_task # NULL
    /\ sleep_until' = [sleep_until EXCEPT
                          ![current_task] = (system_ticks + ticks) % UINT_MOD]
    /\ schedule([state EXCEPT ![current_task] = "SLEEPING"],
                time_remaining, current_task)
    /\ UNCHANGED <<eip, system_ticks, tick_i>>

\* Mutant of task_exit: current_task is not cleared before schedule().
task_exit_keeps_current ==
    /\ tick_i = 0
    /\ current_task # NULL
    /\ schedule([state EXCEPT ![current_task] = "TERMINATED"],
                time_remaining, current_task)
    /\ UNCHANGED <<eip, sleep_until, system_ticks, tick_i>>

task_exit ==
    /\ tick_i = 0
    /\ current_task # NULL
    /\ schedule([state EXCEPT ![current_task] = "TERMINATED"],
                time_remaining, NULL)
    /\ UNCHANGED <<eip, sleep_until, system_ticks, tick_i>>

----------------------------------------------------------------------------
\* scheduler_tick, the IRQ0 handler: count the tick, ...
TickCount ==
    /\ tick_i = 0
    /\ system_ticks' = (system_ticks + 1) % UINT_MOD
    /\ tick_i' = 1
    /\ UNCHANGED <<state, eip, time_remaining, sleep_until, queue, current_task>>

\* Mutant of Due: a strict comparison.
Due_strict(task) == state[task] = "SLEEPING" /\ sleep_until[task] < system_ticks

Due(task) == state[task] = "SLEEPING" /\ sleep_until[task] <= system_ticks

\* ... wake the sleepers that are due, one slot per iteration, ...
TickWake ==
    /\ tick_i \in Tasks
    /\ IF Due(tick_i)
       THEN /\ state' = [state EXCEPT ![tick_i] = "READY"]
            /\ queue' = task_queue_add(queue, tick_i)
       ELSE UNCHANGED <<state, queue>>
    /\ tick_i' = tick_i + 1
    /\ UNCHANGED <<eip, time_remaining, sleep_until, current_task, system_ticks>>

\* The running task is charged only after the warm-up.
Charged == current_task # NULL /\ system_ticks > WARMUP_TICKS

\* Mutant of AfterCharge: a signed counter.
AfterCharge_signed == time_remaining[current_task] - 1

AfterCharge == (time_remaining[current_task] - 1) % UINT_MOD

\* ... and charge the running task for the tick.
TickCharge ==
    /\ tick_i = MAX_TASKS + 1
    /\ \/ /\ ~Charged
          /\ UNCHANGED <<state, time_remaining, current_task, queue>>
       \/ /\ Charged /\ AfterCharge # 0
          /\ time_remaining' = [time_remaining EXCEPT ![current_task] = AfterCharge]
          /\ UNCHANGED <<state, current_task, queue>>
       \/ /\ Charged /\ AfterCharge = 0
          /\ schedule(state, [time_remaining EXCEPT ![current_task] = 0],
                      current_task)
    /\ tick_i' = 0
    /\ UNCHANGED <<eip, sleep_until, system_ticks>>

scheduler_tick == TickCount \/ TickWake \/ TickCharge

----------------------------------------------------------------------------
\* Any code calls any function.
Next ==
    \/ \E entry_point \in EntryPoints : task_create(entry_point)
    \/ task_yield
    \/ \E ticks \in SleepArgs : task_sleep(ticks)
    \/ task_exit
    \/ scheduler_tick

Spec == Init /\ [][Next]_vars

\* cmd_starttasks creates the idle task before the others, and task_idle is a
\* loop around hlt that calls nothing.
IdleCreated == \E t \in Tasks : state[t] # "TERMINATED" /\ eip[t] = "task_idle"

WorkerRuns == current_task # NULL /\ eip[current_task] # "task_idle"

IdleNext ==
    \/ \E entry_point \in EntryPoints :
          /\ entry_point = "task_idle" \/ IdleCreated
          /\ task_create(entry_point)
    \/ task_yield
    \/ WorkerRuns /\ \E ticks \in SleepArgs : task_sleep(ticks)
    \/ WorkerRuns /\ task_exit
    \/ scheduler_tick

IdleSpec == Init /\ [][IdleNext]_vars

\* The timer keeps interrupting: IRQ0 is periodic and its handler returns.
IdleFairSpec == IdleSpec /\ WF_vars(scheduler_tick)

----------------------------------------------------------------------------
TypeOK ==
    /\ state \in [Tasks -> TaskState]
    /\ eip \in [Tasks -> EntryPoints \cup {"none"}]
    /\ time_remaining \in [Tasks -> Uint32]
    /\ sleep_until \in [Tasks -> Uint32]
    /\ queue \in QueueType
    /\ current_task \in Tasks \cup {NULL}
    /\ system_ticks \in Uint32
    /\ tick_i \in 0 .. MAX_TASKS + 1

----------------------------------------------------------------------------
\* Properties of Spec: whatever the callers do.

\* At most the task current_task points to is RUNNING: schedule() puts the
\* preempted task back to READY before switch_to_task() marks its successor.
RunningIsCurrent ==
    \A t \in Tasks : state[t] = "RUNNING" => t = current_task

\* current_task never points to a TERMINATED slot, so task_create, which takes
\* the first TERMINATED slot, never overwrites the task that is executing.
CurrentNotReused == current_task # NULL => state[current_task] # "TERMINATED"

\* task_queue_head and task_queue_tail are NULL together; task_queue_add tests
\* only the tail and task_queue_remove_next only the head.
HeadTailAgree == queue.head = NULL <=> queue.tail = NULL

----------------------------------------------------------------------------
\* Properties of IdleSpec: with an idle task that is always runnable.

\* The current task is RUNNING: task_sleep and task_exit find a successor in
\* the queue and never return to a task that is asleep or gone.
CurrentRuns == current_task # NULL => state[current_task] = "RUNNING"

\* Once some task has been dispatched, a READY task is eventually dispatched
\* too, as long as the timer ticks: nothing overtakes it in the queue for ever.
ReadyRuns ==
    \A t \in Tasks :
        state[t] = "READY" /\ current_task # NULL ~> state[t] = "RUNNING"

\* A READY task is eventually dispatched once the timer ticks ("Demo tasks
\* started! They will run in the background.", cmd_starttasks in shell.c).
StartedTasksRun ==
    \A t \in Tasks : state[t] = "READY" ~> state[t] = "RUNNING"

\* A task that sleeps is eventually woken by the timer handler.
SleeperWakes ==
    \A t \in Tasks : state[t] = "SLEEPING" ~> state[t] = "READY"

\* Preemption comes within one time slice: the running task never has more than
\* TIME_SLICE ticks left ("Tasks automatically switch every 10 timer ticks",
\* cmd_tasks in shell.c).
SliceBounded ==
    current_task # NULL => time_remaining[current_task] <= TIME_SLICE

=============================================================================
