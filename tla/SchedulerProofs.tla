--------------------------- MODULE SchedulerProofs ---------------------------
(***************************************************************************)
(* What is proved of the scheduler for every number of slots, every width  *)
(* of the counters and every set of entry points and sleep arguments.      *)
(***************************************************************************)
EXTENDS Scheduler, TLAPS

----------------------------------------------------------------------------
\* Types.

\* No slot is the null pointer.
LEMMA NullNotTask == NULL \notin Tasks
  BY DEF NULL, Tasks

\* task_queue_add and task_queue_remove_next map queues to queues.
LEMMA QueueTypes ==
    ASSUME NEW q \in QueueType, NEW t \in Tasks
    PROVE  /\ task_queue_add(q, t) \in QueueType
           /\ q.head # NULL => task_queue_remove_next(q) \in QueueType
  BY DEF task_queue_add, task_queue_remove_next, QueueType

\* Uint32 is closed under the modular arithmetic of the handlers.
LEMMA ModType ==
    ASSUME NEW x \in Int
    PROVE  x % UINT_MOD \in Uint32
  BY SchedulerConstants DEF Uint32

\* schedule() keeps the types, whatever well-typed state it is called in.
LEMMA ScheduleType ==
    ASSUME TypeOK,
           NEW st \in [Tasks -> TaskState],
           NEW rem \in [Tasks -> Uint32],
           NEW cur \in Tasks \cup {NULL},
           schedule(st, rem, cur)
    PROVE  /\ state' \in [Tasks -> TaskState]
           /\ time_remaining' \in [Tasks -> Uint32]
           /\ current_task' \in Tasks \cup {NULL}
           /\ queue' \in QueueType
  <1>1. CASE queue.head = NULL
    BY <1>1 DEF schedule, TypeOK
  <1>2. CASE queue.head # NULL
    <2> DEFINE removed == task_queue_remove_next(queue)
    <2>1. removed \in QueueType
      BY <1>2, QueueTypes DEF TypeOK, QueueType
    <2>2. cur # NULL => task_queue_add(removed, cur) \in QueueType
      BY <2>1, QueueTypes
    <2>3. TIME_SLICE \in Uint32 /\ queue.head \in Tasks
      BY <1>2, SchedulerConstants DEF Uint32, TypeOK, QueueType
    <2> HIDE DEF removed
    <2> QED
      BY <1>2, <2>1, <2>2, <2>3 DEF schedule, removed, TaskState
  <1> QED BY <1>1, <1>2

\* TypeOK is inductive for the general interface.
LEMMA TypeStep == TypeOK /\ [Next]_vars => TypeOK'
  <1> SUFFICES ASSUME TypeOK, [Next]_vars PROVE TypeOK'
    OBVIOUS
  <1> USE DEF TypeOK
  <1>1. ASSUME NEW e \in EntryPoints, task_create(e) PROVE TypeOK'
    <2> PICK task \in Tasks :
          /\ state' = [state EXCEPT ![task] = "READY"]
          /\ time_remaining' = [time_remaining EXCEPT ![task] = TIME_SLICE]
          /\ sleep_until' = [sleep_until EXCEPT ![task] = 0]
          /\ eip' = [eip EXCEPT ![task] = e]
          /\ queue' = task_queue_add(queue, task)
      BY <1>1 DEF task_create
    <2>1. queue' \in QueueType
      BY QueueTypes
    <2>2. TIME_SLICE \in Uint32 /\ 0 \in Uint32
      BY SchedulerConstants DEF Uint32
    <2> QED
      BY <1>1, <2>1, <2>2 DEF task_create, TaskState
  <1>2. CASE task_yield
    BY <1>2, ScheduleType DEF task_yield
  <1>3. ASSUME NEW ticks \in SleepArgs, task_sleep(ticks) PROVE TypeOK'
    <2> DEFINE st == [state EXCEPT ![current_task] = "SLEEPING"]
    <2>1. st \in [Tasks -> TaskState]
      BY DEF TaskState
    <2>a. system_ticks + ticks \in Int
      BY SchedulerConstants DEF Uint32
    <2>2. (system_ticks + ticks) % UINT_MOD \in Uint32
      BY <2>a, ModType
    <2>3. schedule(st, time_remaining, current_task)
      BY <1>3 DEF task_sleep
    <2> HIDE DEF st
    <2> QED
      BY <1>3, <2>1, <2>2, <2>3, ScheduleType DEF task_sleep
  <1>4. CASE task_exit
    <2> DEFINE st == [state EXCEPT ![current_task] = "TERMINATED"]
    <2>1. st \in [Tasks -> TaskState] /\ NULL \in Tasks \cup {NULL}
      BY DEF TaskState
    <2>2. schedule(st, time_remaining, NULL)
      BY <1>4 DEF task_exit
    <2> HIDE DEF st
    <2> QED
      BY <1>4, <2>1, <2>2, ScheduleType DEF task_exit
  <1>5. CASE TickCount
    <2>a. system_ticks + 1 \in Int
      BY SchedulerConstants DEF Uint32
    <2>1. (system_ticks + 1) % UINT_MOD \in Uint32
      BY <2>a, ModType
    <2> QED
      BY <1>5, <2>1, SchedulerConstants DEF TickCount
  <1>6. CASE TickWake
    <2>1. tick_i' \in 0 .. MAX_TASKS + 1
      BY <1>6, SchedulerConstants DEF TickWake, Tasks
    <2>2. queue' \in QueueType /\ state' \in [Tasks -> TaskState]
      BY <1>6, QueueTypes DEF TickWake, TaskState
    <2> QED
      BY <1>6, <2>1, <2>2 DEF TickWake
  <1>7. CASE TickCharge
    <2>1. CASE ~Charged
      BY <1>7, <2>1, SchedulerConstants DEF TickCharge
    <2>2. CASE Charged
      <3>a. current_task \in Tasks /\ 0 \in Uint32
        BY <2>2, SchedulerConstants DEF Charged, Uint32
      <3>b. time_remaining[current_task] - 1 \in Int
        BY <3>a, SchedulerConstants DEF Uint32
      <3>1. current_task \in Tasks /\ AfterCharge \in Uint32 /\ 0 \in Uint32
        BY <3>a, <3>b, ModType DEF AfterCharge
      <3>2. CASE AfterCharge # 0
        BY <1>7, <2>2, <3>1, <3>2, SchedulerConstants DEF TickCharge
      <3>3. CASE AfterCharge = 0
        <4> DEFINE rem == [time_remaining EXCEPT ![current_task] = 0]
        <4>1. rem \in [Tasks -> Uint32]
          BY <3>1
        <4>2. schedule(state, rem, current_task)
          BY <1>7, <2>2, <3>3 DEF TickCharge
        <4> HIDE DEF rem
        <4> QED
          BY <1>7, <4>1, <4>2, ScheduleType, SchedulerConstants DEF TickCharge
      <3> QED BY <3>2, <3>3
    <2> QED BY <2>1, <2>2
  <1>8. CASE UNCHANGED vars
    BY <1>8 DEF vars
  <1> QED
    BY <1>1, <1>2, <1>3, <1>4, <1>5, <1>6, <1>7, <1>8
    DEF Next, scheduler_tick

LEMMA TypeStart == Init => TypeOK
  BY SchedulerConstants DEF Init, TypeOK, TaskState, QueueType, Uint32

\* The scheduler's variables keep their types under every sequence of calls and
\* ticks; in particular no handler stores a pointer outside the task table.
THEOREM TypeCorrect == Spec => []TypeOK
  BY TypeStart, TypeStep, PTL DEF Spec

----------------------------------------------------------------------------
\* The running task and the queue ends, under every use of the interface.

\* Both queue operations keep head and tail NULL together.
EndsAgree(q) == q.head = NULL <=> q.tail = NULL

LEMMA QueueEnds ==
    ASSUME NEW q \in QueueType, NEW t \in Tasks, EndsAgree(q)
    PROVE  /\ EndsAgree(task_queue_add(q, t))
           /\ q.head # NULL => EndsAgree(task_queue_remove_next(q))
  <1>1. t # NULL
    BY NullNotTask
  <1> QED
    BY <1>1 DEF EndsAgree, task_queue_add, task_queue_remove_next, QueueType

\* schedule() leaves one RUNNING task at most, the current one, and a current
\* task that is not TERMINATED, if the caller's changes to the states did.
LEMMA ScheduleCurrent ==
    ASSUME queue \in QueueType,
           NEW st \in [Tasks -> TaskState],
           NEW rem,
           NEW cur \in Tasks \cup {NULL},
           \A t \in Tasks : st[t] = "RUNNING" => t = cur,
           cur # NULL => st[cur] # "TERMINATED",
           schedule(st, rem, cur)
    PROVE  RunningIsCurrent' /\ CurrentNotReused'
  <1>1. CASE queue.head = NULL
    BY <1>1 DEF schedule, RunningIsCurrent, CurrentNotReused
  <1>2. CASE queue.head # NULL
    <2>1. queue.head \in Tasks
      BY <1>2 DEF QueueType
    <2> QED
      BY <1>2, <2>1, NullNotTask DEF schedule, RunningIsCurrent, CurrentNotReused
  <1> QED BY <1>1, <1>2

LEMMA ScheduleEnds ==
    ASSUME queue \in QueueType, HeadTailAgree,
           NEW st, NEW rem, NEW cur \in Tasks \cup {NULL},
           schedule(st, rem, cur)
    PROVE  HeadTailAgree'
  <1>1. CASE queue.head = NULL
    BY <1>1 DEF schedule, HeadTailAgree
  <1>2. CASE queue.head # NULL
    <2> DEFINE removed == task_queue_remove_next(queue)
    <2>1. queue.head \in Tasks
      BY <1>2 DEF QueueType
    <2>2. removed \in QueueType /\ EndsAgree(removed)
      BY <1>2, <2>1, QueueTypes, QueueEnds DEF HeadTailAgree, EndsAgree
    <2>3. cur # NULL => EndsAgree(task_queue_add(removed, cur))
      BY <2>2, QueueEnds
    <2> HIDE DEF removed
    <2> QED
      BY <1>2, <2>2, <2>3 DEF schedule, removed, HeadTailAgree, EndsAgree
  <1> QED BY <1>1, <1>2

CurrentInv == RunningIsCurrent /\ CurrentNotReused
ApiInv == CurrentInv /\ HeadTailAgree

LEMMA CurrentStep == TypeOK /\ CurrentInv /\ [Next]_vars => CurrentInv'
  <1> SUFFICES ASSUME TypeOK, CurrentInv, [Next]_vars PROVE CurrentInv'
    OBVIOUS
  <1> USE DEF CurrentInv
  <1>0. /\ state \in [Tasks -> TaskState] /\ queue \in QueueType
        /\ current_task \in Tasks \cup {NULL}
    BY DEF TypeOK
  <1>1. ASSUME NEW e \in EntryPoints, task_create(e) PROVE CurrentInv'
    <2> PICK task \in Tasks : /\ state[task] = "TERMINATED"
                              /\ state' = [state EXCEPT ![task] = "READY"]
      BY <1>1 DEF task_create
    <2> QED
      BY <1>0, <1>1 DEF RunningIsCurrent, CurrentNotReused, task_create
  <1>2. CASE task_yield
    BY <1>0, <1>2, ScheduleCurrent DEF task_yield, RunningIsCurrent, CurrentNotReused
  <1>3. ASSUME NEW ticks \in SleepArgs, task_sleep(ticks) PROVE CurrentInv'
    <2> DEFINE st == [state EXCEPT ![current_task] = "SLEEPING"]
    <2>1. /\ st \in [Tasks -> TaskState]
          /\ \A t \in Tasks : st[t] = "RUNNING" => t = current_task
          /\ current_task # NULL => st[current_task] # "TERMINATED"
      BY <1>0 DEF TaskState, RunningIsCurrent
    <2>2. schedule(st, time_remaining, current_task)
      BY <1>3 DEF task_sleep
    <2> HIDE DEF st
    <2> QED BY <1>0, <2>1, <2>2, ScheduleCurrent
  <1>4. CASE task_exit
    <2> DEFINE st == [state EXCEPT ![current_task] = "TERMINATED"]
    <2>1. /\ st \in [Tasks -> TaskState]
          /\ \A t \in Tasks : st[t] = "RUNNING" => t = NULL
      BY <1>0, <1>4 DEF TaskState, RunningIsCurrent, task_exit
    <2>2. schedule(st, time_remaining, NULL)
      BY <1>4 DEF task_exit
    <2> HIDE DEF st
    <2> QED BY <1>0, <2>1, <2>2, ScheduleCurrent
  <1>5. CASE TickCount
    BY <1>5 DEF TickCount, RunningIsCurrent, CurrentNotReused
  <1>6. CASE TickWake
    BY <1>0, <1>6 DEF TickWake, RunningIsCurrent, CurrentNotReused
  <1>7. CASE TickCharge
    <2> DEFINE rem == [time_remaining EXCEPT ![current_task] = 0]
    <2>1. ASSUME schedule(state, rem, current_task) PROVE CurrentInv'
      <3> HIDE DEF rem
      <3> QED BY <1>0, <2>1, ScheduleCurrent DEF RunningIsCurrent, CurrentNotReused
    <2>2. ASSUME UNCHANGED <<state, current_task>> PROVE CurrentInv'
      BY <2>2 DEF RunningIsCurrent, CurrentNotReused
    <2> QED BY <1>7, <2>1, <2>2 DEF TickCharge
  <1>8. CASE UNCHANGED vars
    BY <1>8 DEF vars, RunningIsCurrent, CurrentNotReused
  <1> QED
    BY <1>1, <1>2, <1>3, <1>4, <1>5, <1>6, <1>7, <1>8 DEF Next, scheduler_tick

LEMMA EndsStep == TypeOK /\ HeadTailAgree /\ [Next]_vars => HeadTailAgree'
  <1> SUFFICES ASSUME TypeOK, HeadTailAgree, [Next]_vars PROVE HeadTailAgree'
    OBVIOUS
  <1>0. /\ queue \in QueueType /\ EndsAgree(queue)
        /\ current_task \in Tasks \cup {NULL} /\ NULL \in Tasks \cup {NULL}
    BY DEF TypeOK, HeadTailAgree, EndsAgree
  <1>1. ASSUME NEW task \in Tasks, queue' = task_queue_add(queue, task) PROVE HeadTailAgree'
    BY <1>0, <1>1, QueueEnds DEF HeadTailAgree, EndsAgree
  <1>2. ASSUME NEW e \in EntryPoints, task_create(e) PROVE HeadTailAgree'
    BY <1>1, <1>2 DEF task_create
  <1>3. CASE task_yield
    BY <1>0, <1>3, ScheduleEnds DEF task_yield
  <1>4. ASSUME NEW ticks \in SleepArgs, task_sleep(ticks) PROVE HeadTailAgree'
    BY <1>0, <1>4, ScheduleEnds DEF task_sleep
  <1>5. CASE task_exit
    BY <1>0, <1>5, ScheduleEnds DEF task_exit
  <1>6. ASSUME UNCHANGED queue PROVE HeadTailAgree'
    BY <1>6 DEF HeadTailAgree
  <1>7. CASE TickWake
    BY <1>1, <1>6, <1>7 DEF TickWake
  <1>8. CASE TickCharge
    BY <1>0, <1>6, <1>8, ScheduleEnds DEF TickCharge
  <1> QED
    BY <1>2, <1>3, <1>4, <1>5, <1>6, <1>7, <1>8 DEF Next, scheduler_tick, TickCount, vars

LEMMA ApiStep == TypeOK /\ ApiInv /\ [Next]_vars => ApiInv'
  BY CurrentStep, EndsStep DEF ApiInv

LEMMA ApiStart == Init => ApiInv
  BY DEF Init, ApiInv, CurrentInv, RunningIsCurrent, CurrentNotReused, HeadTailAgree

\* No sequence of calls and ticks makes two tasks RUNNING, leaves current_task
\* on a slot task_create may take or lets the queue ends disagree.
THEOREM ApiSafe ==
    Spec => [](RunningIsCurrent /\ CurrentNotReused /\ HeadTailAgree)
  <1>1. ApiInv => RunningIsCurrent /\ CurrentNotReused /\ HeadTailAgree
    BY DEF ApiInv, CurrentInv
  <1> QED
    BY <1>1, ApiStart, ApiStep, TypeCorrect, PTL DEF Spec

=============================================================================
