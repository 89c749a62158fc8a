------------------------- MODULE SchedulerOrderProofs -------------------------
(***************************************************************************)
(* The linked ready queue is the first-in first-out list of the READY      *)
(* tasks, and the scheduler implements RoundRobin, for every number of     *)
(* slots and every width of the counters.  Both hold under IdleSpec's      *)
(* discipline: the idle task is created first and never sleeps or exits.   *)
(***************************************************************************)
EXTENDS SchedulerOrder, SchedulerProofs

----------------------------------------------------------------------------
\* The queue operations as operations on sequences.

\* task_queue_add of a task that is not queued appends it.
LEMMA AddAppends ==
    ASSUME NEW q \in QueueType, NEW s \in Seq(Tasks), NEW t \in Tasks,
           Spells(q, s),
           \A i, j \in 1 .. Len(s) : s[i] = s[j] => i = j,
           \A i \in 1 .. Len(s) : s[i] # t
    PROVE  Spells(task_queue_add(q, t), Append(s, t))
  <1> DEFINE r == task_queue_add(q, t)
             u == Append(s, t)
  <1> SUFFICES Spells(r, u)
    OBVIOUS
  <1>1. /\ u \in Seq(Tasks) /\ Len(u) = Len(s) + 1 /\ u # <<>>
        /\ u[Len(u)] = t
        /\ \A i \in 1 .. Len(s) : u[i] = s[i] /\ s[i] \in Tasks
        /\ Len(s) \in Nat /\ t # NULL
    BY NullNotTask
  <1>2. CASE s = <<>>
    <2>1. Len(u) = 1 /\ u[1] = t
      BY <1>1, <1>2
    <2>2. r = [head |-> t, tail |-> t, next |-> [q.next EXCEPT ![t] = NULL]]
      BY <1>2 DEF task_queue_add, Spells
    <2> HIDE DEF r, u
    <2> QED
      BY <1>1, <2>1, <2>2 DEF Spells, QueueType
  <1>3. CASE s # <<>>
    <2>1. Len(s) \in 1 .. Len(s) /\ 1 \in 1 .. Len(s)
      BY <1>3
    <2>2. q.head = s[1] /\ q.tail = s[Len(s)] /\ q.tail \in Tasks /\ q.tail # NULL
      BY <1>1, <1>3, <2>1, NullNotTask DEF Spells
    <2>3. /\ r.head = s[1] /\ r.tail = t
          /\ r.next = [[q.next EXCEPT ![t] = NULL] EXCEPT ![s[Len(s)]] = t]
      BY <2>2 DEF task_queue_add
    <2>4. r.next[t] = NULL /\ r.next[s[Len(s)]] = t
      BY <2>1, <2>2, <2>3 DEF QueueType
    <2>5. ASSUME NEW i \in 1 .. Len(s) - 1 PROVE r.next[s[i]] = s[i + 1]
      <3>1. i \in 1 .. Len(s) /\ i # Len(s)
        BY <1>1
      <3>2. s[i] # s[Len(s)] /\ s[i] # t /\ s[i] \in Tasks
        BY <1>1, <2>1, <3>1
      <3>3. q.next[s[i]] = s[i + 1]
        BY <1>3 DEF Spells
      <3> QED
        BY <2>3, <3>2, <3>3 DEF QueueType
    <2> HIDE DEF r, u
    <2>6. ASSUME NEW i \in 1 .. Len(u) - 1 PROVE r.next[u[i]] = u[i + 1]
      <3>1. CASE i = Len(s)
        BY <1>1, <2>1, <2>4, <3>1
      <3>2. CASE i # Len(s)
        <4>1. i \in 1 .. Len(s) - 1 /\ i \in 1 .. Len(s) /\ i + 1 \in 1 .. Len(s)
          BY <1>1, <3>2
        <4> QED
          BY <1>1, <2>5, <4>1
      <3> QED BY <3>1, <3>2
    <2> QED
      BY <1>1, <2>1, <2>3, <2>4, <2>6 DEF Spells
  <1> QED BY <1>2, <1>3

\* task_queue_remove_next takes the first element off.
LEMMA RemoveTails ==
    ASSUME NEW q \in QueueType, NEW s \in Seq(Tasks), s # <<>>,
           Spells(q, s),
           \A i, j \in 1 .. Len(s) : s[i] = s[j] => i = j
    PROVE  Spells(task_queue_remove_next(q), Tail(s))
  <1> DEFINE r == task_queue_remove_next(q)
             u == Tail(s)
  <1> SUFFICES Spells(r, u)
    OBVIOUS
  <1>1. /\ u \in Seq(Tasks) /\ Len(u) = Len(s) - 1 /\ Len(s) \in Nat \ {0}
        /\ \A i \in 1 .. Len(u) : u[i] = s[i + 1]
    OBVIOUS
  <1>2. /\ \A i \in 1 .. Len(s) : s[i] \in Tasks /\ s[i] # NULL
        /\ q.head = s[1] /\ q.tail = s[Len(s)] /\ q.next[s[Len(s)]] = NULL
    BY NullNotTask DEF Spells
  <1>3. /\ r.head = q.next[s[1]]
        /\ r.tail = (IF q.next[s[1]] = NULL THEN NULL ELSE s[Len(s)])
        /\ r.next = [q.next EXCEPT ![s[1]] = NULL]
    BY <1>2 DEF task_queue_remove_next
  <1>4. CASE Len(s) = 1
    <2>1. u = <<>> /\ Len(u) = 0
      BY <1>1, <1>4
    <2>2. r.head = NULL /\ r.tail = NULL
      BY <1>2, <1>3, <1>4
    <2> HIDE DEF r, u
    <2> QED
      BY <2>1, <2>2 DEF Spells
  <1>5. CASE Len(s) # 1
    <2> HIDE DEF u
    <2>a. 1 \in 1 .. Len(s) - 1 /\ Len(s) - 1 \in 1 .. Len(u)
      BY <1>1, <1>5
    <2>1. 1 \in 1 .. Len(s) - 1 /\ Len(s) - 1 \in 1 .. Len(u) /\ u # <<>>
      BY <1>1, <2>a
    <2>2. q.next[s[1]] = s[2] /\ 2 \in 1 .. Len(s) /\ Len(s) \in 1 .. Len(s)
      BY <1>1, <2>1 DEF Spells
    <2>3. r.head = u[1] /\ r.tail = s[Len(s)] /\ u[Len(u)] = s[Len(s)]
      BY <1>1, <1>2, <1>3, <2>1, <2>2
    <2>4. ASSUME NEW i \in 2 .. Len(s) PROVE r.next[s[i]] = q.next[s[i]]
      <3>1. i \in 1 .. Len(s) /\ 1 \in 1 .. Len(s) /\ i # 1
        BY <1>1
      <3>2. s[i] # s[1] /\ s[i] \in Tasks
        BY <1>2, <3>1
      <3> QED
        BY <1>3, <3>2 DEF QueueType
    <2> HIDE DEF r
    <2>5. r.next[r.tail] = NULL
      BY <1>1, <1>2, <1>5, <2>3, <2>4
    <2>6. ASSUME NEW i \in 1 .. Len(u) - 1 PROVE r.next[u[i]] = u[i + 1]
      <3>1. i + 1 \in 2 .. Len(s) /\ i + 1 \in 1 .. Len(s) - 1
            /\ i \in 1 .. Len(u) /\ i + 1 \in 1 .. Len(u)
        BY <1>1
      <3>2. q.next[s[i + 1]] = s[(i + 1) + 1]
        BY <3>1 DEF Spells
      <3> QED
        BY <1>1, <2>4, <3>1, <3>2
    <2> QED
      BY <2>1, <2>3, <2>5, <2>6 DEF Spells
  <1> QED BY <1>4, <1>5

\* Appending the task that becomes READY.
LEMMA ListsAppended ==
    ASSUME NEW s \in Seq(Tasks), NEW st, NEW st2, NEW t \in Tasks,
           ListsReady(s, st), st[t] # "READY", st2[t] = "READY",
           \A x \in Tasks \ {t} : st2[x] = "READY" <=> st[x] = "READY"
    PROVE  /\ ListsReady(Append(s, t), st2)
           /\ \A i \in 1 .. Len(s) : s[i] # t
  <1> DEFINE u == Append(s, t)
  <1>1. /\ Len(u) = Len(s) + 1 /\ u[Len(u)] = t /\ Len(s) \in Nat
        /\ \A i \in 1 .. Len(s) : u[i] = s[i] /\ s[i] \in Tasks
    OBVIOUS
  <1>2. \A i \in 1 .. Len(s) : s[i] # t
    BY <1>1 DEF ListsReady
  <1> HIDE DEF u
  <1>3. \A i \in 1 .. Len(u) : i \in 1 .. Len(s) \/ i = Len(u)
    BY <1>1
  <1>4. \A i, j \in 1 .. Len(u) : u[i] = u[j] => i = j
    BY <1>1, <1>2, <1>3 DEF ListsReady
  <1>5. ASSUME NEW x \in Tasks
        PROVE  st2[x] = "READY" <=> \E i \in 1 .. Len(u) : u[i] = x
    <2>1. CASE x = t
      BY <1>1, <2>1
    <2>2. CASE x # t
      <3>1. st2[x] = "READY" <=> \E i \in 1 .. Len(s) : s[i] = x
        BY <2>2 DEF ListsReady
      <3>2. (\E i \in 1 .. Len(s) : s[i] = x) <=> \E i \in 1 .. Len(u) : u[i] = x
        BY <1>1, <1>3, <2>2
      <3> QED BY <3>1, <3>2
    <2> QED BY <2>1, <2>2
  <1>6. ListsReady(u, st2)
    BY <1>4, <1>5 DEF ListsReady
  <1> QED BY <1>2, <1>6 DEF u

\* Taking off the task that stops being READY.
LEMMA ListsTailed ==
    ASSUME NEW s \in Seq(Tasks), NEW st, NEW st2, s # <<>>,
           ListsReady(s, st), st2[s[1]] # "READY",
           \A x \in Tasks \ {s[1]} : st2[x] = "READY" <=> st[x] = "READY"
    PROVE  ListsReady(Tail(s), st2)
  <1> DEFINE u == Tail(s)
  <1>1. /\ Len(u) = Len(s) - 1 /\ Len(s) \in Nat \ {0}
        /\ \A i \in 1 .. Len(u) : u[i] = s[i + 1]
        /\ \A i \in 1 .. Len(s) : s[i] \in Tasks
    OBVIOUS
  <1> HIDE DEF u
  <1>2. \A i \in 1 .. Len(u) : i + 1 \in 1 .. Len(s) /\ i + 1 # 1
    BY <1>1
  <1>3. \A i \in 1 .. Len(s) : i = 1 \/ (i - 1 \in 1 .. Len(u) /\ (i - 1) + 1 = i)
    BY <1>1
  <1>4. \A i, j \in 1 .. Len(u) : u[i] = u[j] => i = j
    <2> TAKE i, j \in 1 .. Len(u)
    <2>1. u[i] = s[i + 1] /\ u[j] = s[j + 1] /\ (i + 1 = j + 1 => i = j)
      BY <1>1
    <2>2. i + 1 \in 1 .. Len(s) /\ j + 1 \in 1 .. Len(s)
      BY <1>2
    <2>3. s[i + 1] = s[j + 1] => i + 1 = j + 1
      BY <2>2 DEF ListsReady
    <2> QED BY <2>1, <2>3
  <1>5. ASSUME NEW x \in Tasks
        PROVE  st2[x] = "READY" <=> \E i \in 1 .. Len(u) : u[i] = x
    <2>1. CASE x = s[1]
      <3>1. 1 \in 1 .. Len(s)
        BY <1>1
      <3>2. \A i \in 1 .. Len(u) : u[i] # s[1]
        BY <1>1, <1>2, <3>1 DEF ListsReady
      <3> QED BY <2>1, <3>2
    <2>2. CASE x # s[1]
      <3>1. st2[x] = "READY" <=> \E i \in 1 .. Len(s) : s[i] = x
        BY <2>2 DEF ListsReady
      <3>2. ASSUME NEW i \in 1 .. Len(s), s[i] = x
            PROVE  \E k \in 1 .. Len(u) : u[k] = x
        BY <1>1, <1>3, <2>2, <3>2
      <3>3. ASSUME NEW k \in 1 .. Len(u), u[k] = x
            PROVE  \E i \in 1 .. Len(s) : s[i] = x
        BY <1>1, <1>2, <3>3
      <3> QED BY <3>1, <3>2, <3>3
    <2> QED BY <2>1, <2>2
  <1>6. ListsReady(u, st2)
    BY <1>4, <1>5 DEF ListsReady
  <1> QED BY <1>6 DEF u

\* schedule() takes the first ready task and appends the one it preempts.
LEMMA ScheduleOrder ==
    ASSUME TypeOK, OrderType, Spells(queue, order),
           NEW st \in [Tasks -> TaskState],
           NEW rem,
           NEW cur \in Tasks \cup {NULL},
           ListsReady(order, st),
           schedule(st, rem, cur),
           order' = IF order = <<>> THEN order
                    ELSE IF cur # NULL /\ st[cur] = "RUNNING"
                    THEN Append(Tail(order), cur) ELSE Tail(order)
    PROVE  /\ QueueInOrder'
           /\ order = <<>> => state' = st /\ current_task' = cur
           /\ order # <<>> =>
                 /\ current_task' = order[1]
                 /\ st[order[1]] = "READY" /\ order[1] \in Tasks
                 /\ state' = [t \in Tasks |->
                        IF t = order[1] THEN "RUNNING"
                        ELSE IF cur # NULL /\ st[cur] = "RUNNING" /\ t = cur
                        THEN "READY" ELSE st[t]]
  <1>1. CASE order = <<>>
    BY <1>1 DEF schedule, Spells, QueueInOrder, OrderType
  <1>2. CASE order # <<>>
    <2> DEFINE head == order[1]
               saves == cur # NULL /\ st[cur] = "RUNNING"
               removed == task_queue_remove_next(queue)
               rest == Tail(order)
               st1 == [st EXCEPT ![head] = "RUNNING"]
    <2>1. /\ queue.head = head /\ head \in Tasks /\ head # NULL
          /\ st[head] = "READY" /\ 1 \in 1 .. Len(order)
      BY <1>2, NullNotTask DEF Spells, OrderType, ListsReady
    <2>2. /\ removed \in QueueType /\ rest \in Seq(Tasks)
          /\ Spells(removed, rest)
      BY <1>2, <2>1, QueueTypes, RemoveTails
      DEF TypeOK, OrderType, ListsReady
    <2>a. /\ st1[head] # "READY"
          /\ \A x \in Tasks \ {head} : st1[x] = "READY" <=> st[x] = "READY"
      BY <2>1
    <2> HIDE DEF st1
    <2>3. ListsReady(rest, st1)
      BY <1>2, <2>1, <2>a, ListsTailed DEF OrderType
    <2> USE DEF st1
    <2>4. /\ queue' = IF saves THEN task_queue_add(removed, cur) ELSE removed
          /\ state' = [t \in Tasks |-> IF t = head THEN "RUNNING"
                                       ELSE IF saves /\ t = cur THEN "READY"
                                       ELSE st[t]]
          /\ current_task' = head
      BY <2>1 DEF schedule
    <2> HIDE DEF removed, rest, head
    <2>5. CASE saves
      <3>1. cur # head /\ cur \in Tasks
        BY <2>1, <2>5
      <3>2. /\ st1[cur] # "READY" /\ state'[cur] = "READY"
            /\ \A x \in Tasks \ {cur} : state'[x] = "READY" <=> st1[x] = "READY"
        BY <2>1, <2>4, <2>5, <3>1
      <3> HIDE DEF st1
      <3>3. /\ ListsReady(Append(rest, cur), state')
            /\ \A i \in 1 .. Len(rest) : rest[i] # cur
        BY <2>2, <2>3, <3>1, <3>2, ListsAppended
      <3>4. Spells(task_queue_add(removed, cur), Append(rest, cur))
        BY <2>2, <2>3, <3>1, <3>3, AddAppends DEF ListsReady
      <3>5. order' = Append(rest, cur) /\ Append(rest, cur) \in Seq(Tasks)
        BY <1>2, <2>2, <2>5, <3>1 DEF rest
      <3>6. QueueInOrder'
        BY <2>4, <2>5, <3>3, <3>4, <3>5 DEF QueueInOrder, OrderType
      <3> QED
        BY <1>2, <2>1, <2>4, <3>6 DEF head
    <2>6. CASE ~saves
      <3>1. /\ state' = [t \in Tasks |-> IF t = head THEN "RUNNING" ELSE st[t]]
            /\ queue' = removed
        BY <2>4, <2>6
      <3>2. state' = st1
        BY <2>1, <3>1
      <3>3. order' = rest
        BY <1>2, <2>6 DEF rest
      <3> HIDE DEF st1
      <3>4. QueueInOrder'
        BY <2>2, <2>3, <3>1, <3>2, <3>3 DEF QueueInOrder, OrderType
      <3> QED
        BY <1>2, <2>1, <2>4, <3>4 DEF head
    <2> QED BY <2>5, <2>6
  <1> QED BY <1>1, <1>2

----------------------------------------------------------------------------
\* The inductive invariant.  QueueInOrder alone is not inductive: task_sleep
\* and task_exit keep it only if they find a successor, which is what
\* IdleRunnable provides; and a wake-up keeps it only if the task it queues is
\* not the current one, which is CurrentRuns.
OrderInv == TypeOK /\ ApiInv /\ CurrentRuns /\ QueueInOrder /\ IdleRunnable

\* A step with its history is a step of the scheduler.
LEMMA OrderNextIsNext == [OrderNext]_ovars => [Next]_vars
  BY DEF OrderNext, ovars, CreateStep, YieldStep, SleepStep, ExitStep,
         CountStep, WakeStep, ChargeStep, Next, scheduler_tick

Asleep == {t \in Tasks : state[t] = "SLEEPING"}

\* The abstract step a step of the scheduler stands for.
Abstract == RR!RRNext \/ UNCHANGED <<order, current_task, Asleep>>

\* When a worker leaves the processor the queue is not empty: the idle task is
\* READY, since only the current task is RUNNING.
LEMMA IdleWaits ==
    ASSUME OrderInv, WorkerRuns
    PROVE  order # <<>> /\ state[current_task] = "RUNNING" /\ current_task \in Tasks
  <1>1. current_task \in Tasks /\ state[current_task] = "RUNNING"
    BY DEF OrderInv, WorkerRuns, CurrentRuns, TypeOK
  <1>2. PICK t \in Tasks : eip[t] = "task_idle" /\ state[t] \in {"READY", "RUNNING"}
    BY <1>1 DEF OrderInv, IdleRunnable
  <1>3. t # current_task /\ state[t] = "READY"
    BY <1>2 DEF WorkerRuns, OrderInv, ApiInv, CurrentInv, RunningIsCurrent
  <1>4. \E i \in 1 .. Len(order) : order[i] = t
    BY <1>3 DEF OrderInv, QueueInOrder, ListsReady
  <1> QED BY <1>1, <1>4

\* task_create appends the new task, which RoundRobin did not know.
LEMMA CreateOrder ==
    ASSUME OrderInv, CreateStep
    PROVE  CurrentRuns' /\ QueueInOrder' /\ IdleRunnable' /\ Abstract
  <1>1. PICK e \in EntryPoints :
          /\ e = "task_idle" \/ IdleCreated
          /\ task_create(e)
          /\ order' = Append(order, queue'.tail)
    BY DEF CreateStep
  <1>2. PICK task \in Tasks :
          /\ state[task] = "TERMINATED"
          /\ state' = [state EXCEPT ![task] = "READY"]
          /\ eip' = [eip EXCEPT ![task] = e]
          /\ queue' = task_queue_add(queue, task)
    BY <1>1 DEF task_create
  <1>3. /\ state \in [Tasks -> TaskState] /\ queue \in QueueType
        /\ eip \in [Tasks -> EntryPoints \cup {"none"}]
        /\ current_task \in Tasks \cup {NULL} /\ current_task' = current_task
        /\ order \in Seq(Tasks)
        /\ Spells(queue, order) /\ ListsReady(order, state)
    BY <1>1 DEF OrderInv, TypeOK, QueueInOrder, OrderType, task_create
  <1>4. order' = Append(order, task)
    BY <1>1, <1>2, <1>3 DEF task_queue_add
  <1>5. /\ state[task] # "READY" /\ state'[task] = "READY"
        /\ \A x \in Tasks \ {task} : state'[x] = "READY" <=> state[x] = "READY"
    BY <1>2, <1>3
  <1>6. /\ ListsReady(Append(order, task), state')
        /\ \A i \in 1 .. Len(order) : order[i] # task
    BY <1>3, <1>5, ListsAppended
  <1>7. Spells(task_queue_add(queue, task), Append(order, task))
    BY <1>3, <1>6, AddAppends DEF ListsReady
  <1>8. QueueInOrder'
    BY <1>2, <1>3, <1>4, <1>6, <1>7 DEF QueueInOrder, OrderType
  <1>9. CurrentRuns' /\ current_task # task
    BY <1>2, <1>3, NullNotTask DEF OrderInv, CurrentRuns
  <1>10. IdleRunnable'
    <2>1. CASE e = "task_idle"
      BY <1>2, <1>3, <2>1 DEF IdleRunnable
    <2>2. CASE IdleCreated
      <3>1. PICK t \in Tasks : eip[t] = "task_idle" /\ state[t] \in {"READY", "RUNNING"}
        BY <2>2 DEF OrderInv, IdleRunnable, IdleCreated
      <3>2. t # task /\ eip'[t] = eip[t] /\ state'[t] = state[t]
        BY <1>2, <1>3, <3>1
      <3> QED BY <3>1, <3>2 DEF IdleRunnable
    <2> QED BY <1>1, <2>1, <2>2
  <1>11. RR!Create(task)
    <2>1. UNCHANGED Asleep /\ task \notin Asleep
      BY <1>2, <1>3 DEF Asleep
    <2> QED
      BY <1>3, <1>4, <1>6, <1>9, <2>1
      DEF RR!Create, RR!Unused, RR!InReady, Asleep
  <1> QED
    BY <1>8, <1>9, <1>10, <1>11 DEF Abstract, RR!RRNext

\* schedule() called by a task that stays ready, or by nobody: a preemption.
LEMMA PreemptOrder ==
    ASSUME OrderInv, NEW rem, schedule(state, rem, current_task),
           UNCHANGED eip, order' = Rescheduled(CurrentSaved)
    PROVE  CurrentRuns' /\ QueueInOrder' /\ IdleRunnable' /\ Abstract
  <1>1. /\ state \in [Tasks -> TaskState]
        /\ current_task \in Tasks \cup {NULL}
        /\ order \in Seq(Tasks)
        /\ current_task # NULL => state[current_task] = "RUNNING"
    BY DEF OrderInv, TypeOK, QueueInOrder, OrderType, CurrentRuns
  <1>2. /\ QueueInOrder'
        /\ order = <<>> => state' = state /\ current_task' = current_task
        /\ order # <<>> =>
              /\ current_task' = order[1]
              /\ state[order[1]] = "READY" /\ order[1] \in Tasks
              /\ state' = [t \in Tasks |->
                     IF t = order[1] THEN "RUNNING"
                     ELSE IF current_task # NULL /\ state[current_task] = "RUNNING"
                             /\ t = current_task
                     THEN "READY" ELSE state[t]]
    BY <1>1, ScheduleOrder
    DEF OrderInv, QueueInOrder, Rescheduled, CurrentSaved
  <1>3. CASE order = <<>>
    <2>1. UNCHANGED <<state, current_task, order>>
      BY <1>2, <1>3 DEF Rescheduled
    <2> QED
      BY <1>2, <2>1 DEF OrderInv, CurrentRuns, IdleRunnable, Abstract, Asleep
  <1>4. CASE order # <<>>
    <2>1. CurrentRuns'
      BY <1>2, <1>4 DEF CurrentRuns
    <2>2. \A t \in Tasks : /\ state[t] \in {"READY", "RUNNING"}
                              => state'[t] \in {"READY", "RUNNING"}
                           /\ state[t] = "SLEEPING" <=> state'[t] = "SLEEPING"
                           /\ state[t] = "TERMINATED" <=> state'[t] = "TERMINATED"
      BY <1>1, <1>2, <1>4
    <2>3. IdleRunnable'
      BY <2>2 DEF OrderInv, IdleRunnable
    <2>4. UNCHANGED Asleep
      BY <2>2 DEF Asleep
    <2>5. RR!Preempt
      BY <1>1, <1>2, <1>4, <2>4
      DEF RR!Preempt, Rescheduled, CurrentSaved, Asleep
    <2> QED
      BY <1>2, <2>1, <2>3, <2>5 DEF Abstract, RR!RRNext
  <1> QED BY <1>3, <1>4

\* A worker that sleeps or exits leaves the processor to the first ready task;
\* gone is the state it leaves in, cur what current_task is by then.
LEMMA LeaveOrder ==
    ASSUME OrderInv, WorkerRuns,
           NEW gone \in {"SLEEPING", "TERMINATED"},
           NEW cur \in {current_task, NULL},
           NEW rem,
           schedule([state EXCEPT ![current_task] = gone], rem, cur),
           UNCHANGED eip, order' = Rescheduled(FALSE)
    PROVE  CurrentRuns' /\ QueueInOrder' /\ IdleRunnable' /\ Abstract
  <1> DEFINE st == [state EXCEPT ![current_task] = gone]
  <1>1. /\ state \in [Tasks -> TaskState] /\ order \in Seq(Tasks)
        /\ current_task \in Tasks /\ current_task # NULL /\ order # <<>>
        /\ state[current_task] = "RUNNING"
        /\ cur \in Tasks \cup {NULL}
    BY IdleWaits, NullNotTask DEF OrderInv, TypeOK, QueueInOrder, OrderType
  <1>2. /\ st \in [Tasks -> TaskState]
        /\ st[current_task] = gone /\ gone # "READY" /\ gone # "RUNNING"
        /\ \A t \in Tasks \ {current_task} : st[t] = state[t]
        /\ cur # NULL => st[cur] # "RUNNING"
    BY <1>1 DEF TaskState
  <1>3. \A t \in Tasks : st[t] = "READY" <=> state[t] = "READY"
    BY <1>1, <1>2
  <1> HIDE DEF st
  <1>4. ListsReady(order, st)
    BY <1>3 DEF OrderInv, QueueInOrder, ListsReady
  <1>5. schedule(st, rem, cur)
    BY DEF st
  <1>6. order' = Tail(order)
    BY <1>1 DEF Rescheduled
  <1>7. /\ QueueInOrder'
        /\ current_task' = order[1]
        /\ st[order[1]] = "READY" /\ order[1] \in Tasks
        /\ state' = [t \in Tasks |->
               IF t = order[1] THEN "RUNNING"
               ELSE IF cur # NULL /\ st[cur] = "RUNNING" /\ t = cur
               THEN "READY" ELSE st[t]]
    BY <1>1, <1>2, <1>4, <1>5, <1>6, ScheduleOrder
    DEF OrderInv, QueueInOrder
  <1>8. state' = [t \in Tasks |-> IF t = order[1] THEN "RUNNING" ELSE st[t]]
    BY <1>2, <1>7
  <1>9. CurrentRuns'
    BY <1>7 DEF CurrentRuns
  <1>10. IdleRunnable'
    <2>1. PICK t \in Tasks : eip[t] = "task_idle" /\ state[t] \in {"READY", "RUNNING"}
      BY <1>1 DEF OrderInv, IdleRunnable
    <2>2. t # current_task
      BY <2>1 DEF WorkerRuns
    <2>3. state'[t] \in {"READY", "RUNNING"}
      BY <1>2, <1>8, <2>1, <2>2
    <2> QED BY <2>1, <2>3 DEF IdleRunnable
  <1>11. order[1] # current_task
    BY <1>2, <1>7
  <1>12. Asleep' = IF gone = "SLEEPING" THEN Asleep \cup {current_task} ELSE Asleep
    <2>1. \A t \in Tasks : state'[t] = "SLEEPING" <=>
              state[t] = "SLEEPING" \/ (t = current_task /\ gone = "SLEEPING")
      BY <1>1, <1>2, <1>7, <1>8, <1>11
    <2> QED BY <1>1, <2>1 DEF Asleep
  <1>13. RR!Sleep \/ RR!Exit
    <2>a. Head(order) = order[1]
      BY <1>1
    <2>0. /\ order # <<>> /\ current_task # NULL
          /\ current_task' = Head(order) /\ order' = Tail(order)
      <3>1. current_task' = Head(order)
        BY <1>7, <2>a
      <3> QED BY <1>1, <1>6, <3>1
    <2>1. CASE gone = "SLEEPING"
      <3>1. Asleep' = Asleep \cup {current_task}
        BY <1>12, <2>1
      <3> QED BY <2>0, <3>1 DEF RR!Sleep, RR!LeaveTo, Asleep
    <2>2. CASE gone # "SLEEPING"
      <3>1. Asleep' = Asleep
        BY <1>12, <2>2
      <3> QED BY <2>0, <3>1 DEF RR!Exit, RR!LeaveTo, Asleep
    <2> QED BY <2>1, <2>2
  <1> QED
    BY <1>7, <1>9, <1>10, <1>13 DEF Abstract, RR!RRNext

\* scheduler_tick wakes a task that is asleep, never the current one.
LEMMA WakeOrder ==
    ASSUME OrderInv, WakeStep
    PROVE  CurrentRuns' /\ QueueInOrder' /\ IdleRunnable' /\ Abstract
  <1>1. /\ state \in [Tasks -> TaskState] /\ queue \in QueueType
        /\ order \in Seq(Tasks) /\ tick_i \in Tasks
        /\ Spells(queue, order) /\ ListsReady(order, state)
        /\ UNCHANGED <<eip, current_task>>
    BY DEF OrderInv, TypeOK, QueueInOrder, OrderType, WakeStep, TickWake
  <1>2. CASE ~Due(tick_i)
    <2>1. UNCHANGED <<state, queue, order>>
      BY <1>2 DEF WakeStep, TickWake
    <2> QED
      BY <1>1, <2>1 DEF OrderInv, CurrentRuns, QueueInOrder, OrderType,
                        IdleRunnable, Abstract, Asleep
  <1>3. CASE Due(tick_i)
    <2>1. /\ state[tick_i] = "SLEEPING"
          /\ state' = [state EXCEPT ![tick_i] = "READY"]
          /\ queue' = task_queue_add(queue, tick_i)
          /\ order' = Append(order, tick_i)
      BY <1>3 DEF Due, WakeStep, TickWake
    <2>2. /\ state[tick_i] # "READY" /\ state'[tick_i] = "READY"
          /\ \A x \in Tasks \ {tick_i} : state'[x] = "READY" <=> state[x] = "READY"
      BY <1>1, <2>1
    <2>3. /\ ListsReady(Append(order, tick_i), state')
          /\ \A i \in 1 .. Len(order) : order[i] # tick_i
      BY <1>1, <2>2, ListsAppended
    <2>4. Spells(task_queue_add(queue, tick_i), Append(order, tick_i))
      BY <1>1, <2>3, AddAppends DEF ListsReady
    <2>5. QueueInOrder'
      BY <1>1, <2>1, <2>3, <2>4 DEF QueueInOrder, OrderType
    <2>6. CurrentRuns'
      BY <1>1, <2>1 DEF OrderInv, CurrentRuns
    <2>7. IdleRunnable'
      <3>1. PICK t \in Tasks : eip[t] = "task_idle" /\ state[t] \in {"READY", "RUNNING"}
        BY <1>1, <2>1 DEF OrderInv, IdleRunnable
      <3>2. state'[t] \in {"READY", "RUNNING"} /\ eip'[t] = "task_idle"
        BY <1>1, <2>1, <3>1
      <3> QED BY <3>2 DEF IdleRunnable
    <2>8. PICK t \in Tasks : t = tick_i
      BY <1>1
    <2>9. RR!Wake(t)
      <3>1. Asleep' = Asleep \ {t} /\ t \in Asleep
        BY <1>1, <2>1, <2>8 DEF Asleep
      <3> QED BY <1>1, <2>1, <2>8, <3>1 DEF RR!Wake, Asleep
    <2>10. RR!RRNext
      BY <2>9 DEF RR!RRNext
    <2> QED
      BY <2>5, <2>6, <2>7, <2>10 DEF Abstract
  <1> QED BY <1>2, <1>3

\* Every step keeps the invariant and is a step of RoundRobin or none.
LEMMA OrderStep == OrderInv /\ [OrderNext]_ovars => OrderInv' /\ Abstract
  <1> SUFFICES ASSUME OrderInv, [OrderNext]_ovars PROVE OrderInv' /\ Abstract
    OBVIOUS
  <1> DEFINE Kept == CurrentRuns' /\ QueueInOrder' /\ IdleRunnable' /\ Abstract
  <1>0. TypeOK' /\ ApiInv'
    BY OrderNextIsNext, TypeStep, ApiStep DEF OrderInv
  <1>1. ASSUME CreateStep PROVE Kept
    BY <1>1, CreateOrder
  <1>2. ASSUME YieldStep PROVE Kept
    BY <1>2, PreemptOrder DEF YieldStep, task_yield
  <1>3. ASSUME SleepStep PROVE Kept
    <2>1. PICK ticks \in SleepArgs : task_sleep(ticks)
      BY <1>3 DEF SleepStep
    <2>2. /\ schedule([state EXCEPT ![current_task] = "SLEEPING"],
                      time_remaining, current_task)
          /\ UNCHANGED eip
      BY <2>1 DEF task_sleep
    <2> QED
      BY <1>3, <2>2, LeaveOrder DEF SleepStep
  <1>4. ASSUME ExitStep PROVE Kept
    BY <1>4, LeaveOrder DEF ExitStep, task_exit
  <1>5. ASSUME CountStep PROVE Kept
    BY <1>5 DEF CountStep, TickCount, OrderInv, CurrentRuns, QueueInOrder,
                OrderType, IdleRunnable, Abstract, Asleep
  <1>6. ASSUME WakeStep PROVE Kept
    BY <1>6, WakeOrder
  <1>7. ASSUME ChargeStep PROVE Kept
    <2>1. UNCHANGED eip
      BY <1>7 DEF ChargeStep, TickCharge
    <2>2. CASE Charged /\ AfterCharge = 0
      <3> DEFINE rem == [time_remaining EXCEPT ![current_task] = 0]
      <3>1. schedule(state, rem, current_task) /\ order' = Rescheduled(CurrentSaved)
        BY <1>7, <2>2 DEF ChargeStep, TickCharge
      <3> HIDE DEF rem
      <3> QED BY <2>1, <3>1, PreemptOrder
    <2>3. CASE ~(Charged /\ AfterCharge = 0)
      <3>1. UNCHANGED <<state, queue, current_task, order>>
        BY <1>7, <2>3 DEF ChargeStep, TickCharge
      <3> QED
        BY <2>1, <3>1 DEF OrderInv, CurrentRuns, QueueInOrder, OrderType,
                          IdleRunnable, Abstract, Asleep
    <2> QED BY <2>2, <2>3
  <1>8. ASSUME UNCHANGED ovars PROVE Kept
    BY <1>8 DEF ovars, vars, OrderInv, CurrentRuns, QueueInOrder,
                OrderType, IdleRunnable, Abstract, Asleep
  <1>9. Kept
    BY <1>1, <1>2, <1>3, <1>4, <1>5, <1>6, <1>7, <1>8 DEF OrderNext
  <1> QED BY <1>0, <1>9 DEF OrderInv

LEMMA OrderStart == OrderInit => OrderInv /\ RR!RRInit
  <1> SUFFICES ASSUME OrderInit PROVE OrderInv /\ RR!RRInit
    OBVIOUS
  <1>1. TypeOK
    BY SchedulerConstants
    DEF OrderInit, Init, TypeOK, TaskState, QueueType, Uint32
  <1>2. ApiInv
    BY ApiStart DEF OrderInit
  <1>3. QueueInOrder /\ CurrentRuns /\ IdleRunnable
    BY DEF OrderInit, Init, QueueInOrder, OrderType, Spells, ListsReady,
           CurrentRuns, IdleRunnable
  <1>4. RR!RRInit
    BY DEF OrderInit, Init, RR!RRInit
  <1> QED BY <1>1, <1>2, <1>3, <1>4 DEF OrderInv

\* With an idle task that never sleeps or exits, the linked list in memory is
\* at every step the duplicate-free list of the READY tasks in the order in
\* which they joined, and the current task is RUNNING.
THEOREM QueueCorrect == OrderSpec => [](QueueInOrder /\ CurrentRuns /\ IdleRunnable)
  <1>1. OrderInv => QueueInOrder /\ CurrentRuns /\ IdleRunnable
    BY DEF OrderInv
  <1> QED
    BY <1>1, OrderStart, OrderStep, PTL DEF OrderSpec

\* With an idle task the current task is always RUNNING: task_sleep and task_exit
\* never return to a task that is asleep or gone.
THEOREM CurrentAlwaysRuns == OrderSpec => []CurrentRuns
  BY QueueCorrect, PTL

\* The scheduler implements the round-robin promise, for every MAX_TASKS.
THEOREM Implements == OrderSpec => ImplementsRoundRobin
  <1>1. Abstract => [RR!RRNext]_(RR!rvars)
    BY DEF Abstract, RR!rvars, Asleep
  <1> QED
    BY <1>1, OrderStart, OrderStep, PTL
    DEF OrderSpec, ImplementsRoundRobin, RR!RRSpec

=============================================================================
