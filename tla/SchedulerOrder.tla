--------------------------- MODULE SchedulerOrder ---------------------------
(***************************************************************************)
(* Scheduler under IdleSpec with a history variable, order: the ready      *)
(* tasks in the order in which they joined the queue.  It never influences *)
(* a step.  QueueInOrder says that the linked list in memory is order, and *)
(* through it the scheduler is shown to implement RoundRobin.              *)
(***************************************************************************)
EXTENDS Scheduler, Sequences

VARIABLE order

ovars == <<vars, order>>

OrderInit == Init /\ order = <<>>

\* What schedule() does to the order of the ready tasks.
Rescheduled(saves) ==
    IF order = <<>> THEN order
    ELSE IF saves THEN Append(Tail(order), current_task)
    ELSE Tail(order)

CurrentSaved == current_task # NULL /\ state[current_task] = "RUNNING"

CreateStep ==
    \E entry_point \in EntryPoints :
        /\ entry_point = "task_idle" \/ IdleCreated
        /\ task_create(entry_point)
        /\ order' = Append(order, queue'.tail)

YieldStep == task_yield /\ order' = Rescheduled(CurrentSaved)

SleepStep ==
    /\ WorkerRuns
    /\ \E ticks \in SleepArgs : task_sleep(ticks)
    /\ order' = Rescheduled(FALSE)

ExitStep == WorkerRuns /\ task_exit /\ order' = Rescheduled(FALSE)

CountStep == TickCount /\ UNCHANGED order

WakeStep ==
    /\ TickWake
    /\ order' = IF Due(tick_i) THEN Append(order, tick_i) ELSE order

ChargeStep ==
    /\ TickCharge
    /\ order' = IF Charged /\ AfterCharge = 0
                THEN Rescheduled(CurrentSaved) ELSE order

OrderNext ==
    \/ CreateStep \/ YieldStep \/ SleepStep \/ ExitStep
    \/ CountStep \/ WakeStep \/ ChargeStep

OrderSpec == OrderInit /\ [][OrderNext]_ovars

\* The timer keeps interrupting: IRQ0 is periodic and its handler returns.
OrderFairSpec == OrderSpec /\ WF_ovars(CountStep \/ WakeStep \/ ChargeStep)

----------------------------------------------------------------------------
OrderType == order \in Seq(Tasks)

\* head, tail and next of the queue q spell out the sequence s.
Spells(q, s) ==
    /\ s = <<>> => q.head = NULL /\ q.tail = NULL
    /\ s # <<>> => /\ q.head = s[1]
                   /\ q.tail = s[Len(s)]
                   /\ q.next[q.tail] = NULL
    /\ \A i \in 1 .. Len(s) - 1 : q.next[s[i]] = s[i + 1]

\* s lists the tasks that are READY in the task states st, each of them once.
ListsReady(s, st) ==
    /\ \A i, j \in 1 .. Len(s) : s[i] = s[j] => i = j
    /\ \A t \in Tasks :
          st[t] = "READY" <=> \E i \in 1 .. Len(s) : s[i] = t

\* The ready queue in memory is a duplicate-free list of the READY tasks in
\* the order in which they joined it, at every step of every handler.
QueueInOrder == OrderType /\ Spells(queue, order) /\ ListsReady(order, state)

\* As soon as there is any task, an idle task is READY or RUNNING: it is what
\* keeps the ready queue from being empty under a task that sleeps or exits.
IdleRunnable ==
    (\E t \in Tasks : state[t] # "TERMINATED") =>
        \E t \in Tasks : eip[t] = "task_idle" /\ state[t] \in {"READY", "RUNNING"}

\* The scheduler with its linked list implements the round-robin promise.
RR == INSTANCE RoundRobin WITH
          Task <- Tasks, None <- NULL,
          ready <- order, running <- current_task,
          asleep <- {t \in Tasks : state[t] = "SLEEPING"}

\* Every step of the linked-list scheduler is a step of RoundRobin or changes
\* nothing RoundRobin sees.
ImplementsRoundRobin == RR!RRSpec
=============================================================================
