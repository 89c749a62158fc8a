-------------------------- MODULE SchedulerInterrupts --------------------------
(***************************************************************************)
(* The scheduler of MiniCore-OS with interrupts on.  After enableints the  *)
(* shell runs cmd_starttasks with the interrupt flag set, so a timer       *)
(* interrupt can come between any two instructions of task_create.  Here   *)
(* task_create is one action per group of stores that scheduler_tick can   *)
(* tell apart, in the order of the source, with the slot it chose and the  *)
(* tail it read as registers.  The other calls are those of Scheduler, made*)
(* by the same thread and therefore not before task_create has returned.   *)
(*                                                                         *)
(* raced is not in the code: it remembers that the timer handler changed   *)
(* the queue after task_create had read the tail and before it had stored  *)
(* the new one.                                                            *)
(***************************************************************************)
EXTENDS Scheduler

VARIABLES
    create, \* task_create in progress: the next step and its registers
    raced

intVars == <<vars, create, raced>>

NoCreate == [at |-> "none", task |-> NULL, entry_point |-> "none", tail |-> NULL]

IntInit == Init /\ create = NoCreate /\ raced = FALSE

\* The main thread executes its next step, outside the timer handler.
Step(from, to) ==
    /\ tick_i = 0 /\ create.at = from
    /\ create' = [create EXCEPT !.at = to]
    /\ UNCHANGED raced

\* task_create: choose the first TERMINATED slot, ...
FindSlot(entry_point) ==
    /\ tick_i = 0 /\ create.at = "none"
    /\ \E task \in Tasks :
        /\ state[task] = "TERMINATED"
        /\ \A i \in Tasks : i < task => state[i] # "TERMINATED"
        /\ create' = [at |-> "state", task |-> task, entry_point |-> entry_point, tail |-> NULL]
    /\ UNCHANGED <<vars, raced>>

\* ... fill it in, ...
FillSlot ==
    /\ Step("state", "next")
    /\ state' = [state EXCEPT ![create.task] = "READY"]
    /\ time_remaining' = [time_remaining EXCEPT ![create.task] = TIME_SLICE]
    /\ sleep_until' = [sleep_until EXCEPT ![create.task] = 0]
    /\ eip' = [eip EXCEPT ![create.task] = create.entry_point]
    /\ UNCHANGED <<queue, current_task, system_ticks, tick_i>>

\* ... and call task_queue_add, which is expanded in line: clear next, ...
ClearNext ==
    /\ Step("next", "load")
    /\ queue' = [queue EXCEPT !.next[create.task] = NULL]
    /\ UNCHANGED <<state, eip, time_remaining, sleep_until, current_task,
                   system_ticks, tick_i>>

\* ... read the tail into a register, ...
LoadTail ==
    /\ tick_i = 0 /\ create.at = "load"
    /\ create' = [create EXCEPT !.at = "link", !.tail = queue.tail]
    /\ UNCHANGED <<vars, raced>>

\* ... link the task in behind it or, without one, at the head, ...
Link ==
    /\ Step("link", "tail")
    /\ queue' = IF create.tail = NULL THEN [queue EXCEPT !.head = create.task]
                ELSE [queue EXCEPT !.next[create.tail] = create.task]
    /\ UNCHANGED <<state, eip, time_remaining, sleep_until, current_task,
                   system_ticks, tick_i>>

\* Mutant of StoreTail: no tail is stored for the first task of the queue.
StoreTail_not_first ==
    /\ tick_i = 0 /\ create.at = "tail"
    /\ queue' = IF create.tail = NULL THEN queue ELSE [queue EXCEPT !.tail = create.task]
    /\ create' = NoCreate
    /\ UNCHANGED <<state, eip, time_remaining, sleep_until, current_task,
                   system_ticks, tick_i, raced>>

\* ... and make it the tail.
StoreTail ==
    /\ tick_i = 0 /\ create.at = "tail"
    /\ queue' = [queue EXCEPT !.tail = create.task]
    /\ create' = NoCreate
    /\ UNCHANGED <<state, eip, time_remaining, sleep_until, current_task,
                   system_ticks, tick_i, raced>>

\* IRQ0, at any point of the main thread.
TimerInterrupt ==
    /\ scheduler_tick
    /\ raced' = (raced \/ (create.at \in {"link", "tail"} /\ queue' # queue))
    /\ UNCHANGED create

\* The other calls of the main thread.
Call ==
    /\ create.at = "none"
    /\ task_yield \/ (\E ticks \in SleepArgs : task_sleep(ticks)) \/ task_exit
    /\ UNCHANGED <<create, raced>>

IntNext ==
    \/ \E entry_point \in EntryPoints : FindSlot(entry_point)
    \/ FillSlot \/ ClearNext \/ LoadTail \/ Link \/ StoreTail
    \/ TimerInterrupt
    \/ Call

IntSpec == IntInit /\ [][IntNext]_intVars

----------------------------------------------------------------------------
\* Apart from the window between reading and storing the tail, a timer tick may
\* come anywhere in task_create: the ends of the queue agree again when it
\* returns, so the next task that is added can be found from the head.
EndsAgreeUnlessRaced == create.at = "none" /\ ~raced => HeadTailAgree
=============================================================================
