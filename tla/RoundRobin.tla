------------------------------ MODULE RoundRobin ------------------------------
(***************************************************************************)
(* What the scheduler promises its tasks: a first-in first-out ready list, *)
(* one running task, and sleepers that stay off the list until they are    *)
(* woken.  No task is lost, none is listed twice, none is overtaken.       *)
(***************************************************************************)
EXTENDS Sequences, Integers

CONSTANTS
    Task,       \* the task slots
    None        \* no task

VARIABLES
    ready,      \* the ready tasks, in the order in which they will run
    running,    \* the running task, or None
    asleep      \* the sleeping tasks

rvars == <<ready, running, asleep>>

InReady(t) == \E i \in 1 .. Len(ready) : ready[i] = t
Unused(t) == ~InReady(t) /\ t # running /\ t \notin asleep

RRInit == ready = <<>> /\ running = None /\ asleep = {}

Create(t) ==
    /\ Unused(t)
    /\ ready' = Append(ready, t)
    /\ UNCHANGED <<running, asleep>>

\* The first ready task takes over; the one it preempts goes to the end.
Preempt ==
    /\ ready # <<>>
    /\ running' = Head(ready)
    /\ ready' = IF running = None THEN Tail(ready)
                ELSE Append(Tail(ready), running)
    /\ UNCHANGED asleep

\* The running task gives up the processor to the first ready task.
LeaveTo(sleepers) ==
    /\ running # None /\ ready # <<>>
    /\ running' = Head(ready)
    /\ ready' = Tail(ready)
    /\ asleep' = sleepers

Sleep == LeaveTo(asleep \cup {running})
Exit == LeaveTo(asleep)

Wake(t) ==
    /\ t \in asleep
    /\ asleep' = asleep \ {t}
    /\ ready' = Append(ready, t)
    /\ UNCHANGED running

RRNext ==
    \/ \E t \in Task : Create(t) \/ Wake(t)
    \/ Preempt \/ Sleep \/ Exit

RRSpec == RRInit /\ [][RRNext]_rvars
=============================================================================
