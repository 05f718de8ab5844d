------------------------------- MODULE RunLoop -------------------------------
(***************************************************************************)
(* The synchronizer and the run loop (runloop_scheduler.hpp).  A loop      *)
(* belongs to the context that runs it: run() takes the first task or      *)
(* waits for one, until finish() was called and there is none left.        *)
(* push_back() and finish() come from any context.                         *)
(*                                                                         *)
(* The synchronizer either has a condition variable, and wait() sleeps     *)
(* until it is notified, or it tests again and again.  In both, notify()   *)
(* and the test of wait() exclude each other.  pop_front() takes the task  *)
(* in a critical section of its own: without a condition variable it is    *)
(* that of notify(), and the list is in one hand; with one, notify() holds *)
(* the synchronizer's mutex instead, and a push_back() may come between    *)
(* what pop_front() reads of the list and what it writes.                  *)
(* The actions leave it to their user what an executed task does.          *)
(***************************************************************************)
EXTENDS Sequences, Naturals

CONSTANTS
    Loops,         \* the run loops
    Tasks,         \* the operations to execute
    NoTask         \* no task

VARIABLES
    cv,            \* HAS_CONDITION_VARIABLE
    tasks,         \* per loop: the list of operation states
    done,          \* per loop: the synchronizer's flag
    runner,        \* per loop: where run() stands
    task           \* per loop: the task that run() executes

loopVars == <<cv, tasks, done, runner, task>>

\* "waiting": in wait(), about to test.  "asleep": in cv.wait().
\* "popping": wait() has returned.  "unlinking", "emptying": pop_front() has seen
\* that there is, or is not, a second task.  "executing": a task.
RunnerPhases ==
    {"idle", "waiting", "asleep", "popping", "unlinking", "emptying", "executing", "ended"}

LoopTypeOK ==
    /\ cv \in BOOLEAN
    /\ \A l \in Loops : tasks[l] \in Seq(Tasks)
    /\ done \in [Loops -> BOOLEAN]
    /\ runner \in [Loops -> RunnerPhases]
    /\ task \in [Loops -> Tasks \cup {NoTask}]
    /\ \A l \in Loops : task[l] # NoTask <=> runner[l] = "executing"

Fresh ==
    [tasks |-> [l \in Loops |-> <<>>], done |-> [l \in Loops |-> FALSE],
     runner |-> [l \in Loops |-> "idle"], task |-> [l \in Loops |-> NoTask]]

LoopInit ==
    /\ cv \in BOOLEAN
    /\ tasks = Fresh.tasks
    /\ done = Fresh.done
    /\ runner = Fresh.runner
    /\ task = Fresh.task

\* cv.notify_one(): the thread in cv.wait() tests again.
NotifyOne(l) ==
    runner' = IF runner[l] = "asleep" THEN [runner EXCEPT ![l] = "waiting"] ELSE runner

push_back(l, t) ==
    /\ tasks' = [tasks EXCEPT ![l] = Append(@, t)]
    /\ NotifyOne(l)
    /\ UNCHANGED <<cv, done, task>>

\* Faulty: whoever sleeps is not told.
FinishSilently(l) ==
    /\ done' = [done EXCEPT ![l] = TRUE]
    /\ UNCHANGED <<cv, tasks, runner, task>>

finish(l) ==
    /\ done' = [done EXCEPT ![l] = TRUE]
    /\ NotifyOne(l)
    /\ UNCHANGED <<cv, tasks, task>>

run(l) ==
    /\ runner[l] = "idle"
    /\ runner' = [runner EXCEPT ![l] = "waiting"]
    /\ UNCHANGED <<cv, tasks, done, task>>

\* wait(): the test, and going to sleep under the same lock.
Wait(l) ==
    /\ runner[l] = "waiting"
    /\ tasks[l] # <<>> \/ done[l] \/ cv
    /\ runner' = [runner EXCEPT ![l] =
                    IF tasks[l] # <<>> \/ done[l] THEN "popping" ELSE "asleep"]
    /\ UNCHANGED <<cv, tasks, done, task>>

\* pop_front(): there is nothing to pop, and run() ends.
PopNothing(l) ==
    /\ runner[l] = "popping"
    /\ tasks[l] = <<>>
    /\ runner' = [runner EXCEPT ![l] = "ended"]
    /\ UNCHANGED <<cv, tasks, done, task>>

\* The first task leaves the list; without a second one nothing is left of it.
Takes(l, last) ==
    /\ task' = [task EXCEPT ![l] = Head(tasks[l])]
    /\ tasks' = [tasks EXCEPT ![l] = IF last THEN <<>> ELSE Tail(@)]
    /\ runner' = [runner EXCEPT ![l] = "executing"]
    /\ UNCHANGED <<cv, done>>

\* pop_front() in the critical section of push_back().
PopAlone(l) ==
    /\ ~cv
    /\ runner[l] = "popping"
    /\ tasks[l] # <<>>
    /\ Takes(l, Len(tasks[l]) = 1)

\* pop_front() under another lock: it looks for a second task,
PopReads(l) ==
    /\ cv
    /\ runner[l] = "popping"
    /\ tasks[l] # <<>>
    /\ runner' = [runner EXCEPT ![l] = IF Len(tasks[l]) = 1 THEN "emptying" ELSE "unlinking"]
    /\ UNCHANGED <<cv, tasks, done, task>>

\* and writes the list that it has seen.
PopWrites(l) ==
    /\ runner[l] \in {"unlinking", "emptying"}
    /\ Takes(l, runner[l] = "emptying")

pop_front(l) == PopNothing(l) \/ PopAlone(l) \/ PopReads(l) \/ PopWrites(l)

\* execute() has returned; what it did is conjoined.  A task that notifies
\* its own loop finds nobody asleep.
Executed(l) ==
    /\ runner' = [runner EXCEPT ![l] = "waiting"]
    /\ task' = [task EXCEPT ![l] = NoTask]
    /\ UNCHANGED <<cv, tasks>>
=============================================================================
