---------------------------- MODULE TaskManager ----------------------------
(***************************************************************************)
(* async::priority_task_manager (schedulers/task_manager.hpp) with both    *)
(* requeue policies, driven by its HAL: one interrupt per priority, which  *)
(* schedule(p) makes pending and whose handler calls service_tasks<p>().   *)
(*                                                                         *)
(* Every critical section of the code is one action; what the code does    *)
(* outside of one (deferred's pop of its local queue, the call of run(),   *)
(* the decrement of task_count) is an action of its own.  A running task   *)
(* and every other context enqueue by the same action.                     *)
(***************************************************************************)
EXTENDS Integers, FiniteSets, IntrusiveList

CONSTANTS
    Tasks,        \* task_t objects
    Priorities,   \* each with its queue, its interrupt and its handler
    Deferred,     \* the priorities served with requeue_policy::deferred;
                  \* the others are served with requeue_policy::immediate
    NoTask        \* the null pointer pop() returns

ASSUME DeferredAssumption == Deferred \subseteq Priorities
ASSUME NoTaskAssumption == NoTask \notin Tasks
ASSUME FiniteAssumption == IsFiniteSet(Tasks) /\ IsFiniteSet(Priorities)

VARIABLES
    queue,        \* task_queues
    pending,      \* task_t::pending
    taskCount,    \* task_count
    irq,          \* the interrupts that S::schedule made pending
    pc,           \* per handler: where service_tasks stands
    local,        \* per handler: deferred's q; <<>> under immediate
    cur,          \* per handler: the task it popped
    owed          \* the tasks asked to run since they last began to (history)

vars == <<queue, pending, taskCount, irq, pc, local, cur, owed>>

\* "entered": before get_queue.  "fetching": before pop.  "popped": deferred
\* popped a task whose flag is still set.  "taken": the flag is cleared, run()
\* is not called yet.  "running": run() is executing.
Phases == {"idle", "entered", "fetching", "popped", "taken", "running"}

TypeOK ==
    /\ queue \in [Priorities -> Seq(Tasks)]
    /\ pending \in [Tasks -> BOOLEAN]
    /\ taskCount \in Nat
    /\ irq \in [Priorities -> BOOLEAN]
    /\ pc \in [Priorities -> Phases]
    /\ local \in [Priorities -> Seq(Tasks)]
    /\ cur \in [Priorities -> Tasks \cup {NoTask}]
    /\ owed \subseteq Tasks

Init ==
    /\ queue = [p \in Priorities |-> <<>>]
    /\ pending = [t \in Tasks |-> FALSE]
    /\ taskCount = 0
    /\ irq = [p \in Priorities |-> FALSE]
    /\ pc = [p \in Priorities |-> "idle"]
    /\ local = [p \in Priorities |-> <<>>]
    /\ cur = [p \in Priorities |-> NoTask]
    /\ owed = {}

-----------------------------------------------------------------------------

\* Faulty: the interrupt is not made pending; the task is put in front.
EnqueueSilently(t, p) ==
    /\ ~pending[t]
    /\ pending' = [pending EXCEPT ![t] = TRUE]
    /\ taskCount' = taskCount + 1
    /\ queue' = [queue EXCEPT ![p] = Append(@, t)]
    /\ owed' = owed \cup {t}
    /\ UNCHANGED <<irq, pc, local, cur>>

EnqueueInFront(t, p) ==
    /\ ~pending[t]
    /\ pending' = [pending EXCEPT ![t] = TRUE]
    /\ taskCount' = taskCount + 1
    /\ queue' = [queue EXCEPT ![p] = <<t>> \o @]
    /\ irq' = [irq EXCEPT ![p] = TRUE]
    /\ owed' = owed \cup {t}
    /\ UNCHANGED <<pc, local, cur>>

\* enqueue_task of a task that is not pending: returns true.
Enqueue(t, p) ==
    /\ ~pending[t]
    /\ pending' = [pending EXCEPT ![t] = TRUE]
    /\ taskCount' = taskCount + 1
    /\ queue' = [queue EXCEPT ![p] = Append(@, t)]
    /\ irq' = [irq EXCEPT ![p] = TRUE]
    /\ owed' = owed \cup {t}
    /\ UNCHANGED <<pc, local, cur>>

\* enqueue_task of a task that is pending already: returns false, and the
\* caller relies on the run to come.
EnqueueAgain(t) ==
    /\ pending[t]
    /\ owed' = owed \cup {t}
    /\ UNCHANGED <<queue, pending, taskCount, irq, pc, local, cur>>

\* The interrupt of priority p is taken: service_tasks<p> is called.
Interrupt(p) ==
    /\ pc[p] = "idle"
    /\ irq[p]
    /\ irq' = [irq EXCEPT ![p] = FALSE]
    /\ pc' = [pc EXCEPT ![p] = "entered"]
    /\ UNCHANGED <<queue, pending, taskCount, local, cur, owed>>

\* Faulty: deferred copies the queue instead of exchanging it.
GetQueueCopies(p) ==
    /\ pc[p] = "entered"
    /\ pc' = [pc EXCEPT ![p] = "fetching"]
    /\ local' = IF p \in Deferred THEN [local EXCEPT ![p] = queue[p]] ELSE local
    /\ UNCHANGED <<queue, pending, taskCount, irq, cur, owed>>

\* get_queue: deferred takes the tasks away, immediate refers to the queue.
GetQueue(p) ==
    /\ pc[p] = "entered"
    /\ pc' = [pc EXCEPT ![p] = "fetching"]
    /\ IF p \in Deferred
       THEN /\ local' = [local EXCEPT ![p] = queue[p]]
            /\ queue' = [queue EXCEPT ![p] = <<>>]
       ELSE UNCHANGED <<local, queue>>
    /\ UNCHANGED <<pending, taskCount, irq, cur, owed>>

\* immediate::pop takes a task and clears its flag in one critical section.
PopImmediate(p) ==
    /\ pc[p] = "fetching"
    /\ p \notin Deferred
    /\ queue[p] # <<>>
    /\ queue' = [queue EXCEPT ![p] = Tail(@)]
    /\ pending' = [pending EXCEPT ![Head(queue[p])] = FALSE]
    /\ cur' = [cur EXCEPT ![p] = Head(queue[p])]
    /\ pc' = [pc EXCEPT ![p] = "taken"]
    /\ UNCHANGED <<taskCount, irq, local, owed>>

\* deferred::pop takes a task from the local queue outside critical sections...
PopDeferred(p) ==
    /\ pc[p] = "fetching"
    /\ p \in Deferred
    /\ local[p] # <<>>
    /\ local' = [local EXCEPT ![p] = Tail(@)]
    /\ cur' = [cur EXCEPT ![p] = Head(local[p])]
    /\ pc' = [pc EXCEPT ![p] = "popped"]
    /\ UNCHANGED <<queue, pending, taskCount, irq, owed>>

\* ... and clears its flag in one.
ClearPending(p) ==
    /\ pc[p] = "popped"
    /\ pending' = [pending EXCEPT ![cur[p]] = FALSE]
    /\ pc' = [pc EXCEPT ![p] = "taken"]
    /\ UNCHANGED <<queue, taskCount, irq, local, cur, owed>>

\* task->run() begins.
Run(p) ==
    /\ pc[p] = "taken"
    /\ pc' = [pc EXCEPT ![p] = "running"]
    /\ owed' = owed \ {cur[p]}
    /\ UNCHANGED <<queue, pending, taskCount, irq, local, cur>>

\* Faulty: the flag is cleared after run() instead of before; only one task is
\* served.
FinishClearsPending(p) ==
    /\ pc[p] = "running"
    /\ taskCount' = taskCount - 1
    /\ pending' = [pending EXCEPT ![cur[p]] = FALSE]
    /\ cur' = [cur EXCEPT ![p] = NoTask]
    /\ pc' = [pc EXCEPT ![p] = "fetching"]
    /\ UNCHANGED <<queue, irq, local, owed>>

FinishLeaves(p) ==
    /\ pc[p] = "running"
    /\ taskCount' = taskCount - 1
    /\ cur' = [cur EXCEPT ![p] = NoTask]
    /\ pc' = [pc EXCEPT ![p] = "idle"]
    /\ UNCHANGED <<queue, pending, irq, local, owed>>

\* run() has returned; --task_count.
Finish(p) ==
    /\ pc[p] = "running"
    /\ taskCount' = taskCount - 1
    /\ cur' = [cur EXCEPT ![p] = NoTask]
    /\ pc' = [pc EXCEPT ![p] = "fetching"]
    /\ UNCHANGED <<queue, pending, irq, local, owed>>

\* pop finds nothing: service_tasks returns.
Leave(p) ==
    /\ pc[p] = "fetching"
    /\ (IF p \in Deferred THEN local[p] ELSE queue[p]) = <<>>
    /\ pc' = [pc EXCEPT ![p] = "idle"]
    /\ UNCHANGED <<queue, pending, taskCount, irq, local, cur, owed>>

Next ==
    \/ \E t \in Tasks, p \in Priorities : Enqueue(t, p)
    \/ \E t \in Tasks : EnqueueAgain(t)
    \/ \E p \in Priorities :
        \/ Interrupt(p) \/ GetQueue(p) \/ PopImmediate(p) \/ PopDeferred(p)
        \/ ClearPending(p) \/ Run(p) \/ Finish(p) \/ Leave(p)

Spec == Init /\ [][Next]_vars

\* A pending interrupt is taken, and each handler gets to run: tasks return.
Fairness ==
    \A p \in Priorities :
        /\ WF_vars(Interrupt(p))
        /\ WF_vars(GetQueue(p) \/ PopImmediate(p) \/ PopDeferred(p)
                   \/ ClearPending(p) \/ Run(p) \/ Finish(p) \/ Leave(p))

FairSpec == Spec /\ Fairness

-----------------------------------------------------------------------------
(* Properties. *)

\* What priority p still has to run, in order.
Line(p) == local[p] \o queue[p]

\* A task is pending exactly when it waits in one place: linked once, in one
\* queue, or popped by one deferred handler.  Its one link field serves all
\* the queues.
InOnePlace ==
    /\ \A p \in Priorities : Linear(Line(p))
    /\ \A p, q \in Priorities : p # q => Nodes(Line(p)) \cap Nodes(Line(q)) = {}
    /\ \A p \in Priorities : pc[p] = "popped" =>
        \A q \in Priorities : cur[p] \notin Nodes(Line(q))
    /\ \A p, q \in Priorities :
        pc[p] = "popped" /\ pc[q] = "popped" /\ cur[p] = cur[q] => p = q
    /\ \A t \in Tasks : pending[t] <=>
        \E p \in Priorities :
            t \in Nodes(Line(p)) \/ (pc[p] = "popped" /\ cur[p] = t)

\* The tasks that wait, and the handlers whose task no longer waits but has
\* not returned.
Waiting == {t \in Tasks : pending[t]}
Busy == {p \in Priorities : pc[p] \in {"taken", "running"}}

\* task_count, which is_idle() reads, counts both: the manager is never idle
\* with work queued, taken or running, and becomes idle again afterwards.
CountIsWork == taskCount = Cardinality(Waiting) + Cardinality(Busy)

\* Whoever enqueues, and whichever handler interrupts which, flags, queues and
\* counter agree.
Consistent == TypeOK /\ InOnePlace /\ CountIsWork

\* Every request to run, accepted or coalesced with one before, is followed
\* by a run that begins after it.
NoRequestForgotten ==
    \A t \in owed :
        pending[t] \/ \E p \in Priorities : pc[p] = "taken" /\ cur[p] = t

\* A queued task has an interrupt coming or a handler that will still look:
\* none is left behind in the queue when service_tasks returns.
NoLostInterrupt ==
    \A p \in Priorities : queue[p] # <<>> =>
        irq[p] \/ pc[p] = "entered" \/ (p \notin Deferred /\ pc[p] # "idle")

\* First in, first out, within a priority and whatever the policy: a line
\* loses tasks at its head only and gains them at its end only.
FirstInFirstOut ==
    [][\A p \in Priorities :
        \/ Line(p)' = Line(p)
        \/ Line(p) # <<>> /\ Line(p)' = Tail(Line(p))
        \/ \E t \in Tasks : Line(p)' = Append(Line(p), t)]_vars

\* A task that was asked to run begins a run.
EventuallyRun == \A t \in Tasks : t \in owed ~> t \notin owed
=============================================================================
