---------------------------- MODULE TimerManager ----------------------------
(***************************************************************************)
(* async::generic_timer_manager<H> (schedulers/timer_manager.hpp) driven by *)
(* its HAL: a clock, one alarm (enable/disable/set_event_time) and the      *)
(* contexts that call service_task() when the alarm is due.                *)
(*                                                                         *)
(* Every critical section of the code is one action.  run_after, run_at    *)
(* and cancel are one critical section each; when they return false they   *)
(* change nothing and are stuttering steps.  service_task is a critical    *)
(* section (ServiceTask), the call of the task's run() (the interval in    *)
(* which pc is "running") and the decrement of task_count (Finish).  A     *)
(* running task and any other context call the manager by the same         *)
(* actions.                                                                *)
(***************************************************************************)
EXTENDS Integers, FiniteSets, IntrusiveList

CONSTANTS
    Tasks,           \* task_t objects
    Servers,         \* contexts that call service_task()
    NoTask,          \* no task: service_task's null pointer
    MaxTime,         \* bound: the clock stops here, no expiration lies beyond
    Durations,       \* arguments of run_after
    MaxPast,         \* bound: how far before now() an expiration provider answers
    Preemptive,      \* can a context call the manager between the alarm's
                     \* interrupt and the critical section of service_task?
    ResetsOnEnable   \* does the HAL restart its clock on enable()?

ASSUME FiniteAssumption == IsFiniteSet(Servers)
ASSUME NoTaskAssumption == NoTask \notin Tasks
ASSUME TimeAssumption ==
    /\ MaxTime \in Nat
    /\ MaxPast \in Nat
    /\ Durations \subseteq Nat
ASSUME ModeAssumption == Preemptive \in BOOLEAN /\ ResetsOnEnable \in BOOLEAN

VARIABLES
    queue,           \* task_queue
    pending,         \* task_t::pending
    expiry,          \* task_t::expiration_time
    taskCount,       \* task_count
    now,             \* H::now()
    enabled,         \* the alarm is enabled
    event,           \* the alarm's event time
    pc,              \* per server: "idle", "entered" or "running"
    cur              \* per server: the task service_task popped

mgrVars == <<queue, pending, expiry, taskCount>>
halVars == <<now, enabled, event>>
srvVars == <<pc, cur>>
vars == <<queue, pending, expiry, taskCount, now, enabled, event, pc, cur>>

Times == 0..MaxTime

TypeOK ==
    /\ queue \in Seq(Tasks)
    /\ pending \in [Tasks -> BOOLEAN]
    /\ expiry \in [Tasks -> Times]
    /\ taskCount \in Nat
    /\ now \in Times
    /\ enabled \in BOOLEAN
    /\ event \in Times
    /\ pc \in [Servers -> {"idle", "entered", "running"}]
    /\ cur \in [Servers -> Tasks \cup {NoTask}]

Init ==
    /\ queue = <<>>
    /\ pending = [t \in Tasks |-> FALSE]
    /\ expiry = [t \in Tasks |-> 0]
    /\ taskCount = 0
    /\ now = 0
    /\ enabled = FALSE
    /\ event = 0
    /\ pc = [s \in Servers |-> "idle"]
    /\ cur = [s \in Servers |-> NoTask]

-----------------------------------------------------------------------------
(* Scheduling. *)

\* Faulty: a task is put in front of those that expire at the same time.
InsertBeforeEqual(e) ==
    CHOOSE p \in 1..Len(queue) + 1 :
        /\ \A i \in 1..(p - 1) : expiry[queue[i]] < e
        /\ p <= Len(queue) => e <= expiry[queue[p]]

\* enqueue's find_if: the first queued task that expires strictly after e,
\* or the end of the queue.
InsertPosition(e) ==
    CHOOSE p \in 1..Len(queue) + 1 :
        /\ \A i \in 1..(p - 1) : expiry[queue[i]] <= e
        /\ p <= Len(queue) => e < expiry[queue[p]]

\* enqueue: the alarm moves only for a new head.
Enqueue(t, e) ==
    LET pos == InsertPosition(e)
    IN  /\ event' = IF pos = 1 THEN e ELSE event
        /\ queue' = Insert(queue, pos, t)
        /\ UNCHANGED <<now, enabled>>

\* The clock the expiration is computed from: the first task enables the
\* timer before it reads the clock.
ClockRead == IF queue = <<>> /\ ResetsOnEnable THEN 0 ELSE now

\* The first task: enable(), then set_event_time().  The fused enable(d) of
\* some HALs leaves the same state.
StartAlarm(t, e) ==
    /\ queue' = Append(queue, t)
    /\ now' = ClockRead
    /\ enabled' = TRUE
    /\ event' = e

\* Faulty: the pending flag is not looked at.
ScheduleAgain(t, e) ==
    /\ pending' = [pending EXCEPT ![t] = TRUE]
    /\ taskCount' = taskCount + 1
    /\ expiry' = [expiry EXCEPT ![t] = e]
    /\ IF queue = <<>> THEN StartAlarm(t, e) ELSE Enqueue(t, e)
    /\ UNCHANGED srvVars

\* schedule_at and schedule_after, once the expiration is computed.
Schedule(t, e) ==
    /\ ~pending[t]
    /\ pending' = [pending EXCEPT ![t] = TRUE]
    /\ taskCount' = taskCount + 1
    /\ expiry' = [expiry EXCEPT ![t] = e]
    /\ IF queue = <<>> THEN StartAlarm(t, e) ELSE Enqueue(t, e)
    /\ UNCHANGED srvVars

\* A context can call the manager: always, unless the timer interrupt runs
\* above every context that does and has not reached its critical section.
CanCall == Preemptive \/ \A s \in Servers : pc[s] # "entered"

RunAfter(t, d) ==
    /\ CanCall
    /\ ClockRead + d <= MaxTime
    /\ Schedule(t, ClockRead + d)

RunAt(t, e) ==
    /\ CanCall
    /\ e + MaxPast >= ClockRead
    /\ Schedule(t, e)

-----------------------------------------------------------------------------
(* Cancelling and serving. *)

\* Faulty: the alarm stays set for the task that left; the timer is disabled
\* whatever is left.
KeepsEvent(q) ==
    /\ enabled' = IF q = <<>> THEN FALSE ELSE enabled
    /\ UNCHANGED <<now, event>>

AlwaysDisables(q) ==
    /\ enabled' = FALSE
    /\ UNCHANGED <<now, event>>

\* compute_next_event, for the queue q that is left.
ComputeNextEvent(q) ==
    /\ enabled' = IF q = <<>> THEN FALSE ELSE enabled
    /\ event' = IF q = <<>> THEN event ELSE expiry[Head(q)]
    /\ UNCHANGED now

\* Faulty: the flag stays set.
CancelKeepsFlag(t) ==
    /\ CanCall
    /\ pending[t]
    /\ queue' = Unlink(queue, t)
    /\ taskCount' = taskCount - 1
    /\ ComputeNextEvent(queue')
    /\ UNCHANGED <<pending, expiry, pc, cur>>

\* cancel; of a task that is not pending it returns false and changes nothing.
Cancel(t) ==
    /\ CanCall
    /\ pending[t]
    /\ queue' = Unlink(queue, t)
    /\ pending' = [pending EXCEPT ![t] = FALSE]
    /\ taskCount' = taskCount - 1
    /\ ComputeNextEvent(queue')
    /\ UNCHANGED <<expiry, pc, cur>>

\* The alarm is due and server s is called.
Interrupt(s) ==
    /\ CanCall
    /\ pc[s] = "idle"
    /\ enabled
    /\ event <= now
    /\ pc' = [pc EXCEPT ![s] = "entered"]
    /\ UNCHANGED <<mgrVars, halVars, cur>>

\* service_task finds nothing: a cancel emptied the queue meanwhile.
ServiceNothing(s) ==
    /\ pc[s] = "entered"
    /\ queue = <<>>
    /\ pc' = [pc EXCEPT ![s] = "idle"]
    /\ UNCHANGED <<mgrVars, halVars, cur>>

\* service_task takes the head of the queue, whatever its expiration.
ServiceTask(s) ==
    /\ pc[s] = "entered"
    /\ queue # <<>>
    /\ queue' = Tail(queue)
    /\ pending' = [pending EXCEPT ![Head(queue)] = FALSE]
    /\ ComputeNextEvent(queue')
    /\ pc' = [pc EXCEPT ![s] = "running"]
    /\ cur' = [cur EXCEPT ![s] = Head(queue)]
    /\ UNCHANGED <<expiry, taskCount>>

\* run() has returned: the task stops counting as work.
Finish(s) ==
    /\ pc[s] = "running"
    /\ taskCount' = taskCount - 1
    /\ pc' = [pc EXCEPT ![s] = "idle"]
    /\ cur' = [cur EXCEPT ![s] = NoTask]
    /\ UNCHANGED <<queue, pending, expiry, halVars>>

Tick ==
    /\ now < MaxTime
    /\ now' = now + 1
    /\ UNCHANGED <<mgrVars, enabled, event, srvVars>>

Next ==
    \/ \E t \in Tasks, d \in Durations : RunAfter(t, d)
    \/ \E t \in Tasks, e \in Times : RunAt(t, e)
    \/ \E t \in Tasks : Cancel(t)
    \/ \E s \in Servers :
        Interrupt(s) \/ ServiceNothing(s) \/ ServiceTask(s) \/ Finish(s)
    \/ Tick

Spec == Init /\ [][Next]_vars

\* The clock advances, a due alarm interrupts, an interrupt handler runs to
\* its end and so does a task.
Fairness ==
    /\ WF_vars(Tick)
    /\ \A s \in Servers :
        /\ WF_vars(Interrupt(s))
        /\ WF_vars(ServiceNothing(s) \/ ServiceTask(s))
        /\ WF_vars(Finish(s))

FairSpec == Spec /\ Fairness

-----------------------------------------------------------------------------
(* Properties. *)

\* The tasks service_task has popped and not yet finished.
Running == {s \in Servers : pc[s] = "running"}

\* The pending flag, which run_after, run_at and cancel trust, says exactly
\* which tasks are linked in the queue, and none is linked twice: remove()
\* never unlinks a task that is not there.
PendingIsQueued ==
    /\ Linear(queue)
    /\ \A t \in Tasks : pending[t] <=> t \in Nodes(queue)

\* The queue is ordered by expiration although tasks are inserted, removed
\* and rescheduled by contexts that know nothing of each other.
Sorted == \A i, j \in 1..Len(queue) : i < j => expiry[queue[i]] <= expiry[queue[j]]

\* The alarm is enabled exactly while something is queued, and is set for the
\* task that expires first: no deadline passes without an interrupt.
AlarmGuardsHead ==
    /\ enabled <=> queue # <<>>
    /\ enabled => event = expiry[Head(queue)]

\* task_count, which is_idle() reads, counts the queued tasks and the tasks
\* that are still running, so the manager is not idle before run() returns.
CountIsWork == taskCount = Len(queue) + Cardinality(Running)

\* Contexts that know nothing of each other schedule, cancel and serve in any
\* order, and the flags, the queue, the alarm and the counter still agree.
Consistent ==
    /\ TypeOK
    /\ PendingIsQueued
    /\ Sorted
    /\ AlarmGuardsHead
    /\ CountIsWork

\* The step leaves two queued tasks in their order, and queues a task behind
\* every task that expires no later.
InOrder ==
    \A t, u \in Tasks :
        /\ Before(queue, t, u) /\ {t, u} \subseteq Nodes(queue')
           => Before(queue', t, u)
        /\ t \in Nodes(queue) /\ u \in Nodes(queue') \ Nodes(queue)
              /\ expiry'[t] <= expiry'[u]
           => Before(queue', t, u)

\* Two queued tasks never change places, and among equal expirations the one
\* scheduled first is served first.
FirstComeFirstServed == [][InOrder]_vars

\* service_task starts a task only when its expiration time has come.
NeverEarly ==
    [][\A s \in Servers :
        s \in Running' \ Running => expiry[cur'[s]] <= now]_vars

\* A scheduled task is served or cancelled.  Needs expirations that do not
\* lie in the past (MaxPast = 0): a task that keeps rescheduling itself in
\* the past stays ahead of the others.
EventuallyServed == \A t \in Tasks : pending[t] ~> ~pending[t]

\* Seen from its users the manager is a timer: a task's deadline is its
\* expiration time while it is pending.
Deadline == [t \in Tasks |-> IF pending[t] THEN expiry[t] ELSE -1]
Abstract == INSTANCE Timer WITH deadline <- Deadline, running <- cur
IsATimer == Abstract!Spec
=============================================================================
