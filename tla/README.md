# A formal model of the bare-metal senders and receivers library

The library (`src/include/async`) gives C++ programs without an operating
system *senders* (descriptions of work), *schedulers* (where the work runs),
and adaptors that combine them.  Its compile-time part is large; its run-time
part is small, concurrent and hard to test: intrusive queues shared between
interrupt handlers and ordinary code, a timer, stop sources with callbacks, and
operation states whose lifetime ends inside their own completion.  This
directory models that run-time part in TLA+, checks it with TLC and proves the
most important facts about its core with TLAPS.

## 1. Inventory

### Components, their state and their operations

| component | state | operations |
|---|---|---|
| timer manager (`schedulers/timer_manager.hpp`) | sorted `task_queue`, `task_count`; per task `pending`, `expiration_time`; the HAL's clock and alarm | `run_after`, `run_at`, `cancel`, `service_task`, `is_idle` |
| stop source, callback (`stop_token.hpp`) | flag `requested`, list `callbacks`; per callback `pending` | `request_stop`, constructor and destructor of a callback |
| priority task manager (`schedulers/task_manager.hpp`) | a queue per priority, `task_count`; per task `pending`; the HAL's interrupts | `enqueue_task`, `service_tasks<P, policy>`, `is_idle` |
| requeue policies (`schedulers/requeue_policy.hpp`) | deferred's local queue | `get_queue`, `pop` |
| trigger manager (`schedulers/trigger_manager.hpp`) | one doubly linked list, `task_count`; per task `pending`, `prev`, `next` | `enqueue`, `dequeue`, `run<policy>`, `empty` |
| scheduler operations (`time_`, `priority_`, `trigger_scheduler.hpp`) | the task, the optional stop callback | `start`, `run`, the stop callback |
| `when_all`, `when_any` | `count`, `stop_source`, `stop_cb`, stored completion | start, a child's completion, the parent's stop |
| `start_detached`, `static_allocator` | the slots, `stop_source_for` | start, die, `stop_detached` |
| `repeat`, `retry`, `periodic` | the re-emplaced operation state, `tp` | start, repeat, passthrough, `compute_expiration` |
| `run_loop`, `sync_wait`, `split` | task list and `synchronizer`; shared result | push, pop, run, finish; start, notify |
| `let_*`, `sequence`, `incite_on`, `continue_on`, `start_on` | a variant of two operation states | start, first completion, second completion |
| `then`, `just`, `into_variant`, `read_env`, ... | none | map one completion to another |
| concepts, signatures, environments, debug | none at run time | |

### How they interact

Most of what is shared is guarded by `conc::call_in_critical_section<mutex>`, one
mutex per tag: interrupts are off, or a lock is held on hosted builds.  Three
things are not.  Counters and flags are atomic (`task_count`, `requested`,
`count`).  A `run_loop` with a condition variable is guarded by two locks:
`push_back` changes the list under the mutex of the synchronizer, `pop_front` in a
critical section (`runloop_scheduler.hpp:36`, `196`).  And the static state of
`split` has no lock at all.  User
code does not run inside the managers' critical sections: `run()` of a task, a
stop callback and the decrement of the counters come after them, and that gap is
where the interesting interleavings are.  The exception is `stop_detached`, which
requests a stop, and so calls its callbacks, inside one.  The managers talk to a HAL (an alarm
to set, an interrupt to make pending) and the HAL calls back
(`service_task`, `service_tasks`, `run`) from an interrupt handler.  A scheduler
operation is a task of a manager and at the same time the owner of a stop
callback; the stop source calls the callback, which cancels the task.
Adaptors own their children's operation states and are completed by them, and
the end of an operation may destroy it at once.

### What is hard

* a context acting between an interrupt and the critical section of its handler,
  or between the critical section that pops something and its use;
* the `pending` flags, which every operation trusts instead of the links;
* requests coalesced with a run that is about to begin;
* lists that are moved to a local variable while other operations refer to them;
* a clock that the HAL may restart on `enable()`;
* counters decremented after, and outside, the critical sections;
* stop requests racing registration, destruction and completion;
* operation states that replace, or are destroyed by, the one whose completion
  is running, and values that refer into them;
* loops that must not recurse, and claims of a type to complete synchronously
  that others rely on;
* static state without a lock (`split`), a list under two locks (`run_loop`), and
  waiting for a notification.

`PROJECT.json` lists each of these hazards at its line, with the properties that
watch it, and a note where the code meets it in spite of them.

### What makes each component correct

* timer: no task starts before its time, out of order or twice; the alarm is
  always set for the first deadline; what is scheduled is served or cancelled.
* stop source: each living callback is told exactly once, none is forgotten.
* task manager: a request is followed by a run that begins after it; no
  interrupt is lost; a task is in one queue; priorities serve first in, first out.
* trigger manager: an accepted enqueue is answered by exactly one run or one
  dequeue; the lists stay whole (both until a list is changed behind the back of a
  `run()` that relies on it).
* `when_all`, `when_any`: one completion, after all children, the one promised.
* scheduler operations and detached operations: each ends once; a stop ends the
  operation it was meant for and no other; slots have one owner.
* adaptors: what is sent is what the signatures list; an operation completes
  once, and inside `start()` if its type says so; nothing is used after a
  completion has destroyed it; a loop runs as often as it should and stops when
  it is told to.
* `run_loop`, `sync_wait`, `split`: what is pushed onto a loop is executed, in order;
  every wait returns, with the answer it was given, once; the shared operation is
  started once.

## 2. Modules

| module | models |
|---|---|
| `IntrusiveList` | the library's linked lists as sequences of nodes |
| `Timer` | what a timer promises, without queue, alarm or counter |
| `TimerManager` | `generic_timer_manager` and its HAL; implements `Timer` |
| `TimerManagerProofs` | the inductive invariant of `TimerManager` and what follows |
| `StopSource` | `inplace_stop_source`, `inplace_stop_callback` |
| `StopSourceProofs` | its inductive invariant and what follows |
| `TaskManager` | `priority_task_manager`, both requeue policies |
| `TaskManagerProofs` | its inductive invariant, what follows, and the order of service |
| `TriggerManager` | `trigger_manager`, both requeue policies, link by link |
| `TriggerManagerProofs` | that the links stand for sequences, its inductive invariant and what follows |
| `Race` | `when_all`; `when_any`, `first_successful`, `stop_when`, `timeout_after` |
| `RaceProofs` | the inductive invariant of `Race` and what follows |
| `Operation` | what `start_detached` promises of its operations |
| `SchedulerOp` | the op_states of `time_scheduler`, `trigger_scheduler`, `fixed_priority_scheduler` |
| `Detached` | `start_detached`, `stop_detached`, `static_allocator`, composed with `SchedulerOp`; implements `Operation` |
| `DetachedProofs` | its inductive invariant, and that each step is one of `Operation` or none |
| `Senders` | completion signatures and the claim to be synchronous: what the type of every factory and adaptor says |
| `Adaptor` | the run time of one adaptor over any child: `then` and its relatives, `into_variant`, variant senders, `let_*`, `sequence`, `incite_on`, `repeat`, `retry`, `periodic`; extends `Senders` |
| `AdaptorProofs` | the inductive invariants of `Adaptor`, for any child, and what follows |
| `RunLoop` | the synchronizer and `run_loop` |
| `RunLoopTasks` | a `run_loop` that several operations use; extends `RunLoop` |
| `Split` | `split`: its static state and its receivers |
| `SyncWait` | both forms of `sync_wait`, waiting for one split sender; extends `RunLoop` and `Split` |
| `SyncWaitProofs` | its inductive invariant and what follows |
| `MC...` | the instances TLC checks |

Conventions.  A critical section is one action.  What a function does outside of
one is an action of its own, and a program counter (`pc`) per handler, requester
or runner tells where it stands.  Calls that return false without changing
anything are stuttering steps, unless they matter (`TaskManager!EnqueueAgain`).
A running task and every other context use the same actions, so re-entrant calls
from `run()` and calls from other contexts are both covered.  Operators whose
comment begins with "Faulty" belong to no specification; each replaces one
definition by a plausible mistake and shows that a property notices it.

**TimerManager.**  `queue`, `pending`, `expiry`, `taskCount` are the manager's
members; `now`, `enabled`, `event` the HAL's clock and alarm.  `RunAfter` and
`RunAt` share `Schedule`; the first task starts the alarm (`StartAlarm`) and, if
the HAL does so (`ResetsOnEnable`), restarts the clock before it is read
(`ClockRead`); others are inserted (`Enqueue`).  An expiration provider may
answer with any time from `MaxPast` before now.  A server is a context that
calls `service_task`: `Interrupt` (the alarm is due), then `ServiceTask` or
`ServiceNothing` (the critical section), then `Finish` (after `run()`).
`Preemptive` says whether any other context can act between `Interrupt` and the
critical section.

**StopSource.**  `request_stop` is `Request` (the exchange, outside of any
critical section), then rounds of `PopCallback`, `CallCallback`, `CallReturns`,
and `Drained`.  `register_callback` reads the flag (`RegisterCheck`,
`RegisterRefused`) and links (`RegisterLink`) under a lock that the exchange does
not take.  A refused callback is called by its constructor.

**TaskManager.**  `service_tasks<P>` is `Interrupt`, `GetQueue`, rounds of pop,
`Run` and `Finish`, and `Leave`.  `PopImmediate` is one critical section;
`PopDeferred` works on the local queue without one and `ClearPending` follows.
Which priorities are deferred is the constant `Deferred`.

**TriggerManager.**  `run()` is `Begin`, rounds of `Test` (`empty`), `Front`, `Pop`
(the critical section), `Run`, `Finish`, and `Leave`.  The links are modelled
because `dequeue` calls `tasks[0].remove` whatever list holds the task.  Nothing
keeps other contexts, or the running task, from changing a list between these
steps, and four steps of the code are wrong when they have: a dequeue of the
first or the last task of a list that a deferred `run()` has moved, or of the task
a `run()` refers to (`Misses`); a `front()` of a list that was emptied since
`empty()`; and the exchange of the list (`Begin`), or the pop of another immediate
runner (`Overtaken`), under an immediate runner that refers to its front.  The model
takes these steps too, with what the code does in them, and the history variable
`astray` remembers it.  The properties hold until then.

**Race.**  `shape` selects policy and op_state; the rest are the operation's
members (`count`, `caught`, `stored`, `requested` for `stop_source`, `linked` for
`stop_cb`) and the parent's stop source (`parentStop`, `popped`).  `start()` is
`EmplaceCallback`, then `Refuse`, or `Begin` and `StartChild` for each child (in
any order).  A child completes by `Emplace` (when_any's critical section), or by
`NotifyWithoutError`, `CatchError`, `StoreError` (when_all), then `RequestStop`
if the channel is `Decisive`, `Decrement`, and for the last one
`ResetCallback` and `Complete`.  The synchronous op_state has neither count nor
stop: `CompleteInStart`.  Its `notify_stopped()` is empty, so that after a stopped
child (`StoppedUnnoticed`) `complete()` loads an optional that was never filled:
what it sends then is one of several `Verdicts` (the values without the child's
part, or what an unset optional holds), or the program ends there ("aborted").
`StartNullary` is `start()` without children.  The
parent's `request_stop` is `ParentRequest`, `ParentPops`, `ParentCalls`.  The
operation's own stop source is a flag here; `StopSource` has its callbacks.

**SchedulerOp and Detached.**  `kind` and `stoppable` select one op_state.
`start()` is `StartStopped`, or `StartUnstopped`, `Enqueue` and, if there is a
stop callback, `optional::emplace`: `EmplaceLinked`, or `EmplaceRefused` and
`CallInConstructor`, which may complete the operation and see it destroyed before
`ReturnToConstructor`; and `EndEmplace`, the write of the flag `engaged`, wherever the
operation is by then.  `run()` is `Pop` (in the manager), `ClearCallback` (trigger only) and `Run`.  The
stop source of the operation is `RequestStop`, `PopCallback`, `CallCallback`,
`CallReturns`, `Drained`.  The manager is reduced to the set of what it queues:
that its pop and cancel are atomic and exclude each other is what
`TimerManager!Consistent` and `TriggerManager!AnsweredOnce` show of the managers (for the trigger,
as long as nothing goes astray).
`Detached` gives each call of `start_detached` a slot (`Claim`, `Refuse`,
`Construct`), publishes its stop source (`Publish`), starts it, and on completion
goes through `die()`: `Retract`, `Destroy`, `Release`.  All variables of an
op_state belong to its slot, which the next operation gets with whatever contexts
are still busy with it.  `Unlocked` is the critical section around
`stop_source_for`, which `stop_detached` keeps until the drain is over and which
a completion inside the drain enters again.  `Overtakes` says whether a service
routine may take an operation whose `start()` has not returned.

**Senders.**  A sender type is a record: the completions it lists (`sends`),
whether the sender and its operation claim to be synchronous (`sync`, `opsync`),
and on which channels it sends references into its own operation state (`owns`).
One operator per factory or adaptor, named as in the code, computes this record
as `get_completion_signatures` and the environment queries do.

**Adaptor.**  One operation, described by the record `op`, over a child that is
known by its sender type alone.  A context has a stack of frames; a frame is a
function that is running and what it does next, so that a completion inside
`start()`, a loop that goes round on the stack, and code that continues after
the operation has been destroyed are all behaviours of the model.  `slot` is the
child in the `optional` or `variant` of the adaptor's state.  A frame's `args`
are "owned" while they refer into the child's storage and "dead" once that is
destroyed (`Dangling`).  Chains (`let_*`, `sequence`, `incite_on`) are `start`,
`CompleteFirst`, `Forward`; maps are `start`, `Map`, `Forward`; loops are
`LoopStart`, `Loop`, `Begin` or `BeginStopped`, `Again`, `EndLoop` and
`PassThrough`, and for periodic `PeriodicStart`, `Restart`, `PeriodicAgain`,
`PeriodicPassThrough` and `PeriodicClear`.  `CallUser` is the call of a loop
function or an inciting function, in which the user may make the child complete
(`CompleteLater`).  The time of a periodic operation is `late`, the distance from its
last expiration to now.

**RunLoop, Split, SyncWait.**  `cv` selects the synchronizer's implementation.
`run()` is `Wait`, `pop_front` and the task, in rounds; `Wait` may fall asleep
only with a condition variable.  `pop_front` finds nothing (`PopNothing`), or takes
the first task: in one step without a condition variable (`PopAlone`), where
`push_back` is in the same critical section, and in two with one (`PopReads`,
`PopWrites`), where a `push_back` under the other lock may come in between.
`start()` of a split operation is `StartCompleted`, or `StartRegisters` and then
`StartStopped` or `StartLinks`.  The shared operation completes on any channel at
any time (`SingleCompletes`).  `notify()` is `NotifyCompletes` and `NotifyNext` for
each linked operation.  `SyncWait` gives each receiver a context of its own that
connects, starts, waits and returns, which destroys its operation, wherever
`notify()` is.  If `notify()` has still to read that operation's `next_ops`, it may
find what was there or nothing (`NotifyLost`), and the program is `astray`.  `stale`
says that `reset()` has left a stop request of an earlier round.  The constant
`Serialised` says whether the users of the sender keep `start()` and the completion
of the shared operation apart (`Undisturbed`, `Unnotified`); a stop may come
between its steps even so.  `SplitAgain` waits for all waits to return.
`RunLoopTasks` lets any context start operations on a loop and finish it.

## 3. Runs

| run | checks | shows |
|---|---|---|
| `timer_isr` | `NeverEarly`, `IsATimer`, `EventuallyServed` | one timer interrupt above its callers and a clock that restarts on enable: the manager is a timer |
| `timer_threads` | `Consistent`, `FirstComeFirstServed` | two servers, preempted anywhere, expirations in the past: queue, flags, alarm and counter agree |
| `stop_source` | `Consistent`, `StopReachesAll`, `ToldAtMostOnce`, `StopIsDelivered` | registration, destruction and requests interleave freely; each living callback is told once |
| `task_manager` | `Consistent`, `NoRequestForgotten`, `NoLostInterrupt`, `FirstInFirstOut`, `EventuallyRun` | both policies side by side |
| `trigger_manager` | `Consistent`, `AnsweredOnce`, `InQueuedOrder`, `EventuallyAnswered` | both policies on one trigger, tasks dequeued at any moment: what holds until a step goes astray |
| `trigger_dequeued` | `NeverRunUnasked` violated | in one context, a task dequeues another that the deferred policy moved, and that one is run all the same |
| `race` | `TypeOK`, `CompletesLast`, `FollowsPolicy`, `EndsOnceDecided` | every `when_all` and `when_any` completes once, last, with what its policy promises, and ends once it is decided |
| `race_sync_stopped` | `SendsOnlyValuesSent` violated | a `when_all` of synchronous children sends values although one of them was stopped |
| `detached` | `Consistent`, `IsOperation`, `StopEnds` | operations of every scheduler in one or two slots that are used again, with a stop at any moment: each ends once, for its own reasons |
| `adaptor` | `TypeOK`, `KeepsContract`, `CompletesLast`, `UsesTheLiving`, `RepeatsExactly`, `SyncLoopsDontNest`, `ExpiresOnTheGrid`, `EndsWhenItMust` | every adaptor over every kind of child keeps what its type says (but for one completion of `periodic`, below), completes once, and uses nothing that is gone |
| `adaptor_dangling` | `UsesTheLiving` violated | `just(...) \| repeat_until(...)` completes its receiver with references into a destroyed operation state |
| `sharing` | `TypeOK`, `AnsweredOnce`, `EveryoneReturns` | two waits, on a run loop and on a synchronizer, share one split sender, twice over: each is answered once and returns, unless `notify()` looks at an operation that is gone |

`Consistent` joins, in each module, the type invariant and the invariants of the
data structure: that flags, links, queues, alarm and counters agree
(`TimerManager`: `PendingIsQueued`, `Sorted`, `AlarmGuardsHead`, `CountIsWork`;
`StopSource`: `PendingIsLinked`; `TaskManager`: `InOnePlace`, `CountIsWork`;
`TriggerManager`: `ListsAreWhole`, `CountIsWork`; `Detached`:
`PointerIsCurrent`).

**Bounds.**  Three tasks are enough for every position of an insertion or a
removal (first, middle, last) and for two tasks that a third one passes; two
servers, requesters, priorities or runners for every pair of contexts.  The
clock stops at `MaxTime` = 3 (timer only), with which deadlines can be equal, distinct,
already due and still to come, and can be met with the queue full.  No other
quantity is bounded: counters and queues are bounded by the number of tasks and
contexts.  Three children of a race are
enough for one that wins, one that is replaced and one that comes late on any
channel.  Three detached calls over one or two slots are enough for a refused
call and for a slot whose second operation meets what the first one left.
An adaptor has every child that
sends a non-empty subset of four completions (two values, an error, stopped; three for
the loops), synchronous or not, with and without values in its own storage, four
kinds of dependent sender, every predicate, and a repetition count of 0 and of 2;
`MaxDepth` = 2 bounds the frames on top of which a child that is not synchronous
completes (a synchronous loop is not bounded by it, and `SyncLoopsDontNest` is about
just that), and `MaxLate` = 5 with `Period` = 2 lets a periodic operation be
early, on time, and late by less than, exactly and more than one or two periods.  Two waiters
are enough for one that links first, one that links second and one that comes
late; `Rounds` = 2 for a sender that is split again with what the first round
left.
`CHECK_DEADLOCK FALSE` appears for the trigger manager, where a `run()` of an
emptied list stops, for the stop source, where callbacks are constructed once, for
the race and the adaptors, which end when they have completed, for the detached
calls, which are made once, for the waits, whose last round ends, and for a run
loop that ends or waits.

**Fairness.**  The clock advances; an interrupt that is due or pending is taken;
a handler goes on and the tasks it runs return; a trigger fires again; a child
that is asked to stop completes, and its completion goes on; a detached call that
has begun, a drain and `die()` go on.  No timer expires and no trigger fires for
sure in `detached`: there the stop alone must end the operation.  In `adaptor` a
child that was started completes some day and time passes; in `sharing` each
context that is not blocked goes on, and the shared operation
completes once started; of a run loop, its owner goes on.  Nothing forces a program to schedule, enqueue, cancel, register, destroy or request a
stop.  These are what the hardware and the library's contract (tasks return)
provide.  `EventuallyServed` needs expirations that are not in the past: a task
that keeps rescheduling itself in the past stays ahead of every other task.

**The violations.**  In each the code does what its documentation, or a test, says
that it does not.

1. `trigger_dequeued`: `dequeue` unlinks a task through `tasks[0]`
   (`trigger_manager.hpp:61`) and returns true.  A task that the deferred policy
   has moved, and that is first or last in its list, stays linked there, and
   `run()` runs it: its operation is completed as stopped, and then completed again.
   It takes no interrupt: a task that is run cancels the next one.
2. `race_sync_stopped`: `notify_stopped()` of the synchronous `when_all` does nothing
   (`when_all.hpp:365`), and `complete()` goes on as if all children had sent values.
3. `adaptor_dangling`: `passthrough()` of `repeat` and `retry` destroys the child
   (`repeat.hpp:134`, `retry.hpp:126`) before it forwards what the child sent;
   `just` and `just_error` send references into their operation state.

**Further configurations.**  The following instances are kept beside the runs, to be
checked with `tlc -config <configuration> <module>`.  The first one passes.  Each of
the others is violated, and shows what a parameter, a named guard or a named
exception of the runs stands for.

| configuration | module | property | shows |
|---|---|---|---|
| `MCRunLoop.cfg` | `MCRunLoop` | `InOrder`, `EventuallyExecuted` hold | four operations on one loop without a condition variable, which may be finished at any moment: executed in order, none lost |
| `MCRunLoopThreads.cfg` | `MCRunLoop` | `InOrder` | with a condition variable, an operation pushed while `pop_front` takes the last one is lost (`runloop_scheduler.hpp:191`, `196`), though `src/docs/schedulers.adoc:102` says that the queue is "executed in order" |
| `MCStopSourceDestroyed.cfg` | `MCStopSource` | `CallsLiveCallback` | `request_stop` clears `pending` when it pops a callback (`stop_token.hpp:103`) and calls it after the critical section; a destructor in between returns at once (`stop_token.hpp:127`), though `src/test/stop_token.cpp:56` says that destroyed callbacks are handled |
| `MCRaceFirstError.cfg` | `MCRace` | `FirstErrorIsReported` | `first_successful` stores an error only if nothing is stored yet (`when_any.hpp:122`): an earlier `set_stopped` keeps the place of the error that the comment (`when_any.hpp:98`) promises |
| `MCDetachedOvertaken.cfg` | `MCDetached` | `StartStaysInLifetime` | the service routine takes an operation before its `start()` has emplaced the stop callback (`time_scheduler.hpp:95`, `trigger_scheduler.hpp:91`), in an operation that has ended |
| `MCDetachedStart.cfg` | `MCDetached` | `EmplaceEndsInLifetime` | without any service routine, a stop ends the operation inside `optional::emplace`, which then writes to it (`time_scheduler.hpp:96`) |
| `MCAdaptorUnlisted.cfg` | `MCAdaptor` | `SendsWhatIsListed` | `restart()` of periodic sends a stopped (`periodic.hpp:162`) that its signatures (220-228) do not list when the child never stops; `src/test/repeat.cpp:45` tests of `repeat` that it is listed |
| `MCSyncWaitRaced.cfg` | `MCSyncWait` | `EveryoneReturns` | the shared operation completes between two steps of `start()`: the receiver links itself behind the back of `notify()` (`split.hpp:139`) and waits for ever |
| `MCSyncWaitGone.cfg` | `MCSyncWait` | `NotifiesTheLiving` | `notify()` reads `next_ops` (`split.hpp:121`) of an operation whose wait has returned |
| `MCSyncWaitAgain.cfg` | `MCSyncWait` | `StoppedOnRequest` | `reset()` does not renew the stop source (`split.hpp:79`): after a stop, all later splits at the same place are stopped at once |

**What the passing runs assume.**  These are parameters, named guards or named
exceptions; each was found by a counterexample.

* `TimerManager`, `Preemptive` FALSE in `timer_isr`: nothing comes between the timer
  interrupt and `service_task`'s critical section.  With TRUE `NeverEarly` is
  violated: t1's interrupt is taken, another context cancels t1, and
  `service_task` (`timer_manager.hpp:165`) runs t2, which is due later.
* `TriggerManager`, `astray`: nothing is claimed after one of the four steps of
  section 2.
* `Race`, `StoppedUnnoticed`: `FollowsPolicy` makes no claim of what a synchronous
  `when_all` sends after one of its children was stopped.
* `Detached`, `Overtakes` FALSE: the service routine does not take an operation
  whose `start()` has not returned.  With TRUE a callback is emplaced in an
  operation that has ended, and perhaps in the next one of the slot.
* `Adaptor`, `Undeclared`: `KeepsContract` allows `periodic` the stopped that it does
  not list.
* `MCAdaptor!SafeOperations`: the children of loops send nothing of their own
  storage (see violation 3), and receivers do not destroy a synchronous loop, one
  with a loop function, or a periodic operation when they are completed: `start()`
  still reads the state of a synchronous loop (`repeat.hpp:88`), `repeat()` calls
  the loop function after the child has started (`repeat.hpp:127`), and periodic empties its state after
  completing (`periodic.hpp:192`).
* `SyncWait`, `Serialised` TRUE: the completion of the shared operation and
  `notify()` do not come between the steps of a `start()`, unless a stop request of
  its receiver causes it.  `astray`: nothing is claimed after `notify()` has
  looked at an operation that is gone.  `stale`: `AnsweredOnce` counts the request
  that `reset()` has left among the reasons for a stop.

Worth knowing, too.  The loop function of `repeat` is called after cancellation,
although `src/docs/sender_adaptors.adoc` (346) says that it is not, when the child
answers the stop inside its `start()`: `begin_loop()` returns true all the same.
The documentation's caution that `retry` can overflow the stack with the
inline scheduler (`src/docs/sender_adaptors.adoc:392`) is out of date:
`SyncLoopsDontNest` holds.

## 4. Proofs

TLC checks small instances; the theorems hold for every value of the constants.
Each proof follows the same course: an invariant that is inductive, one lemma per
action or group of actions that carries it over a step, and a theorem that draws
the property from it.  The invariants were checked by TLC before they were proved.

| module | theorems | property |
|---|---|---|
| `TimerManagerProofs` | `TypeCorrect`, `ManagerIsConsistent`, `ServedInOrder` | `TypeOK`, `Consistent`, `FirstComeFirstServed` |
| | `NoEarlyStart`, `ImplementsTimer`, assuming `~Preemptive` | `NeverEarly`, `IsATimer` |
| `StopSourceProofs` | `SourceIsConsistent`, `StopReachesEveryCallback`, `CallbackToldAtMostOnce` | `Consistent`, `StopReachesAll`, `ToldAtMostOnce` |
| `TaskManagerProofs` | `ManagerIsConsistent`, `RequestsAreRemembered`, `InterruptsAreKept`, `ServedInOrder` | `Consistent`, `NoRequestForgotten`, `NoLostInterrupt`, `FirstInFirstOut` |
| `TriggerManagerProofs` | `TriggerManagerConsistent`, `TriggerManagerAnsweredOnce`, `TriggerManagerInQueuedOrder` | `Consistent`, `AnsweredOnce`, `InQueuedOrder` |
| `RaceProofs` | `RaceTypeCorrect`, `RaceCompletesLast`, `RaceFollowsPolicy` | `TypeOK`, `CompletesLast`, `FollowsPolicy` |
| `DetachedProofs` | `DetachedIsConsistent`, `DetachedIsOperation`, assuming `~Overtakes` | `Consistent`, `IsOperation` |
| `SyncWaitProofs` | `WaitsAreTyped`, `EachIsAnsweredOnce`, assuming `Serialised` | `TypeOK`, `AnsweredOnce` |
| `AdaptorProofs` | `AdaptorIsTyped`, `AdaptorCompletesLast`, `LoopsRepeatExactly`, `SyncLoopsStayFlat`, `PeriodicExpiresOnTheGrid` | `TypeOK`, `CompletesLast`, `RepeatsExactly`, `SyncLoopsDontNest`, `ExpiresOnTheGrid` |
| | `AdaptorUsesTheLiving`, assuming `AllSafe` | `UsesTheLiving` |
| | `AdaptorKeepsContract`, assuming `ChildrenKeepTheirWord` | `KeepsContract` |

**Timer manager.**  For any set of tasks, any finite set of servers, any clock
bound and any durations, with and without preemption; `NeverEarly` and the
refinement of `Timer` need `~Preemptive`, without which both are false (section 3).
The inductive invariant `IInv` joins the type invariant and the
four invariants of the manager (together `Consistent`) with two facts about servers: a server has a
task exactly while it runs one, and, without preemption, an entered server finds
the head of the queue due (otherwise `NeverEarly` would depend on the past).
`Sorted` alone is not inductive: that an insertion keeps the queue sorted needs
`InsertPosition` to exist, which `PositionSplits` gets from `Sorted` and the
least-number principle; that a removal unlinks the right node needs
`PendingIsQueued`; that the counter stays a natural number needs `CountIsWork`.
The lemmas rest on
what insertion, removal at a position and pop do to a list: they keep it linear and
the other nodes in order (`InsertShape`, `RemoveAtShape`, `UnlinkNode`, `PopFrontNode`).

**Stop source.**  For any callbacks and requesters.  The exchange lets one request
through (`OneRequest`), so that one drain, at most, goes on.  A callback is in
one of three places, waiting to be told (linked, popped, or in its constructor),
told, or not constructed (`ToldUnlessWaiting`, `HeldIsUntold`); hence it is told
once.  That none is forgotten rests on `DrainedStaysEmpty`: when the request has
returned the list is empty and nobody holds its lock.  A constructor that has read the
flag as unset holds the lock until it has linked its callback, so that the
last look of the drain comes after it; a later one reads the flag as set
(`RefusedIsRequested`).

**Task manager.**  For any tasks, finitely many, any priorities and any choice of the policies.
`IInv` is the run's three invariants and `ServesItsQueue`: a handler has a task
from its pop to its end, and only a deferred one has a queue of its own.  The type of
`task_count` depends on `CountIsWork`.  For `FirstInFirstOut` the queue and deferred's local
queue of a priority make one line, which grows at its end and shrinks at its
head; every action is one or the other, or leaves the lines alone.

**Trigger manager.**  For any finite sets of tasks, of deferred runners and of
immediate ones, without a hypothesis: the properties say themselves that they end
where a step goes astray, and the invariant is `TypeOK /\ (astray \/ Sound)`.
Unlike the others this module has no sequences
in its state: its properties walk along the links (`Chain`).  Three steps lead from the
links to the properties.

1. *Links stand for sequences.*  `Represents(list)` says that `head`, `tail`, `prev` and `next`
   are those of the sequences `list`, that no task is in them twice (`Apart`), and that
   the pending tasks are those that are in one (`HavePending`).  The invariant says that there are such sequences.
2. *The walk finds them* (`ChainsAreSequences`).  `Chain` is a recursive function, which
   to the provers is any function that fulfils its equation.  `WalkIsUnique` shows that there is at most one: two
   would differ at a least place (`LeastNatural`), though their equation makes them agree
   there.  That the sequence's own walk fulfils the equation shows the rest; a sequence
   of different tasks fits into the walk because it is no longer than there are tasks.
3. *Each operation does to the sequences what it should*: `PushBackAppends`, `RemoveTakesOut`,
   `PopFrontRemoves`, `ExchangeMoves`.  `dequeue` unlinks through `tasks[0]`, so
   `RemoveTakesOut` needs that the task is in that list.  Of a task in another list
   `Remove` leaves that list's head and tail as they are, which is right if the task is neither
   (`InnerRemove`): hence `Misses` names the two ends and no more.

Every step that does not go astray turns the sequences into others in which no two tasks have changed places
(`StepKeepsSequences`, `InOrder`), which gives `InQueuedOrder`.  `Sound` adds the counter, the answers, that a
runner refers to the first task of its list until it has popped it
(`RefersToFirst`; otherwise `AnsweredOnce` would not survive `Pop`, which clears
the flag of one task and takes another), and that a runner's own list is empty
before it is filled (`OwnListInUse`; otherwise `Begin` would lose tasks).

**Race.**  For any finite set of children and any selection of
policies and op_states.  The inductive
invariant says where the children stand in each phase of `start()`, that `count`
is the number of children that have not decremented it and that at most one goes
on at zero (`CountIsOpen`), that what is stored is the first completion on a
channel the policy prefers at every moment, not only at the end
(`StoredIsPreferred`, `ErrorIsFirst`), and that a requested stop has a reason
(`StopHasReason`).  Without `CountIsOpen` two children could complete; without
`ErrorIsFirst`'s clause about the child that has won `caught_error` and not yet
stored, `complete()` could find no error to send.  `VerdictsAreJustified` joins
these when the last child sends; of a synchronous `when_all` with a stopped child
(`StoppedUnnoticed`) it shows no more than the type of what is sent.

**Detached operations.**  For any calls, any scheduler, and one slot or any number,
where the service routine does not overtake `start()`.  `PointerIsCurrent` is far from
inductive: what a slot's variables mean depends on which call holds it.
`OwnersAgree` ties calls to slots; `SlotStartsFresh` says that nothing is left of the
operation before; `CompletedOnce`, that queue, service routine and `die()`
exclude each other; `CallbackIsOwned` and `DrainIsCurrent`, that a stop callback
and a drain belong to the operation in the slot, except for a drain behind the
completion it caused itself, and that a linked callback is one the optional's
flag knows of, or will before the operation ends: the flag (`engaged`) may be
written into the slot's next operation (`EndEmplace`), which does no harm because
`emplace` overwrites it and the destructor of a callback that is not linked does nothing; `PointerIsPublished`, that `stop_source_for` is set
from its publication to `die()`; `FlagIsAsked`, that a stop
source's flag says whether its own operation was asked to stop, which `Operation`
needs for "stopped only if it was stopped itself".  In the refinement the
calls that hold a slot are the living operations: each step is one of
`Operation`'s or a stutter (`DetachIsStep`, `StopIsStep`, `SlotIsStep`), and that a
call is refused only when as many are alive as there are slots comes from
counting the slots taken.

**Waits on a shared sender.**  For any receivers, any choice of synchronizers and any
number of rounds, where `start()` is serialised with the completion of the shared
operation (`Serialised`).  The invariant follows each receiver (`Stands`): before its start nothing has reached it; once it
is linked and `notify()` has not come by (`ToNotify`) it sleeps or is about to; then its
completion is on its loop, executed, or done with, or it is lost because `notify()` has
read the memory of an operation that is gone (`astray`).  Its context is awake from the moment
that it has a task or is completed, and its loop has one task at most, so that the two
steps of `pop_front` find the same list.  `LinkedOnce` and `StartedOnce` tie the list to the shared operation;
`DecidesOnSource` says that between the two steps of `start()` only a stop can
have completed it; `AnsweredTruly`, with what.  The stop source is requested only if a receiver of this
round was, or `reset()` has left the request of another (`Requested`).  At the end of
a round only that flag is left, so that the invariant begins again.

**Adaptors.**  For any operation that fulfils the static assertions, any child its type can
describe, any contexts and any depth of the stacks (`MaxDepth` is any number).  The
heart of it is `OneHolder`: at any time at most one
context goes on with the operation (one of its frames is in `Active`), that frame
is on top of its stack, and there is none while the child runs.  With it,
`HolderFinds` says which phase of the child each function finds, `ChildIsWanted`
and `SentLast` that no child is there to be run after the receiver was completed,
`LoopOnMain` what the stack of a synchronous loop looks like, to the last frame, and
`RunsAreCounted` what the counter and the number of runs have to do with each other in
each function.  Frames are compared by what they execute (`Alike`, `Follows`), since destroying
a child changes the frames that refer to it wherever they are.

* `PeriodicExpiresOnTheGrid` needs, besides, that `num_ticks` is the least number
  of periods that is enough (`FirstTickAhead`), from division with remainder.
* `AdaptorUsesTheLiving` needs `OwnsWhatLives`: only the holder refers to the child's storage, so that
  whoever destroys the child is the one who must not refer to it afterwards.
  `AllSafe` states of which children and receivers this is true; it is what
  `MCAdaptor!SafeOperations` provides, and violation 3 is what happens without it.
* `AdaptorKeepsContract` makes the one exception of `Undeclared`.  It relates two computations that the code makes apart
  from each other: what the types say (`Senders`) and what the operations do.
  `SendsDeclared` says of every frame that what it was sent is listed by the
  sender it came from, or by the whole operation once it is on its way
  to the receiver; the lemmas `ForwardedIsDeclared`,
  `MappedIsDeclared`, `DependentIsDeclared` and `PassedIsDeclared` carry this
  through the signatures of every adaptor.  `GoesOnInStart` says of an operation
  that claims to be synchronous that nothing of it runs outside of the starting context, and
  that this context has a function that goes on until the receiver is completed.
  `ChildrenKeepTheirWord` is the same promise of the children.

**Assumptions.**  Those named in the modules (`ASSUME`), which TLC evaluates
in every run: null values are not tasks, calls or callbacks; tasks, servers, priorities and
children are finitely many where something counts them; times, durations and
bounds are natural numbers, `Period` and `Rounds` at least 1; the operations of
`Adaptor` fulfil the library's static assertions, the function of `sequence` and
`incite_on` is given nothing, so that it returns one sender, and predicates that
count belong to loops.  The hypotheses of single theorems (`~Preemptive`,
`~Overtakes`, `Serialised`, `AllSafe`, `ChildrenKeepTheirWord`) are named in the table.

**Only model-checked.**  Liveness under fairness (`EventuallyServed`,
`EventuallyRun`, `EventuallyAnswered`, `StopIsDelivered`, `EndsOnceDecided`,
`StopEnds`, `EndsWhenItMust`, `EveryoneReturns`), which is out of the prover's
reach.  Every invariant, action property and refinement that the passing runs
check is stated by a theorem.  Of the further configurations of section 3, which
are no runs, `InOrder` and `EventuallyExecuted` of `RunLoopTasks` are only
model-checked.

## 5. Plan

All components of the inventory that keep state at run time are modelled.  What is left:

1. Requests through the pointer that `start_detached` returns, which only the
   caller knows to be valid, and senders of different types under one name.
2. The completion signatures of `when_all` and `when_any` in `Senders`.
3. A proof that a `run_loop` without a condition variable executes what it is given
   in order (`RunLoopTasks!InOrder`), and waits that have several tasks on their loop.

## 6. Not modelled

The memory of a `when_all` or `when_any` is taken to outlive a stop request of
its parent that has begun: the loop of `request_stop` (and, without children,
the callback) still uses the operation after the last child has completed it.
Where the code goes on in memory that is gone, or in a list that another context
changes, the model takes the outcomes its text names and no others: `notify()`
finds the old `next_ops` or none; `pop_front` with a condition variable is two steps,
what it reads of the list and what it writes, and what it writes is what it has seen.
`stack_allocator` keeps nothing.  `incite_on_any` is a composition of `then`,
`incite_on`, `seq` and `when_any` and is not composed here.  Concepts, environments, queries and debug
signals are compile-time plumbing and logging.  Of the values that completions carry only the
type is modelled, and whether they refer into an operation; that `split` moves its
stored values into the first receiver that takes them by rvalue is not.  Critical
sections and `stdx::atomic` are taken to be sequentially consistent: an atomic
operation is one step.  Time does not wrap around: the width of a time point is
the HAL's.
