---------------------------- MODULE TriggerManager ----------------------------
(***************************************************************************)
(* async::trigger_manager (schedulers/trigger_manager.hpp): the tasks that *)
(* wait for one named trigger, and the interrupt service routines that run *)
(* them with requeue_policy::deferred or requeue_policy::immediate.        *)
(*                                                                         *)
(* Unlike the timer's, this queue can be changed while run() walks it: the *)
(* deferred policy moves the whole list into a local one, and dequeue()    *)
(* unlinks a task through the manager's list whichever list it is in.  So  *)
(* the list is modelled link by link: prev and next in the task, head and  *)
(* tail in each list.  Every critical section is one action.               *)
(***************************************************************************)
EXTENDS Integers, FiniteSets, Sequences

CONSTANTS
    Tasks,           \* trigger_task objects
    Runners,         \* the contexts that call run()
    Null,            \* the null pointer
    Shared,          \* the manager's list, tasks[0]
    Deferred         \* the runners that use requeue_policy::deferred; the
                     \* others use requeue_policy::immediate

ASSUME FiniteAssumption == IsFiniteSet(Tasks) /\ IsFiniteSet(Runners)
ASSUME NullAssumption == Null \notin Tasks
ASSUME SharedAssumption == Shared \notin Runners
ASSUME DeferredAssumption == Deferred \subseteq Runners

VARIABLES
    head, tail,      \* of the manager's list and of each runner's local list
    prev, next,      \* trigger_task::prev, trigger_task::next
    pending,         \* trigger_task::pending
    taskCount,       \* task_count
    pc,              \* per runner: where run() stands
    cur,             \* per runner: the task front() referred to
    owed,            \* per task: accepted enqueues minus dequeues and runs (history)
    astray           \* has a list been changed behind the back of a run() that
                     \* relies on it? (history)

listVars == <<head, tail, prev, next>>
vars == <<head, tail, prev, next, pending, taskCount, pc, cur, owed, astray>>

\* A runner's local list has the runner's name.
Lists == {Shared} \cup Runners
Pointers == Tasks \cup {Null}

\* "looking": before empty().  "found": before front().  "seen": holds a
\* reference to the front, which is popped in a critical section to come.
\* "taken": popped.
Phases == {"idle", "looking", "found", "seen", "taken", "running"}

TypeOK ==
    /\ head \in [Lists -> Pointers] /\ tail \in [Lists -> Pointers]
    /\ prev \in [Tasks -> Pointers] /\ next \in [Tasks -> Pointers]
    /\ pending \in [Tasks -> BOOLEAN]
    /\ taskCount \in Int
    /\ pc \in [Runners -> Phases]
    /\ cur \in [Runners -> Pointers]
    /\ owed \in [Tasks -> Int]
    /\ astray \in BOOLEAN

Init ==
    /\ head = [l \in Lists |-> Null] /\ tail = [l \in Lists |-> Null]
    /\ prev = [t \in Tasks |-> Null] /\ next = [t \in Tasks |-> Null]
    /\ pending = [t \in Tasks |-> FALSE]
    /\ taskCount = 0
    /\ pc = [r \in Runners |-> "idle"]
    /\ cur = [r \in Runners |-> Null]
    /\ owed = [t \in Tasks |-> 0]
    /\ astray = FALSE

-----------------------------------------------------------------------------
(* stdx::intrusive_list. *)

\* push_front(), which no operation of the manager calls.
PushFront(l, t) ==
    /\ prev' = IF head[l] = Null THEN [prev EXCEPT ![t] = Null]
               ELSE [prev EXCEPT ![t] = Null, ![head[l]] = t]
    /\ next' = [next EXCEPT ![t] = head[l]]
    /\ head' = [head EXCEPT ![l] = t]
    /\ tail' = [tail EXCEPT ![l] = IF @ = Null THEN t ELSE @]

PushBack(l, t) ==
    /\ next' = IF tail[l] = Null THEN [next EXCEPT ![t] = Null]
               ELSE [next EXCEPT ![t] = Null, ![tail[l]] = t]
    /\ prev' = [prev EXCEPT ![t] = tail[l]]
    /\ tail' = [tail EXCEPT ![l] = t]
    /\ head' = [head EXCEPT ![l] = IF @ = Null THEN t ELSE @]

\* remove() unlinks t from its neighbours; a missing neighbour means that t is
\* first or last in this list.
Remove(l, t) ==
    LET p == prev[t]
        n == next[t]
    IN  /\ head' = IF p = Null THEN [head EXCEPT ![l] = n] ELSE head
        /\ tail' = IF n = Null THEN [tail EXCEPT ![l] = p] ELSE tail
        /\ next' = [u \in Tasks |->
                     IF u = t THEN Null ELSE IF u = p THEN n ELSE next[u]]
        /\ prev' = [u \in Tasks |->
                     IF u = t THEN Null ELSE IF u = n THEN p ELSE prev[u]]

\* pop_front() of a list that is not empty.
PopFront(l) ==
    LET t == head[l]
        n == next[t]
    IN  /\ head' = [head EXCEPT ![l] = n]
        /\ tail' = IF n = Null THEN [tail EXCEPT ![l] = Null] ELSE tail
        /\ next' = [next EXCEPT ![t] = Null]
        /\ prev' = IF n = Null THEN prev ELSE [prev EXCEPT ![n] = Null]

\* The tasks of list l from its head on, as far as tasks go.
Chain(l) ==
    LET node[i \in 1..Cardinality(Tasks)] ==
            IF i = 1 THEN head[l]
            ELSE IF node[i - 1] = Null THEN Null ELSE next[node[i - 1]]
    IN  [i \in {j \in DOMAIN node : node[j] # Null} |-> node[i]]

Linked(l) == {Chain(l)[i] : i \in 1..Len(Chain(l))}

-----------------------------------------------------------------------------
(* The manager.  Neither dequeue() nor run() can tell whether the task or the
   list in its hands is still where it was: four steps of the code are taken
   although it is not.  They are modelled with what they do, and `astray`
   remembers that one was taken. *)

\* The list that run() walks.
Walked(r) == IF r \in Deferred THEN r ELSE Shared

\* An immediate runner refers to the front of the manager's list.
Refers(r) == r \notin Deferred /\ pc[r] = "seen"

\* Faulty: the task is linked in front.
EnqueueInFront(t) ==
    /\ ~astray
    /\ ~pending[t]
    /\ pending' = [pending EXCEPT ![t] = TRUE]
    /\ taskCount' = taskCount + 1
    /\ PushFront(Shared, t)
    /\ owed' = [owed EXCEPT ![t] = @ + 1]
    /\ UNCHANGED <<pc, cur, astray>>

\* enqueue; of a task that is pending it returns false and changes nothing.
\* (~astray bounds the model: of broken lists no more is asked.)
Enqueue(t) ==
    /\ ~astray
    /\ ~pending[t]
    /\ pending' = [pending EXCEPT ![t] = TRUE]
    /\ taskCount' = taskCount + 1
    /\ PushBack(Shared, t)
    /\ owed' = [owed EXCEPT ![t] = @ + 1]
    /\ UNCHANGED <<pc, cur, astray>>

\* remove() is told the manager's list, but t is the first or the last of a
\* list that a run() moved; or it is the task whose reference a run() holds.
Misses(t) ==
    \E r \in Runners : t \in {head[r], tail[r]} \/ (pc[r] = "seen" /\ cur[r] = t)

\* dequeue; of a task that is not pending it returns false and changes nothing.
Dequeue(t) ==
    /\ pending[t]
    /\ pending' = [pending EXCEPT ![t] = FALSE]
    /\ Remove(Shared, t)
    /\ taskCount' = taskCount - 1
    /\ owed' = [owed EXCEPT ![t] = @ - 1]
    /\ astray' = (astray \/ Misses(t))
    /\ UNCHANGED <<pc, cur>>

\* Faulty: deferred copies the manager's list instead of exchanging it.
BeginCopies(r) ==
    /\ pc[r] = "idle"
    /\ pc' = [pc EXCEPT ![r] = "looking"]
    /\ IF r \in Deferred
       THEN /\ head' = [head EXCEPT ![r] = head[Shared]]
            /\ tail' = [tail EXCEPT ![r] = tail[Shared]]
            /\ astray' = (astray \/ \E o \in Runners : Refers(o))
       ELSE UNCHANGED <<head, tail, astray>>
    /\ UNCHANGED <<prev, next, pending, taskCount, cur, owed>>

\* The trigger fires and run() calls get_queue: deferred moves the manager's
\* list to the runner's, also from under an immediate runner.
Begin(r) ==
    /\ pc[r] = "idle"
    /\ pc' = [pc EXCEPT ![r] = "looking"]
    /\ IF r \in Deferred
       THEN /\ head' = [head EXCEPT ![r] = head[Shared], ![Shared] = Null]
            /\ tail' = [tail EXCEPT ![r] = tail[Shared], ![Shared] = Null]
            /\ astray' = (astray \/ \E o \in Runners : Refers(o))
       ELSE UNCHANGED <<head, tail, astray>>
    /\ UNCHANGED <<prev, next, pending, taskCount, cur, owed>>

\* Faulty: a list of one task counts as empty.
TestForTwo(r) ==
    /\ pc[r] = "looking"
    /\ head[Walked(r)] # tail[Walked(r)]
    /\ pc' = [pc EXCEPT ![r] = "found"]
    /\ UNCHANGED <<listVars, pending, taskCount, cur, owed, astray>>

\* empty() says that there is a task; outside critical sections.
Test(r) ==
    /\ pc[r] = "looking"
    /\ head[Walked(r)] # Null
    /\ pc' = [pc EXCEPT ![r] = "found"]
    /\ UNCHANGED <<listVars, pending, taskCount, cur, owed, astray>>

\* front(), outside critical sections: perhaps of a list that was emptied
\* since.
Front(r) ==
    /\ pc[r] = "found"
    /\ cur' = [cur EXCEPT ![r] = head[Walked(r)]]
    /\ astray' = (astray \/ head[Walked(r)] = Null)
    /\ pc' = [pc EXCEPT ![r] = "seen"]
    /\ UNCHANGED <<listVars, pending, taskCount, owed>>

\* An immediate runner pops from under another one.
Overtaken(r) == r \notin Deferred /\ \E o \in Runners \ {r} : Refers(o)

\* Faulty: the flag stays set.
PopKeepsFlag(r) ==
    /\ pc[r] = "seen"
    /\ cur[r] # Null /\ head[Walked(r)] # Null
    /\ PopFront(Walked(r))
    /\ astray' = (astray \/ Overtaken(r))
    /\ pc' = [pc EXCEPT ![r] = "taken"]
    /\ UNCHANGED <<pending, taskCount, cur, owed>>

\* The critical section: pop_front() takes whatever is first by now, and the
\* flag that is cleared is the one of the task seen before.  With a null
\* reference, or from an emptied list, this is undefined: the runner stops.
Pop(r) ==
    /\ pc[r] = "seen"
    /\ cur[r] # Null /\ head[Walked(r)] # Null
    /\ PopFront(Walked(r))
    /\ pending' = [pending EXCEPT ![cur[r]] = FALSE]
    /\ astray' = (astray \/ Overtaken(r))
    /\ pc' = [pc EXCEPT ![r] = "taken"]
    /\ UNCHANGED <<taskCount, cur, owed>>

\* task.run() begins.
Run(r) ==
    /\ pc[r] = "taken"
    /\ owed' = [owed EXCEPT ![cur[r]] = @ - 1]
    /\ pc' = [pc EXCEPT ![r] = "running"]
    /\ UNCHANGED <<listVars, pending, taskCount, cur, astray>>

\* run() of the task has returned; --task_count.
Finish(r) ==
    /\ pc[r] = "running"
    /\ taskCount' = taskCount - 1
    /\ cur' = [cur EXCEPT ![r] = Null]
    /\ pc' = [pc EXCEPT ![r] = "looking"]
    /\ UNCHANGED <<listVars, pending, owed, astray>>

\* empty() says there is no more: run() returns.
Leave(r) ==
    /\ pc[r] = "looking"
    /\ head[Walked(r)] = Null
    /\ pc' = [pc EXCEPT ![r] = "idle"]
    /\ UNCHANGED <<listVars, pending, taskCount, cur, owed, astray>>

Next ==
    \/ \E t \in Tasks : Enqueue(t) \/ Dequeue(t)
    \/ \E r \in Runners :
        \/ Begin(r) \/ Test(r) \/ Front(r) \/ Pop(r) \/ Run(r)
        \/ Finish(r) \/ Leave(r)

Spec == Init /\ [][Next]_vars

\* The trigger fires again and again, and its service routine gets to run.
Fairness ==
    \A r \in Runners :
        /\ WF_vars(Begin(r))
        /\ WF_vars(Test(r) \/ Front(r) \/ Pop(r) \/ Run(r) \/ Finish(r)
                    \/ Leave(r))

FairSpec == Spec /\ Fairness

-----------------------------------------------------------------------------
(* Properties. *)

\* Every list is whole: its tail is its last task, prev goes back the way next
\* came, and no task is linked twice in one list or in two.  A task is pending
\* exactly while some list has it.
ListsAreWhole ==
    /\ \A l \in Lists :
        LET chain == Chain(l)
        IN  /\ Cardinality(Linked(l)) = Len(chain)
            /\ tail[l] = IF chain = <<>> THEN Null ELSE chain[Len(chain)]
            /\ \A i \in 1..Len(chain) :
                prev[chain[i]] = IF i = 1 THEN Null ELSE chain[i - 1]
    /\ \A l, m \in Lists : l # m => Linked(l) \cap Linked(m) = {}
    /\ \A t \in Tasks : pending[t] <=> \E l \in Lists : t \in Linked(l)

\* The runners whose task no longer waits but has not returned.
Busy == {r \in Runners : pc[r] \in {"taken", "running"}}

\* task_count, which empty() reads, counts the tasks that wait and those that
\* are being run, so a trigger is not empty before its last task returned.
CountIsWork ==
    taskCount = Cardinality({t \in Tasks : pending[t]}) + Cardinality(Busy)

\* Links, flags and counter agree, although tasks leave the lists that run()
\* walks, also from inside a list that a run() moved: until a step is taken
\* that goes astray.
Consistent == TypeOK /\ (astray \/ (ListsAreWhole /\ CountIsWork))

\* Each enqueue that was accepted is answered by one run or one dequeue, never
\* by both and never by two, until a step is taken that goes astray.
AnsweredOnce ==
    astray \/ \A t \in Tasks :
        owed[t] = (IF pending[t] THEN 1 ELSE 0)
                  + Cardinality({r \in Runners : pc[r] = "taken" /\ cur[r] = t})

\* A task whose dequeue returned true is not run.  (False of the code: a task
\* that a run() moved is unlinked from the wrong list, and run.)
NeverRunUnasked == \A t \in Tasks : owed[t] >= 0

Ahead(t, u) ==
    \E l \in Lists : \E i, j \in 1..Len(Chain(l)) :
        i < j /\ Chain(l)[i] = t /\ Chain(l)[j] = u

\* The step leaves two waiting tasks in their order and queues a new one behind
\* those of the manager's list.
QueuedOrder ==
    \A t, u \in Tasks :
        /\ Ahead(t, u) /\ pending'[t] /\ pending'[u] => Ahead(t, u)'
        /\ t \in Linked(Shared) /\ ~pending[u] /\ pending'[u] => Ahead(t, u)'

\* Tasks never change places, also when a list is moved to a runner while
\* others leave it, until a step is taken that goes astray.
InQueuedOrder == [][astray' \/ QueuedOrder]_vars

\* A task that waits is run or dequeued, unless a step goes astray.
EventuallyAnswered == \A t \in Tasks : pending[t] ~> (~pending[t] \/ astray)
=============================================================================
