----------------------------- MODULE RunLoopTasks -----------------------------
(***************************************************************************)
(* Several operations use one run loop (runloop_scheduler.hpp): any        *)
(* context starts them, which pushes them onto the loop, and any context   *)
(* may call finish(), also from within an operation that is executed.      *)
(***************************************************************************)
EXTENDS RunLoop, SequencesExt

CONSTANT Variants  \* the values of cv that are considered

VARIABLES
    pushed,        \* per loop: the operations in the order of push_back() (history)
    executed       \* per loop: the operations in the order of execute() (history)

vars == <<loopVars, pushed, executed>>

Init ==
    /\ LoopInit
    /\ cv \in Variants
    /\ pushed = Fresh.tasks
    /\ executed = Fresh.tasks

Pushed(t) == \E l \in Loops : t \in Range(pushed[l])

\* op_state::start().  The bound: an operation is started once.  A loop that has
\* run to its end is not used again.
start(l, t) ==
    /\ ~Pushed(t)
    /\ runner[l] # "ended"
    /\ push_back(l, t)
    /\ pushed' = [pushed EXCEPT ![l] = Append(@, t)]
    /\ UNCHANGED executed

Finish(l) ==
    /\ runner[l] # "ended"
    /\ ~done[l]
    /\ finish(l)
    /\ UNCHANGED <<pushed, executed>>

Run(l) ==
    /\ run(l) \/ Wait(l) \/ pop_front(l)
    /\ UNCHANGED <<pushed, executed>>

\* Whatever an operation starts or finishes comes before its execute() returns.
Execute(l) ==
    /\ runner[l] = "executing"
    /\ executed' = [executed EXCEPT ![l] = Append(@, task[l])]
    /\ Executed(l)
    /\ UNCHANGED <<done, pushed>>

Next ==
    \E l \in Loops :
        \/ \E t \in Tasks : start(l, t)
        \/ Finish(l) \/ Run(l) \/ Execute(l)

\* The context that owns a loop runs it.
FairSpec ==
    /\ Init /\ [][Next]_vars
    /\ \A l \in Loops : WF_vars(Run(l)) /\ WF_vars(Execute(l))

-----------------------------------------------------------------------------
(* Properties *)

\* The operations are executed in the order in which they were pushed, and none
\* is lost: what is not executed yet is being executed or is still in the list.
InOrder ==
    \A l \in Loops :
        pushed[l] =
            executed[l] \o (IF runner[l] = "executing" THEN <<task[l]>> ELSE <<>>) \o tasks[l]

\* What was pushed before the loop ended is executed, though finish() may have
\* been called already and the list may have been empty at the last test.
EventuallyExecuted ==
    \A t \in Tasks : Pushed(t) ~> \E l \in Loops : t \in Range(executed[l])
=============================================================================
