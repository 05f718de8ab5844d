------------------------------- MODULE Timer -------------------------------
(***************************************************************************)
(* What a timer promises its users, without queue, alarm or counter: a     *)
(* task that was accepted with a deadline is started at most once, not     *)
(* before that deadline and not before a task with an earlier one, unless  *)
(* it is cancelled first; and the clock never restarts under a deadline.   *)
(***************************************************************************)
EXTENDS Integers

CONSTANTS Tasks, Servers, NoTask, Times

Never == -1      \* the deadline of a task that is not scheduled

VARIABLES
    deadline,    \* per task: when it is due, or Never
    running,     \* per server: the task it runs, or NoTask
    now

vars == <<deadline, running, now>>

Init ==
    /\ deadline = [t \in Tasks |-> Never]
    /\ running = [s \in Servers |-> NoTask]
    /\ now = 0

Scheduled == {t \in Tasks : deadline[t] # Never}

\* Accepting the first deadline may restart the clock.
Accept(t, e) ==
    /\ deadline[t] = Never
    /\ deadline' = [deadline EXCEPT ![t] = e]
    /\ \/ now' = now
       \/ Scheduled = {} /\ now' = 0
    /\ UNCHANGED running

Withdraw(t) ==
    /\ deadline[t] # Never
    /\ deadline' = [deadline EXCEPT ![t] = Never]
    /\ UNCHANGED <<running, now>>

Start(s, t) ==
    /\ running[s] = NoTask
    /\ t \in Scheduled
    /\ deadline[t] <= now
    /\ \A u \in Scheduled : deadline[t] <= deadline[u]
    /\ deadline' = [deadline EXCEPT ![t] = Never]
    /\ running' = [running EXCEPT ![s] = t]
    /\ UNCHANGED now

End(s) ==
    /\ running[s] # NoTask
    /\ running' = [running EXCEPT ![s] = NoTask]
    /\ UNCHANGED <<deadline, now>>

Advance ==
    /\ now' = now + 1
    /\ UNCHANGED <<deadline, running>>

Next ==
    \/ \E t \in Tasks, e \in Times : Accept(t, e)
    \/ \E t \in Tasks : Withdraw(t)
    \/ \E s \in Servers, t \in Tasks : Start(s, t)
    \/ \E s \in Servers : End(s)
    \/ Advance

Spec == Init /\ [][Next]_vars
=============================================================================
