-------------------------- MODULE MCTriggerManager --------------------------
(* The instances of TriggerManager that TLC checks. *)
EXTENDS TriggerManager, TLC

\* Without interrupts: tasks are enqueued and dequeued only by what a task
\* calls, or while no run() goes on.
Called == pending' # pending /\ pc' = pc => \A r \in Runners : pc[r] \in {"idle", "running"}
OneContextSpec == Init /\ [][Next /\ Called]_vars
=============================================================================
