------------------------------ MODULE MCRunLoop ------------------------------
(* The instances of RunLoopTasks that TLC checks. *)
EXTENDS RunLoopTasks, TLC
=============================================================================
