--------------------------- MODULE MCTaskManager ---------------------------
(* The instances of TaskManager that TLC checks. *)
EXTENDS TaskManager, TLC
=============================================================================
