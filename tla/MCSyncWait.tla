----------------------------- MODULE MCSyncWait -----------------------------
(* The instances of SyncWait that TLC checks. *)
EXTENDS SyncWait, TLC
=============================================================================
