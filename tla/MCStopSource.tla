---------------------------- MODULE MCStopSource ----------------------------
(* The instances of StopSource that TLC checks. *)
EXTENDS StopSource, TLC
=============================================================================
