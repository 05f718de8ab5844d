--------------------------- MODULE MCTimerManager ---------------------------
(* The instances of TimerManager that TLC checks. *)
EXTENDS TimerManager, TLC

Symmetry == Permutations(Tasks) \cup Permutations(Servers)
=============================================================================
