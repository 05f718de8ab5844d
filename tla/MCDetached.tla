------------------------------ MODULE MCDetached ------------------------------
(* The instances of Detached that TLC checks. *)
EXTENDS Detached, TLC

Symmetry == Permutations(Calls)
=============================================================================
