------------------------------- MODULE MCRace -------------------------------
(* The instances of Race that TLC checks. *)
EXTENDS Race, TLC

\* Every operation the two headers define.
AllShapes ==
    {s \in [policy : Policies, variant : Variants] :
        s.variant = "synchronous" => s.policy = "all"}

\* first_successful alone.
Successful == {[policy |-> "first_successful", variant |-> "stoppable"]}

\* sync_op_state alone.
Synchronous == {[policy |-> "all", variant |-> "synchronous"]}
=============================================================================
