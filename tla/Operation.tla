------------------------------ MODULE Operation ------------------------------
(***************************************************************************)
(* What start_detached promises of its operations: at most limit of them   *)
(* are alive, one is refused only when that many are, a living one ends    *)
(* once, and it ends stopped only if somebody asked it to stop.            *)
(***************************************************************************)
EXTENDS Integers, FiniteSets

CONSTANTS
    Calls,     \* calls of start_detached
    Limits     \* the allocation limits to choose from

VARIABLES
    limit,     \* allocation_limit of the allocation domain
    state,     \* per call: its operation
    asked      \* the calls whose operation has been asked to stop

vars == <<limit, state, asked>>

Channels == {"value", "stopped"}

Alive == {c \in Calls : state[c] = "alive"}

Init ==
    /\ limit \in Limits
    /\ state = [c \in Calls |-> "idle"]
    /\ asked = {}

\* The call gets memory for its operation.
Begin(c) ==
    /\ state[c] = "idle"
    /\ Cardinality(Alive) < limit
    /\ state' = [state EXCEPT ![c] = "alive"]
    /\ UNCHANGED <<limit, asked>>

\* The call returns an empty optional.
Refuse(c) ==
    /\ state[c] = "idle"
    /\ Cardinality(Alive) = limit
    /\ state' = [state EXCEPT ![c] = "refused"]
    /\ UNCHANGED <<limit, asked>>

\* stop_detached() returns true.
Ask(c) ==
    /\ state[c] = "alive"
    /\ c \notin asked
    /\ asked' = asked \cup {c}
    /\ UNCHANGED <<limit, state>>

\* The operation has completed on the channel and its memory is free again.
End(c, channel) ==
    /\ state[c] = "alive"
    /\ channel = "stopped" => c \in asked
    /\ state' = [state EXCEPT ![c] = channel]
    /\ UNCHANGED <<limit, asked>>

Next ==
    \E c \in Calls :
        \/ Begin(c)
        \/ Refuse(c)
        \/ Ask(c)
        \/ \E channel \in Channels : End(c, channel)

Spec == Init /\ [][Next]_vars
=============================================================================
