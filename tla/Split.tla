-------------------------------- MODULE Split --------------------------------
(***************************************************************************)
(* The split of a single-shot sender (split.hpp): every receiver gets what *)
(* the one shared operation completes with.  All state is static: the      *)
(* shared operation, its stop source, what it sent, and the list of the    *)
(* operations to notify, newest first.                                     *)
(*                                                                         *)
(* Nothing protects that state: its users have to serialise start() with   *)
(* the completion of the shared operation, which a stop request may cause  *)
(* even so.  The actions leave it to their user what a receiver does.      *)
(***************************************************************************)
EXTENDS Sequences, SequencesExt, Naturals

CONSTANTS
    Receivers,     \* one operation state per receiver
    Nobody         \* no receiver

VARIABLES
    single,        \* the shared operation
    values,        \* what it sent, on which channel
    linked,        \* linked_ops and the next_ops that follow
    cursor,        \* notify(): the operation it is at, and what is next there
    source,        \* the flag of the shared stop_source
    registered,    \* per receiver: stop_cb is emplaced
    asked,         \* per receiver: its stop token is requested to stop
    starts         \* how often the shared operation was started (history)

splitVars == <<single, values, linked, cursor, source, registered, asked, starts>>

SplitChannels == {"value", "error", "stopped"}
At(r, phase) == [at |-> r, phase |-> phase]
Idle == At(Nobody, "none")

SplitTypeOK ==
    /\ single \in {"none", "connected", "started", "completed"}
    /\ values \in SplitChannels \cup {"none"}
    /\ source \in BOOLEAN
    /\ linked \in Seq(Receivers)
    /\ cursor \in [at : Receivers \cup {Nobody}, phase : {"none", "complete", "next"}]
    /\ registered \in [Receivers -> BOOLEAN]
    /\ asked \in [Receivers -> BOOLEAN]
    /\ starts \in Nat
    /\ single = "completed" <=> values # "none"
    /\ cursor # Idle => cursor.at \in Range(linked)

SplitInit ==
    /\ single = "none"
    /\ values = "none"
    /\ linked = <<>>
    /\ cursor = Idle
    /\ source = FALSE
    /\ registered = [r \in Receivers |-> FALSE]
    /\ asked = [r \in Receivers |-> FALSE]
    /\ starts = 0

\* Faulty: what the previous operation sent is still there.
ResetKeepsValues ==
    /\ single' = "none"
    /\ linked' = <<>>
    /\ asked' = [r \in Receivers |-> FALSE]
    /\ starts' = 0
    /\ UNCHANGED <<values, source, registered>>

\* split() at the same place again: reset() leaves the stop source as it is.
reset ==
    /\ single' = "none"
    /\ values' = "none"
    /\ linked' = <<>>
    /\ asked' = [r \in Receivers |-> FALSE]
    /\ starts' = 0
    /\ UNCHANGED <<source, registered>>

\* connect(): the first one connects the shared operation.
connect ==
    /\ single' = IF single = "none" THEN "connected" ELSE single
    /\ UNCHANGED <<values, linked, cursor, source, registered, asked, starts>>

\* complete(): the receiver gets what the shared operation sent.
complete(r) ==
    /\ values # "none"
    /\ registered' = [registered EXCEPT ![r] = FALSE]

\* start(), when the shared operation has completed.
StartCompleted(r) ==
    /\ complete(r)
    /\ UNCHANGED <<single, values, linked, cursor, source, asked, starts>>

\* start(): stop_cb is emplaced, and called at once if stop was requested.
StartRegisters(r) ==
    /\ values = "none"
    /\ registered' = [registered EXCEPT ![r] = TRUE]
    /\ source' = (source \/ asked[r])
    /\ UNCHANGED <<single, values, linked, cursor, asked, starts>>

\* start(): the shared operation is asked to stop, and so the receiver is
\* stopped and not linked.
StartStopped(r) ==
    /\ source
    /\ UNCHANGED splitVars

\* Faulty: every receiver starts the shared operation.
StartsAgain(r) ==
    /\ ~source
    /\ linked' = <<r>> \o linked
    /\ single' = "started"
    /\ starts' = starts + 1
    /\ UNCHANGED <<values, cursor, source, registered, asked>>

\* start(): the first receiver that is linked starts the shared operation.
StartLinks(r) ==
    /\ ~source
    /\ linked' = <<r>> \o linked
    /\ single' = IF linked = <<>> THEN "started" ELSE single
    /\ starts' = IF linked = <<>> THEN starts + 1 ELSE starts
    /\ UNCHANGED <<values, cursor, source, registered, asked>>

\* single_receiver: set_value, set_error, set_stopped.
SingleCompletes(c) ==
    /\ single = "started"
    /\ single' = "completed"
    /\ values' = c
    /\ cursor' = At(Head(linked), "complete")
    /\ UNCHANGED <<linked, source, registered, asked, starts>>

NotifyCompletes(r) ==
    /\ cursor = At(r, "complete")
    /\ complete(r)
    /\ cursor' = At(r, "next")
    /\ UNCHANGED <<single, values, linked, source, asked, starts>>

\* The operation after r in the list.
next_ops(r) ==
    LET i == CHOOSE n \in DOMAIN linked : linked[n] = r
    IN  IF i = Len(linked) THEN Nobody ELSE linked[i + 1]

\* notify(): next_ops is read after the receiver was completed.
NotifyNext ==
    /\ cursor.phase = "next"
    /\ cursor' = IF next_ops(cursor.at) = Nobody THEN Idle
                 ELSE At(next_ops(cursor.at), "complete")
    /\ UNCHANGED <<single, values, linked, source, registered, asked, starts>>

\* notify() reads nothing where next_ops was.
NotifyLost ==
    /\ cursor.phase = "next"
    /\ cursor' = Idle
    /\ UNCHANGED <<single, values, linked, source, registered, asked, starts>>

\* The receiver's stop token is requested to stop.
request_stop(r) ==
    /\ ~asked[r]
    /\ asked' = [asked EXCEPT ![r] = TRUE]
    /\ source' = (source \/ registered[r])
    /\ UNCHANGED <<single, values, linked, cursor, registered, starts>>

\* stop_cb's destructor.
destroy(r) == registered' = [registered EXCEPT ![r] = FALSE]
=============================================================================
