-------------------------------- MODULE Race --------------------------------
(***************************************************************************)
(* when_all (when_all.hpp) and when_any (when_any.hpp) in its three        *)
(* flavours: one operation that starts several children, is completed by   *)
(* each of them from whatever context the child runs in, and completes its *)
(* own receiver once all of them did.  stop_when and timeout_after are     *)
(* "complete" races of two children.                                       *)
(*                                                                         *)
(* A child's completion is not atomic: it stores, may request the siblings *)
(* to stop, decrements the count and, if it was the last, resets the       *)
(* parent's stop callback and completes the receiver.  Each of these is a  *)
(* step; children and the parent's stop request interleave between them.   *)
(* The operation's own stop source is abstracted to its flag (StopSource   *)
(* has the callbacks): a child that is asked to stop completes when it     *)
(* likes, on any channel.  The memory of the operation is taken to outlive *)
(* a stop request of the parent that has begun.                            *)
(***************************************************************************)
EXTENDS Integers, Sequences, FiniteSets

CONSTANTS
    Children,      \* the child operations
    None,          \* no child
    Shapes         \* which operations to consider: policy and op_state

\* "all": when_all.  The others are the StopPolicy of when_any.
Policies == {"all", "first_successful", "first_noncancelled", "first_complete"}

\* The op_state the sender selects.  "stoppable": op_state.  "unstoppable":
\* nostop_op_state, when no child can be stopped.  "synchronous":
\* sync_op_state, when all children of a when_all complete inside start().
\* "nullary": the specialisation without children.
Variants == {"stoppable", "unstoppable", "synchronous", "nullary"}

ASSUME ChildrenAssumption == IsFiniteSet(Children) /\ Children # {}
ASSUME NoneAssumption == None \notin Children
ASSUME ShapesAssumption ==
    /\ Shapes \subseteq [policy : Policies, variant : Variants]
    /\ \A s \in Shapes : s.variant = "synchronous" => s.policy = "all"

Channels == {"value", "error", "stopped"}

\* What a receiver is completed with.  A when_all that sends the values of
\* all its children sends none of theirs in particular.
Of(c, channel) == [by |-> c, channel |-> channel]
Stopped == Of(None, "stopped")
AllValues == Of(None, "value")

\* set_value with what the storage of a child that sent no value holds.
UnsetValues == Of(None, "unset")

Completions == [by : Children \cup {None}, channel : Channels \cup {"unset"}]

VARIABLES
    shape,         \* the operation's policy and variant
    phase,         \* where start() stands
    linked,        \* stop_cb is in the list of the parent's stop source
    requested,     \* the flag of the operation's own stop_source
    count,         \* the operation's count
    caught,        \* error_op_state::caught_error (when_all)
    stored,        \* the child whose completion is stored
    outcome,       \* per child: the channel it completed on
    order,         \* the children in the order they stored (history)
    pc,            \* per child: where its completion stands
    parentStop,    \* the flag of the parent's stop source
    popped,        \* the parent's request has popped stop_cb and will call it
    completed      \* the completions sent to the receiver (history)

vars == <<shape, phase, linked, requested, count, caught, stored, outcome,
          order, pc, parentStop, popped, completed>>

opVars == <<phase, linked, requested, count>>
storeVars == <<caught, stored, outcome, order>>
parentVars == <<parentStop, popped>>

\* "aborted": the library the code is built with checks the empty optional.
Phases == {"connected", "registered", "starting", "started", "finished", "aborted"}

\* "connected": not started.  "running": started.  "storing": a when_all
\* child that won caught_error and has not emplaced its error.  "stopping":
\* before stop_source.request_stop().  "counting": before --count.
\* "last": decremented to zero.  "sending": stop_cb is reset.
ChildPhases == {"connected", "running", "storing", "stopping", "counting",
                "last", "sending", "done"}

TypeOK ==
    /\ shape \in Shapes
    /\ phase \in Phases
    /\ linked \in BOOLEAN /\ requested \in BOOLEAN /\ caught \in BOOLEAN
    /\ count \in 0..Cardinality(Children)
    /\ stored \in Children \cup {None}
    /\ outcome \in [Children -> Channels \cup {"none"}]
    /\ order \in Seq(Children)
    /\ pc \in [Children -> ChildPhases]
    /\ parentStop \in BOOLEAN /\ popped \in BOOLEAN
    /\ completed \in Seq(Completions)

Init ==
    /\ shape \in Shapes
    /\ phase = "connected"
    /\ linked = FALSE
    /\ requested = FALSE
    /\ count = 0
    /\ caught = FALSE
    /\ stored = None
    /\ outcome = [c \in Children |-> "none"]
    /\ order = <<>>
    /\ pc = [c \in Children |-> "connected"]
    /\ parentStop = FALSE
    /\ popped = FALSE
    /\ completed = <<>>

Is(policy) == shape.policy = policy
Variant(variant) == shape.variant = variant

-----------------------------------------------------------------------------
(* start() *)

\* Faulty: a registration the parent's stop source refuses is ignored.
EmplaceUnchecked ==
    /\ phase = "connected"
    /\ Variant("stoppable")
    /\ linked' = ~parentStop
    /\ phase' = "registered"
    /\ UNCHANGED <<shape, requested, count, storeVars, pc, parentVars, completed>>

\* stop_cb is emplaced: it is linked, or called by its own constructor.
EmplaceCallback ==
    /\ phase = "connected"
    /\ Variant("stoppable")
    /\ linked' = ~parentStop
    /\ requested' = parentStop
    /\ phase' = "registered"
    /\ UNCHANGED <<shape, count, storeVars, pc, parentVars, completed>>

\* Faulty: having completed, start() goes on and starts the children.
RefuseAndStart ==
    /\ phase = "registered"
    /\ requested
    /\ completed' = Append(completed, Stopped)
    /\ count' = Cardinality(Children)
    /\ phase' = "starting"
    /\ UNCHANGED <<shape, linked, requested, storeVars, pc, parentVars>>

\* The stop was requested before the children were started: they never are.
Refuse ==
    /\ phase = "registered"
    /\ requested
    /\ completed' = Append(completed, Stopped)
    /\ phase' = "finished"
    /\ UNCHANGED <<shape, linked, requested, count, storeVars, pc, parentVars>>

\* The count is set before any child is started.
Begin ==
    /\ \/ phase = "registered" /\ ~requested
       \/ phase = "connected" /\ shape.variant \in {"unstoppable", "synchronous"}
    /\ count' = IF Variant("synchronous") THEN 0 ELSE Cardinality(Children)
    /\ phase' = "starting"
    /\ UNCHANGED <<shape, linked, requested, storeVars, pc, parentVars, completed>>

\* async::start on the next child, whatever their order.  A synchronous child
\* has completed when its start() returns.
StartChild(c) ==
    /\ phase = "starting"
    /\ pc[c] = "connected"
    /\ Variant("synchronous") => \A d \in Children : pc[d] \in {"connected", "done"}
    /\ pc' = [pc EXCEPT ![c] = "running"]
    /\ phase' = IF \A d \in Children \ {c} : pc[d] # "connected"
                    THEN "started" ELSE phase
    /\ UNCHANGED <<shape, linked, requested, count, storeVars, parentVars, completed>>

\* start() without children: when_all completes at once; when_any waits for
\* the parent's stop, in a callback that its constructor may call.
StartNullary ==
    /\ phase = "connected"
    /\ Variant("nullary")
    /\ IF Is("all")
         THEN /\ completed' = Append(completed,
                                     IF parentStop THEN Stopped ELSE AllValues)
              /\ UNCHANGED linked
         ELSE /\ completed' = IF parentStop THEN Append(completed, Stopped)
                                            ELSE completed
              /\ linked' = ~parentStop
    /\ phase' = IF linked' THEN "started" ELSE "finished"
    /\ UNCHANGED <<shape, requested, count, storeVars, pc, parentVars>>

-----------------------------------------------------------------------------
(* A child completes. *)

\* The channels on which the policy has the siblings stopped.
Decisive ==
    CASE Is("all") -> {"error", "stopped"}
      [] Is("first_successful") -> {"value"}
      [] Is("first_noncancelled") -> {"value", "error"}
      [] Is("first_complete") -> Channels

\* Where a child that completed on a channel goes after storing.  Without a
\* stop source there is nothing to request, and sync_op_state counts nothing.
AfterStoring(channel) ==
    CASE Variant("stoppable") ->
            IF channel \in Decisive THEN "stopping" ELSE "counting"
      [] Variant("unstoppable") -> "counting"
      [] Variant("synchronous") -> "done"

\* The child of an unstoppable operation does not complete with set_stopped.
CompletesOn(c, channel) ==
    /\ pc[c] = "running"
    /\ Variant("unstoppable") => channel # "stopped"
    /\ outcome' = [outcome EXCEPT ![c] = channel]
    /\ order' = Append(order, c)

\* when_all: a value is kept by the child's own storage; set_stopped stores
\* nothing.
NotifyWithoutError(c, channel) ==
    /\ Is("all")
    /\ channel # "error"
    /\ CompletesOn(c, channel)
    /\ pc' = [pc EXCEPT ![c] = AfterStoring(channel)]
    /\ UNCHANGED <<shape, opVars, caught, stored, parentVars, completed>>

\* Faulty: caught_error is set without looking at it.
CatchEveryError(c) ==
    /\ Is("all")
    /\ CompletesOn(c, "error")
    /\ caught' = TRUE
    /\ pc' = [pc EXCEPT ![c] = "storing"]
    /\ UNCHANGED <<shape, opVars, stored, parentVars, completed>>

\* when_all: the first error wins caught_error.
CatchError(c) ==
    /\ Is("all")
    /\ CompletesOn(c, "error")
    /\ caught' = TRUE
    /\ pc' = [pc EXCEPT ![c] = IF caught THEN AfterStoring("error") ELSE "storing"]
    /\ UNCHANGED <<shape, opVars, stored, parentVars, completed>>

\* when_all: the winner emplaces its error.
StoreError(c) ==
    /\ pc[c] = "storing"
    /\ stored' = c
    /\ pc' = [pc EXCEPT ![c] = AfterStoring("error")]
    /\ UNCHANGED <<shape, opVars, caught, outcome, order, parentVars, completed>>

\* when_any: whether a completion replaces the stored one.
ShouldStore(channel) ==
    \/ stored = None
    \/ Is("first_successful") /\ channel = "value" /\ outcome[stored] # "value"
    \/ Is("first_noncancelled") /\ channel # "stopped" /\ outcome[stored] = "stopped"

\* when_any: the critical section of the policy's emplace.
Emplace(c, channel) ==
    /\ ~Is("all")
    /\ CompletesOn(c, channel)
    /\ stored' = IF ShouldStore(channel) THEN c ELSE stored
    /\ pc' = [pc EXCEPT ![c] = AfterStoring(channel)]
    /\ UNCHANGED <<shape, opVars, caught, parentVars, completed>>

\* stop_source.request_stop(): the child still holds its count.
RequestStop(c) ==
    /\ pc[c] = "stopping"
    /\ requested' = TRUE
    /\ pc' = [pc EXCEPT ![c] = "counting"]
    /\ UNCHANGED <<shape, phase, linked, count, storeVars, parentVars, completed>>

\* Faulty: the child stays before its decrement and repeats it.
NotifyTwice(c) ==
    /\ pc[c] = "counting"
    /\ count' = count - 1
    /\ pc' = [pc EXCEPT ![c] = IF count = 1 THEN "last" ELSE "counting"]
    /\ UNCHANGED <<shape, phase, linked, requested, storeVars, parentVars, completed>>

\* --count == 0 is one atomic step; only the last child goes on.
Decrement(c) ==
    /\ pc[c] = "counting"
    /\ count' = count - 1
    /\ pc' = [pc EXCEPT ![c] = IF count = 1 THEN "last" ELSE "done"]
    /\ UNCHANGED <<shape, phase, linked, requested, storeVars, parentVars, completed>>

\* complete(): stop_cb is reset.  Popped by the parent's request, it is not
\* linked any more and is called all the same.
ResetCallback(c) ==
    /\ pc[c] = "last"
    /\ linked' = FALSE
    /\ pc' = [pc EXCEPT ![c] = "sending"]
    /\ UNCHANGED <<shape, phase, requested, count, storeVars, parentVars, completed>>

\* sync_op_state's notify_stopped() is empty: complete() loads the storage of a
\* child that was stopped, with no error to send instead.
StoppedUnnoticed ==
    Variant("synchronous") /\ ~caught /\ \E c \in Children : outcome[c] = "stopped"

\* What complete() may send.  when_all prefers the error to the stop and looks
\* at its own stop source; when_any looks at the parent's token first.  A
\* stopped child that went unnoticed has no values if its sender has none to
\* send; otherwise its empty optional is dereferenced, which is undefined.
Verdicts ==
    CASE Is("all") /\ caught -> {Of(stored, outcome[stored])}
      [] Is("all") /\ ~caught ->
            IF Variant("stoppable") /\ requested THEN {Stopped}
            ELSE {AllValues} \cup {u \in {UnsetValues} : StoppedUnnoticed}
      [] ~Is("all") ->
            IF Variant("stoppable") /\ parentStop
                THEN {Stopped} ELSE {Of(stored, outcome[stored])}

\* complete(): the receiver is completed.
Complete(c) ==
    /\ pc[c] = "sending"
    /\ \E verdict \in Verdicts : completed' = Append(completed, verdict)
    /\ pc' = [pc EXCEPT ![c] = "done"]
    /\ phase' = "finished"
    /\ UNCHANGED <<shape, linked, requested, count, storeVars, parentVars>>

\* sync_op_state: start() completes after the last child, unless the program
\* ends where the empty optional is dereferenced.
CompleteInStart ==
    /\ Variant("synchronous")
    /\ phase = "started"
    /\ \A c \in Children : pc[c] = "done"
    /\ \/ /\ \E verdict \in Verdicts : completed' = Append(completed, verdict)
          /\ phase' = "finished"
       \/ /\ StoppedUnnoticed
          /\ phase' = "aborted"
          /\ UNCHANGED completed
    /\ UNCHANGED <<shape, linked, requested, count, storeVars, pc, parentVars>>

-----------------------------------------------------------------------------
(* The parent's stop source: the exchange, the pop and the call of stop_cb. *)

ParentRequest ==
    /\ ~parentStop
    /\ parentStop' = TRUE
    /\ UNCHANGED <<shape, opVars, storeVars, pc, popped, completed>>

ParentPops ==
    /\ parentStop
    /\ linked
    /\ linked' = FALSE
    /\ popped' = TRUE
    /\ UNCHANGED <<shape, phase, requested, count, storeVars, pc, parentStop, completed>>

\* stop_callback_fn: request the own stop source; without children, complete.
ParentCalls ==
    /\ popped
    /\ popped' = FALSE
    /\ IF Variant("nullary")
         THEN /\ completed' = Append(completed, Stopped)
              /\ phase' = "finished"
              /\ UNCHANGED requested
         ELSE requested' = TRUE /\ UNCHANGED <<completed, phase>>
    /\ UNCHANGED <<shape, linked, count, storeVars, pc, parentStop>>

-----------------------------------------------------------------------------
ChildCompletes(c) ==
    \/ \E channel \in Channels : NotifyWithoutError(c, channel) \/ Emplace(c, channel)
    \/ CatchError(c)

ChildGoesOn(c) ==
    \/ StoreError(c) \/ RequestStop(c) \/ Decrement(c)
    \/ ResetCallback(c) \/ Complete(c)

StartGoesOn ==
    \/ Refuse \/ Begin \/ CompleteInStart
    \/ \E c \in Children : StartChild(c)

Next ==
    \/ EmplaceCallback \/ StartNullary \/ StartGoesOn
    \/ \E c \in Children : ChildCompletes(c) \/ ChildGoesOn(c)
    \/ ParentRequest \/ ParentPops \/ ParentCalls

Spec == Init /\ [][Next]_vars

\* Begun calls go on, and a child that is asked to stop completes.  Nobody
\* has to start the operation, and a child may run forever until it is asked.
Fairness ==
    /\ WF_vars(StartGoesOn)
    /\ WF_vars(ParentPops) /\ WF_vars(ParentCalls)
    /\ \A c \in Children :
        /\ WF_vars(ChildGoesOn(c))
        /\ WF_vars(requested /\ ChildCompletes(c))

FairSpec == Spec /\ Fairness

-----------------------------------------------------------------------------
(* Properties. *)

\* The receiver is completed once, and not before every child that was
\* started is done with the operation: its memory may go then.
CompletesLast ==
    /\ Len(completed) <= 1
    /\ completed # <<>> => \/ \A c \in Children : pc[c] = "connected"
                           \/ \A c \in Children : pc[c] = "done"

\* c was the first child to store a completion on one of the channels.
IsFirst(c, channels) ==
    \E i \in DOMAIN order :
        /\ order[i] = c
        /\ outcome[c] \in channels
        /\ \A j \in 1..(i - 1) : outcome[order[j]] \notin channels

Some(channel) == \E c \in Children : outcome[c] = channel

\* The channels from which the first completion is reported.
Preferred ==
    CASE Is("all") -> {"error"}
      [] Is("first_successful") /\ Some("value") -> {"value"}
      [] Is("first_noncancelled") /\ (Some("value") \/ Some("error")) ->
            {"value", "error"}
      [] OTHER -> Channels

\* A completion that the children's completions and the stops account for.
Justified(sent) ==
    \/ /\ sent.by # None
       /\ sent.channel = outcome[sent.by]
       /\ IsFirst(sent.by, Preferred)
    \/ /\ sent = AllValues
       /\ Is("all")
       /\ \A c \in Children : outcome[c] = "value"
    \/ /\ sent = Stopped
       /\ Variant("stoppable")
       /\ IF Is("all") THEN ~Some("error") /\ (parentStop \/ Some("stopped"))
                       ELSE parentStop

\* What the receiver gets is what the policy promises: the first completion on
\* a channel it prefers; all values, if every child of a when_all succeeded;
\* set_stopped, if a stop was the reason.  One case is excluded by name: a
\* when_all of synchronous children one of which was stopped (StoppedUnnoticed);
\* SendsOnlyValuesSent says what goes wrong there.  Of first_successful, where no
\* child succeeds, the code prefers no channel; its comment promises more, which
\* FirstErrorIsReported states.
FollowsPolicy ==
    completed # <<>> /\ (\A c \in Children : pc[c] = "done") /\ ~StoppedUnnoticed
        => Justified(completed[1])

\* Once a decisive completion or the parent's stop comes, the siblings are
\* stopped and the operation completes, wherever start() and the other
\* completions stand.
EndsOnceDecided ==
    (/\ phase # "connected"
     /\ shape.variant \in {"stoppable", "nullary"}
     /\ parentStop \/ \E c \in Children : outcome[c] \in Decisive)
        ~> completed # <<>>

\* "after they all complete, forwards all the values": what a when_all sends as
\* values are values that every child has sent.
SendsOnlyValuesSent ==
    Is("all") /\ completed # <<>> /\ completed[1] \in {AllValues, UnsetValues}
        => \A c \in Children : outcome[c] = "value"

\* "If no senders complete successfully, the first error is reported."
FirstErrorIsReported ==
    Is("first_successful") /\ completed # <<>> /\ ~parentStop /\ ~Some("value")
        /\ Some("error") => completed[1].channel = "error"
=============================================================================
