----------------------------- MODULE SchedulerOp -----------------------------
(***************************************************************************)
(* The op_states of time_scheduler, trigger_scheduler and                  *)
(* fixed_priority_scheduler, in memory that may be used again: start(),    *)
(* which another context may overtake, run() from the manager's service    *)
(* routine, and a stop requested of the operation's stop source.           *)
(*                                                                         *)
(* The manager is the set of the operations in its queue; the modules of   *)
(* the managers show that it pops and cancels what is queued, atomically   *)
(* (a trigger's operation that run<deferred> has moved is not cancelled).  *)
(* A completion is recorded in "done"; the module that composes this one   *)
(* says what becomes of the operation.                                     *)
(***************************************************************************)
EXTENDS Integers

CONSTANTS
    Calls,       \* calls of start()
    Slots        \* memory for op_states, each with its stop source

Kinds == {"time", "trigger", "priority"}

VARIABLES
    kind,        \* the scheduler
    stoppable,   \* can the receiver's token be stopped
    at,          \* per call of start(): where it stands
    queued,      \* the operations in the manager's queue
    serving,     \* per slot: where the service routine stands
    requested,   \* the slots whose stop source's flag is set
    linked,      \* the slots whose stop_cb is in its source's list
    engaged,     \* the slots whose optional stop_cb says that it has a value
    drain,       \* per slot: where request_stop stands
    done         \* per slot: what its operation has sent to its receiver

opVars == <<kind, stoppable, at, queued, serving, requested, linked, engaged, drain, done>>

\* "popped": the service routine has taken the operation from the queue.
\* "cleared": run() of the trigger's operation has reset stop_cb.
ServingPhases == {"no", "popped", "cleared"}

\* "draining": before the next get_next_cb.  "popped": holds stop_cb.
\* "completing": stop_cb's set_stopped is running.
DrainPhases == {"idle", "draining", "popped", "completing"}

OpTypeOK ==
    /\ kind \in Kinds
    /\ stoppable \in BOOLEAN
    /\ queued \subseteq Slots
    /\ serving \in [Slots -> ServingPhases]
    /\ requested \subseteq Slots
    /\ linked \subseteq Slots
    /\ engaged \subseteq Slots
    /\ drain \in [Slots -> DrainPhases]
    /\ done \in [Slots -> {"no", "value", "stopped"}]

OpInit ==
    /\ kind \in Kinds
    /\ stoppable \in BOOLEAN
    /\ at = [c \in Calls |-> "idle"]
    /\ queued = {}
    /\ serving = [s \in Slots |-> "no"]
    /\ requested = {}
    /\ linked = {}
    /\ engaged = {}
    /\ drain = [s \in Slots |-> "idle"]
    /\ done = [s \in Slots |-> "no"]

\* Do start() and the manager have a stop_cb to deal with?
HasCallback == stoppable /\ kind # "priority"

StopRequested(s) == stoppable /\ s \in requested

\* The receiver gets a completion.
Send(s, channel) ==
    done' = [done EXCEPT ![s] = IF @ = "no" THEN channel ELSE "again"]

\* What stop_cb does: complete as stopped what could be cancelled.
CancelAndSend(s) ==
    /\ s \in queued
    /\ queued' = queued \ {s}
    /\ Send(s, "stopped")

Moves(c, to) == at' = [at EXCEPT ![c] = to]

\* optional::reset: the callback's destructor unlinks it.
ResetCallback(s) ==
    /\ linked' = IF s \in engaged THEN linked \ {s} ELSE linked
    /\ engaged' = engaged \ {s}

\* The op_state and its stop source are constructed in the slot.
ConstructOp(s) ==
    /\ queued' = queued \ {s}
    /\ requested' = requested \ {s}
    /\ linked' = linked \ {s}
    /\ engaged' = engaged \ {s}
    /\ done' = [done EXCEPT ![s] = "no"]
    /\ UNCHANGED <<kind, stoppable, serving, drain>>

\* The op_state is destroyed, and stop_cb with it.
DestroyOp(s) ==
    /\ ResetCallback(s)
    /\ UNCHANGED <<kind, stoppable, at, queued, serving, requested, drain, done>>

-----------------------------------------------------------------------------
(* start() *)

\* The stop was requested before: nothing is scheduled.
StartStopped(c, s) ==
    /\ at[c] = "ready"
    /\ StopRequested(s)
    /\ Send(s, "stopped")
    /\ Moves(c, "returned")
    /\ UNCHANGED <<kind, stoppable, queued, serving, requested, linked, engaged, drain>>

StartUnstopped(c, s) ==
    /\ at[c] = "ready"
    /\ ~StopRequested(s)
    /\ Moves(c, "checked")
    /\ UNCHANGED <<kind, stoppable, queued, serving, requested, linked, engaged, drain, done>>

\* The operation enters the manager's queue.
Enqueue(c, s) ==
    /\ at[c] = "checked"
    /\ queued' = queued \cup {s}
    /\ Moves(c, IF HasCallback THEN "enqueued" ELSE "returned")
    /\ UNCHANGED <<kind, stoppable, serving, requested, linked, engaged, drain, done>>

\* optional::emplace: what the optional held is destroyed, and the callback's
\* constructor links stop_cb.
EmplaceLinked(c, s) ==
    /\ at[c] = "enqueued"
    /\ s \notin requested
    /\ linked' = linked \cup {s}
    /\ engaged' = engaged \ {s}
    /\ Moves(c, "emplacing")
    /\ UNCHANGED <<kind, stoppable, queued, serving, requested, drain, done>>

\* Faulty: a callback that the source refuses is not called.
EmplaceIgnoresRefusal(c, s) ==
    /\ at[c] = "enqueued"
    /\ s \in requested
    /\ ResetCallback(s)
    /\ Moves(c, "emplacing")
    /\ UNCHANGED <<kind, stoppable, queued, serving, requested, drain, done>>

\* The constructor finds that the stop was requested, and will call stop_cb itself.
EmplaceRefused(c, s) ==
    /\ at[c] = "enqueued"
    /\ s \in requested
    /\ ResetCallback(s)
    /\ Moves(c, "calling")
    /\ UNCHANGED <<kind, stoppable, queued, serving, requested, drain, done>>

\* stop_cb is called by its constructor.
CallInConstructor(c, s) ==
    /\ at[c] = "calling"
    /\ \/ CancelAndSend(s) /\ Moves(c, "completing")
       \/ s \notin queued /\ Moves(c, "emplacing") /\ UNCHANGED <<queued, done>>
    /\ UNCHANGED <<kind, stoppable, serving, requested, linked, engaged, drain>>

\* set_stopped, and all that it leads to, has returned to the constructor.
ReturnToConstructor(c) ==
    /\ at[c] = "completing"
    /\ Moves(c, "emplacing")
    /\ UNCHANGED <<kind, stoppable, queued, serving, requested, linked, engaged, drain, done>>

\* The constructor has returned: the optional is marked as engaged, wherever the
\* operation is by now, and start() returns.
EndEmplace(c, s) ==
    /\ at[c] = "emplacing"
    /\ engaged' = engaged \cup {s}
    /\ Moves(c, "returned")
    /\ UNCHANGED <<kind, stoppable, queued, serving, requested, linked, drain, done>>

-----------------------------------------------------------------------------
(* run(), called by the manager's service routine. *)

\* The service routine takes the operation from its queue.
Pop(s) ==
    /\ s \in queued
    /\ serving[s] = "no"
    /\ queued' = queued \ {s}
    /\ serving' = [serving EXCEPT ![s] = "popped"]
    /\ UNCHANGED <<kind, stoppable, at, requested, linked, engaged, drain, done>>

\* run() of the trigger's op_state resets stop_cb first.
ClearCallback(s) ==
    /\ kind = "trigger"
    /\ serving[s] = "popped"
    /\ serving' = [serving EXCEPT ![s] = "cleared"]
    /\ ResetCallback(s)
    /\ UNCHANGED <<kind, stoppable, at, queued, requested, drain, done>>

\* run() completes; only the priority's op_state looks for a stop again.
Run(s) ==
    /\ serving[s] = IF kind = "trigger" THEN "cleared" ELSE "popped"
    /\ serving' = [serving EXCEPT ![s] = "no"]
    /\ Send(s, IF kind = "priority" /\ StopRequested(s) THEN "stopped" ELSE "value")
    /\ UNCHANGED <<kind, stoppable, at, queued, requested, linked, engaged, drain>>

-----------------------------------------------------------------------------
(* request_stop() of the operation's stop source. *)

RequestStop(s) ==
    /\ s \notin requested
    /\ requested' = requested \cup {s}
    /\ drain' = [drain EXCEPT ![s] = "draining"]
    /\ UNCHANGED <<kind, stoppable, at, queued, serving, linked, engaged, done>>

PopCallback(s) ==
    /\ drain[s] = "draining"
    /\ s \in linked
    /\ linked' = linked \ {s}
    /\ drain' = [drain EXCEPT ![s] = "popped"]
    /\ UNCHANGED <<kind, stoppable, at, queued, serving, requested, engaged, done>>

\* stop_cb is called; the trigger's resets itself first.
CallCallback(s) ==
    /\ drain[s] = "popped"
    /\ \/ /\ CancelAndSend(s)
          /\ drain' = [drain EXCEPT ![s] = "completing"]
       \/ /\ s \notin queued
          /\ drain' = [drain EXCEPT ![s] = "draining"]
          /\ UNCHANGED <<queued, done>>
    /\ IF kind = "trigger" THEN ResetCallback(s) ELSE UNCHANGED <<linked, engaged>>
    /\ UNCHANGED <<kind, stoppable, at, serving, requested>>

\* set_stopped, and all that it leads to, has returned.
CallReturns(s) ==
    /\ drain[s] = "completing"
    /\ drain' = [drain EXCEPT ![s] = "draining"]
    /\ UNCHANGED <<kind, stoppable, at, queued, serving, requested, linked, engaged, done>>

\* The list is empty: request_stop returns.
Drained(s) ==
    /\ drain[s] = "draining"
    /\ s \notin linked
    /\ drain' = [drain EXCEPT ![s] = "idle"]
    /\ UNCHANGED <<kind, stoppable, at, queued, serving, requested, linked, engaged, done>>
=============================================================================
