------------------------------- MODULE Detached -------------------------------
(***************************************************************************)
(* start_detached and stop_detached over the static_allocator: the calls   *)
(* with one name and one type of sender share its slots.  Each gets a      *)
(* slot, constructs its operation there, publishes its stop source if      *)
(* there is only one slot, and starts it; the operation releases its own   *)
(* slot when it completes.                                                 *)
(*                                                                         *)
(* stop_detached requests the stop inside the critical section in which    *)
(* the pointer to the stop source is written.  A completion in the stop    *)
(* callback enters it again, which the concurrency policy must allow.      *)
(***************************************************************************)
EXTENDS SchedulerOp, FiniteSets

CONSTANTS
    None,            \* no slot, no call
    Limits,          \* the allocation limits to choose from
    Overtakes        \* may the service routine take an operation whose start()
                     \* has not returned

ASSUME SlotsAssumption ==
    /\ Slots \subseteq Nat \ {0}
    /\ Limits \subseteq Nat
    /\ \A n \in Limits : 1..n \subseteq Slots
ASSUME NoneAssumption == None \notin Calls \cup Slots
ASSUME OvertakesAssumption == Overtakes \in BOOLEAN

VARIABLES
    limit,           \* allocation_limit of the domain
    owner,           \* per slot: the call that holds it (the bit "used")
    slot,            \* per call: the memory it was given
    dying,           \* per slot: where die() stands
    stopSourceFor,   \* the slot whose stop source is published
    asked,           \* the calls whose operations were stopped (history)
    outcome          \* per call: how its operation ended (history)

domainVars == <<limit, owner, slot, dying, stopSourceFor, asked, outcome>>
vars == <<opVars, domainVars>>

\* "claimed": the slot is reserved.  "constructed": so is the operation.
\* "ready": before start().  "returned": start_detached has returned.
CallPhases == {"idle", "refused", "claimed", "constructed", "ready", "checked",
               "enqueued", "calling", "completing", "emplacing", "returned"}

\* "completed": in the receiver.  "retracted": the pointer is reset.
\* "destroyed": the destructor has run.
DyingPhases == {"no", "completed", "retracted", "destroyed"}

TypeOK ==
    /\ OpTypeOK
    /\ at \in [Calls -> CallPhases]
    /\ limit \in Limits
    /\ owner \in [Slots -> Calls \cup {None}]
    /\ slot \in [Calls -> 1..limit \cup {None}]
    /\ dying \in [Slots -> DyingPhases]
    /\ stopSourceFor \in Slots \cup {None}
    /\ asked \subseteq Calls
    /\ outcome \in [Calls -> {"none", "value", "stopped"}]

Init ==
    /\ OpInit
    /\ limit \in Limits
    /\ owner = [s \in Slots |-> None]
    /\ slot = [c \in Calls |-> None]
    /\ dying = [s \in Slots |-> "no"]
    /\ stopSourceFor = None
    /\ asked = {}
    /\ outcome = [c \in Calls |-> "none"]

\* use_single_stop_source
UseSingle == stoppable /\ limit = 1

\* Faulty: the pointer is written outside of the critical section.
NeverLocked == TRUE

\* Nobody is in the critical section that guards the published pointer.
Unlocked == \A s \in Slots : drain[s] = "idle"

Free == {s \in 1..limit : owner[s] = None}

-----------------------------------------------------------------------------
(* start_detached *)

\* The allocator takes the lowest free slot.
Claim(c) ==
    /\ at[c] = "idle"
    /\ \E s \in Free :
        /\ \A r \in Free : s <= r
        /\ owner' = [owner EXCEPT ![s] = c]
        /\ slot' = [slot EXCEPT ![c] = s]
    /\ Moves(c, "claimed")
    /\ UNCHANGED <<kind, stoppable, queued, serving, requested, linked, engaged, drain, done,
                   limit, dying, stopSourceFor, asked, outcome>>

\* All slots are taken: the call returns an empty optional.
Refuse(c) ==
    /\ at[c] = "idle"
    /\ Free = {}
    /\ Moves(c, "refused")
    /\ UNCHANGED <<kind, stoppable, queued, serving, requested, linked, engaged, drain, done,
                   domainVars>>

Construct(c) ==
    /\ at[c] = "claimed"
    /\ ConstructOp(slot[c])
    /\ Moves(c, "constructed")
    /\ UNCHANGED domainVars

\* set_stop_source: the pointer is written in the critical section.
Publish(c) ==
    /\ at[c] = "constructed"
    /\ UseSingle => Unlocked
    /\ stopSourceFor' = IF UseSingle THEN slot[c] ELSE stopSourceFor
    /\ Moves(c, "ready")
    /\ UNCHANGED <<kind, stoppable, queued, serving, requested, linked, engaged, drain, done,
                   limit, owner, slot, dying, asked, outcome>>

\* An operation that has completed in this step goes on with die().
Completes ==
    dying' = [s \in Slots |-> IF done'[s] # done[s] THEN "completed" ELSE dying[s]]

OpStep(A) ==
    /\ A
    /\ Completes
    /\ UNCHANGED <<limit, owner, slot, stopSourceFor, asked, outcome>>

Start(c) ==
    OpStep(\/ StartStopped(c, slot[c])
           \/ StartUnstopped(c, slot[c])
           \/ Enqueue(c, slot[c])
           \/ EmplaceLinked(c, slot[c])
           \/ EmplaceRefused(c, slot[c])
           \/ CallInConstructor(c, slot[c])
           \/ ReturnToConstructor(c) /\ owner[slot[c]] # c
           \/ EndEmplace(c, slot[c]))

Service(s) ==
    OpStep(\/ /\ \/ Overtakes
                 \/ \A c \in Calls : slot[c] = s =>
                        at[c] \notin {"enqueued", "calling", "emplacing"}
              /\ Pop(s)
           \/ ClearCallback(s)
           \/ Run(s))

-----------------------------------------------------------------------------
(* stop_detached: it returns TRUE, having stopped the published operation. *)

StopDetached ==
    /\ Unlocked
    /\ stopSourceFor # None
    /\ RequestStop(stopSourceFor)
    /\ asked' = asked \cup {owner[stopSourceFor]}
    /\ UNCHANGED <<limit, owner, slot, dying, stopSourceFor, outcome>>

Draining(s) ==
    OpStep(\/ PopCallback(s)
           \/ CallCallback(s)
           \/ dying[s] = "no" /\ CallReturns(s)
           \/ Drained(s))

-----------------------------------------------------------------------------
(* die(): what the receiver of a detached operation does on any completion. *)

\* Faulty: the pointer is left for the next operation.
RetractNothing(s) ==
    /\ dying[s] = "completed"
    /\ dying' = [dying EXCEPT ![s] = "retracted"]
    /\ UNCHANGED <<opVars, limit, owner, slot, stopSourceFor, asked, outcome>>

\* set_stop_source(nullptr), which stop_detached's own completion re-enters.
Retract(s) ==
    /\ dying[s] = "completed"
    /\ UseSingle => Unlocked \/ drain[s] = "completing"
    /\ stopSourceFor' = IF UseSingle THEN None ELSE stopSourceFor
    /\ dying' = [dying EXCEPT ![s] = "retracted"]
    /\ UNCHANGED <<opVars, limit, owner, slot, asked, outcome>>

Destroy(s) ==
    /\ dying[s] = "retracted"
    /\ DestroyOp(s)
    /\ dying' = [dying EXCEPT ![s] = "destroyed"]
    /\ UNCHANGED <<limit, owner, slot, stopSourceFor, asked, outcome>>

\* The allocator's bit is reset.
Release(s) ==
    /\ dying[s] = "destroyed"
    /\ outcome' = [outcome EXCEPT ![owner[s]] = done[s]]
    /\ owner' = [owner EXCEPT ![s] = None]
    /\ dying' = [dying EXCEPT ![s] = "no"]
    /\ UNCHANGED <<opVars, limit, slot, stopSourceFor, asked>>

Die(s) == Retract(s) \/ Destroy(s) \/ Release(s)

-----------------------------------------------------------------------------

Detach(c) == Claim(c) \/ Refuse(c) \/ Construct(c) \/ Publish(c) \/ Start(c)

Next ==
    \/ \E c \in Calls : Detach(c)
    \/ StopDetached
    \/ \E s \in Slots : Service(s) \/ Draining(s) \/ Die(s)

Spec == Init /\ [][Next]_vars

\* A call that has begun goes on; so do a service routine, a request and a
\* completion.  A priority's interrupt is served; no timer expires and no
\* trigger fires for sure.
Fairness ==
    /\ \A c \in Calls : WF_vars(at[c] # "idle" /\ Detach(c))
    /\ \A s \in Slots :
        /\ WF_vars((kind = "priority" \/ serving[s] # "no") /\ Service(s))
        /\ WF_vars(Draining(s))
        /\ WF_vars(Die(s))

FairSpec == Spec /\ Fairness

-----------------------------------------------------------------------------
(* Properties *)

\* The operations of the calls, as their callers see them.
State(c) ==
    CASE at[c] \in {"idle", "refused"} -> at[c]
      [] \E s \in Slots : owner[s] = c -> "alive"
      [] OTHER -> outcome[c]

Promised == INSTANCE Operation WITH state <- [c \in Calls |-> State(c)]

\* start_detached keeps its promise: two living operations never share a slot,
\* a call is refused only when all slots are taken, an operation ends once, and
\* stopped only if it was stopped itself, not one before it in the same slot.
IsOperation == Promised!Spec

\* What stop_detached dereferences: the published stop source is that of the
\* living operation, from before its start() until it has completed and nobody
\* is going through its callbacks.
PointerIsCurrent ==
    UseSingle =>
        /\ stopSourceFor # None =>
               /\ owner[stopSourceFor] # None
               /\ at[owner[stopSourceFor]] \notin {"claimed", "constructed"}
               /\ dying[stopSourceFor] \in {"no", "completed"}
        /\ \A c \in Calls :
               /\ at[c] \in {"ready", "checked", "enqueued", "calling"}
               /\ \A s \in Slots : dying[s] = "no"
               => stopSourceFor = slot[c]

\* Slots, operations and the published pointer agree.
Consistent == TypeOK /\ PointerIsCurrent

\* A stop that stop_detached accepted ends the operation, though no timer
\* expires and no trigger fires; the request may fall at any point of start().
StopEnds == \A c \in Calls : c \in asked ~> outcome[c] # "none"

\* "Operation states are concrete objects whose lifetime covers the asynchronous
\* work": start() has to do only with an operation that still exists,
StartStaysInLifetime ==
    \A c \in Calls : at[c] \in {"enqueued", "calling", "emplacing"} => owner[slot[c]] = c

\* its last write, which marks stop_cb as engaged, included, even where nothing
\* but a stop can overtake it.
EmplaceEndsInLifetime ==
    \A c \in Calls : at[c] = "emplacing" => owner[slot[c]] = c
=============================================================================
