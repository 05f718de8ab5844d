---------------------------- MODULE DetachedProofs ----------------------------
(***************************************************************************)
(* Theorems about Detached, for every set of calls, every number of slots  *)
(* and every kind of scheduler, where the service routine does not         *)
(* overtake start().                                                       *)
(***************************************************************************)
EXTENDS Detached, FiniteSetTheorems, TLAPS

USE SlotsAssumption, NoneAssumption, OvertakesAssumption

Undetached == {"idle", "refused"}
Building == {"claimed", "constructed"}
InStart == {"ready", "checked", "enqueued", "calling"}
Started == {"completing", "emplacing", "returned"}

\* A call and the slot it holds name each other, from the claim to the release.
OwnersAgree ==
    /\ \A s \in Slots : owner[s] # None =>
           slot[owner[s]] = s /\ at[owner[s]] \notin Undetached
    /\ \A c \in Calls :
           /\ at[c] \in Building \cup InStart => slot[c] # None /\ owner[slot[c]] = c
           /\ at[c] \in Undetached <=> slot[c] = None

\* Before start() schedules it, an operation is neither queued nor served, and
\* its stop callback is not linked: nothing is left of the one before it.
SlotStartsFresh ==
    \A s \in Slots :
        owner[s] = None \/ at[owner[s]] \in {"claimed", "constructed", "ready", "checked"} =>
            /\ dying[s] = "no"
            /\ s \notin queued /\ s \notin linked
            /\ serving[s] = "no"
            /\ drain[s] # "popped"

\* Whoever may complete the operation, the manager's queue or the service
\* routine, has it alone, and it is not completed yet.
CompletedOnce ==
    \A s \in Slots :
        /\ s \in queued => serving[s] = "no" /\ dying[s] = "no"
        /\ serving[s] # "no" => dying[s] = "no" /\ at[owner[s]] = "returned"
        /\ owner[s] # None /\ at[owner[s]] # "claimed" =>
               (done[s] = "no" <=> dying[s] = "no")
        /\ dying[s] # "no" => at[owner[s]] \in Started
        /\ owner[s] # None /\ at[owner[s]] = "completing" => dying[s] # "no"

\* stop_cb is linked at the end of start() and unlinked by the destructor, which
\* knows of it once emplace has marked it; before that nothing but the stop that
\* has unlinked it completes the operation.
CallbackIsOwned ==
    \A s \in Slots :
        /\ s \in linked =>
               /\ at[owner[s]] \in {"emplacing", "returned"} /\ dying[s] # "destroyed"
               /\ s \in engaged \/ (at[owner[s]] = "emplacing" /\ dying[s] = "no")
        /\ drain[s] = "popped" =>
               at[owner[s]] \in {"emplacing", "returned"} /\ s \notin linked

\* A request goes through the callbacks of the operation it was made for; it
\* outlives that operation only behind the completion that it caused itself.
DrainIsCurrent ==
    \A s \in Slots :
        /\ drain[s] # "idle" => UseSingle /\ s \in 1..limit
        /\ drain[s] = "completing" /\ owner[s] # None =>
               at[owner[s]] \in Building \/ dying[s] # "no"
        /\ dying[s] \in {"retracted", "destroyed"} => drain[s] \in {"idle", "completing"}

\* The flag of a slot's stop source says whether its call was asked to stop.
FlagIsAsked ==
    /\ \A s \in Slots : owner[s] # None =>
           /\ at[owner[s]] = "constructed" => s \notin requested
           /\ at[owner[s]] = "calling" => s \in requested
           /\ at[owner[s]] \in InStart \cup Started =>
                  (s \in requested <=> owner[s] \in asked)
           /\ drain[s] \in {"draining", "popped"} /\ at[owner[s]] \notin Building =>
                  owner[s] \in asked
           /\ dying[s] # "no" /\ done[s] = "stopped" => owner[s] \in asked
    /\ \A c \in asked : at[c] \in InStart \cup Started

\* The stop source is published from set_stop_source() to die().
PointerIsPublished ==
    /\ ~UseSingle => stopSourceFor = None
    /\ UseSingle => \A s \in Slots : stopSourceFor = s <=>
           /\ owner[s] # None
           /\ at[owner[s]] \in InStart \cup Started
           /\ dying[s] \in {"no", "completed"}

IInv ==
    /\ TypeOK
    /\ OwnersAgree
    /\ SlotStartsFresh
    /\ CompletedOnce
    /\ CallbackIsOwned
    /\ DrainIsCurrent
    /\ FlagIsAsked
    /\ PointerIsPublished

USE DEF Undetached, Building, InStart, Started

-----------------------------------------------------------------------------
(* Each action preserves the invariant. *)

\* What the rest of the proofs use of a call that has begun.
LEMMA CallHasSlot ==
    ASSUME IInv, NEW c \in Calls, at[c] \in Building \cup InStart
    PROVE  /\ slot[c] \in 1..limit /\ slot[c] \in Slots
           /\ owner[slot[c]] = c
           /\ \A s \in Slots : owner[s] = c <=> s = slot[c]
<1>1. slot[c] # None /\ owner[slot[c]] = c /\ c # None
  BY DEF IInv, OwnersAgree
<1>2. slot[c] \in 1..limit /\ 1..limit \subseteq Slots
  BY <1>1 DEF IInv, TypeOK
<1>3. \A s \in Slots : owner[s] = c => slot[c] = s
  BY <1>1 DEF IInv, OwnersAgree
<1> QED BY <1>1, <1>2, <1>3

LEMMA ClaimKeepsInvariant ==
    ASSUME IInv, NEW c \in Calls, Claim(c)
    PROVE  IInv'
<1> USE DEF IInv
<1>0. PICK s \in Free : /\ owner' = [owner EXCEPT ![s] = c]
                        /\ slot' = [slot EXCEPT ![c] = s]
  BY DEF Claim
<1>1. /\ at[c] = "idle" /\ at' = [at EXCEPT ![c] = "claimed"]
      /\ UNCHANGED <<kind, stoppable, queued, serving, requested, linked, engaged, drain, done,
                     limit, dying, stopSourceFor, asked, outcome>>
  BY DEF Claim, Moves
<1>2. s \in Slots /\ s \in 1..limit /\ owner[s] = None /\ c # None
  BY <1>0 DEF Free, TypeOK
<1>3. /\ \A r \in Slots : owner[r] # c
      /\ \A r \in Slots : owner'[r] = IF r = s THEN c ELSE owner[r]
      /\ \A d \in Calls : slot'[d] = IF d = c THEN s ELSE slot[d]
      /\ \A d \in Calls : at'[d] = IF d = c THEN "claimed" ELSE at[d]
  BY <1>0, <1>1, <1>2 DEF TypeOK, OwnersAgree
<1>4. TypeOK'
  BY <1>0, <1>1, <1>2 DEF TypeOK, OpTypeOK, CallPhases
<1>5. OwnersAgree'
  BY <1>1, <1>2, <1>3 DEF TypeOK, OwnersAgree
<1>6. SlotStartsFresh' /\ CompletedOnce'
  BY <1>1, <1>2, <1>3 DEF TypeOK, OwnersAgree, SlotStartsFresh, CompletedOnce
<1>7. CallbackIsOwned' /\ DrainIsCurrent'
  BY <1>1, <1>2, <1>3 DEF TypeOK, SlotStartsFresh, CallbackIsOwned, DrainIsCurrent, UseSingle
<1>8. FlagIsAsked' /\ PointerIsPublished'
  BY <1>1, <1>2, <1>3
     DEF TypeOK, SlotStartsFresh, FlagIsAsked, PointerIsPublished, UseSingle
<1> QED BY <1>4, <1>5, <1>6, <1>7, <1>8

LEMMA RefuseKeepsInvariant ==
    ASSUME IInv, NEW c \in Calls, Refuse(c)
    PROVE  IInv'
<1> USE DEF IInv
<1>1. /\ at[c] = "idle" /\ at' = [at EXCEPT ![c] = "refused"]
      /\ UNCHANGED <<kind, stoppable, queued, serving, requested, linked, engaged, drain, done,
                     domainVars>>
  BY DEF Refuse, Moves
<1>2. /\ \A r \in Slots : owner[r] # c
      /\ \A d \in Calls : at'[d] = IF d = c THEN "refused" ELSE at[d]
  BY <1>1 DEF TypeOK, OwnersAgree
<1>3. \A r \in Slots : owner[r] # None => at'[owner[r]] = at[owner[r]]
  BY <1>2 DEF TypeOK
<1>4. TypeOK' /\ OwnersAgree'
  BY <1>1, <1>2, <1>3 DEF TypeOK, OpTypeOK, CallPhases, OwnersAgree, domainVars
<1>5. SlotStartsFresh' /\ CompletedOnce'
  BY <1>1, <1>3 DEF TypeOK, SlotStartsFresh, CompletedOnce, domainVars
<1>6. CallbackIsOwned' /\ DrainIsCurrent'
  BY <1>1, <1>3 DEF TypeOK, SlotStartsFresh, CallbackIsOwned, DrainIsCurrent,
                    UseSingle, domainVars
<1>7. FlagIsAsked' /\ PointerIsPublished'
  BY <1>1, <1>2, <1>3 DEF TypeOK, FlagIsAsked, PointerIsPublished, UseSingle, domainVars
<1> QED BY <1>4, <1>5, <1>6, <1>7

LEMMA ConstructKeepsInvariant ==
    ASSUME IInv, NEW c \in Calls, Construct(c)
    PROVE  IInv'
<1> USE DEF IInv
<1> DEFINE s == slot[c]
<1>1. /\ at[c] = "claimed" /\ at' = [at EXCEPT ![c] = "constructed"]
      /\ queued' = queued \ {s} /\ requested' = requested \ {s}
      /\ linked' = linked \ {s} /\ engaged' = engaged \ {s}
      /\ done' = [done EXCEPT ![s] = "no"]
      /\ UNCHANGED <<kind, stoppable, serving, drain>>
      /\ UNCHANGED <<limit, owner, slot, dying, stopSourceFor, asked, outcome>>
  BY DEF Construct, ConstructOp, Moves, domainVars
<1>2. /\ s \in Slots /\ owner[s] = c /\ s \in 1..limit
      /\ \A r \in Slots : owner[r] = c <=> r = s
  BY <1>1, CallHasSlot
<1>3. \A r \in Slots : r # s /\ owner[r] # None => at'[owner[r]] = at[owner[r]]
  BY <1>1, <1>2 DEF TypeOK, OpTypeOK
<1>4. at'[owner[s]] = "constructed" /\ owner[s] # None
  BY <1>1, <1>2 DEF TypeOK, OpTypeOK
<1> HIDE DEF s
<1>5. TypeOK'
  BY <1>1, <1>2 DEF TypeOK, OpTypeOK, CallPhases
<1>6. OwnersAgree'
  BY <1>1, <1>2, <1>3, <1>4 DEF TypeOK, OwnersAgree, s
<1>7. SlotStartsFresh' /\ CompletedOnce'
  BY <1>1, <1>2, <1>3, <1>4 DEF TypeOK, OpTypeOK, OwnersAgree, SlotStartsFresh, CompletedOnce
<1>8. CallbackIsOwned' /\ DrainIsCurrent'
  BY <1>1, <1>2, <1>3, <1>4
     DEF TypeOK, SlotStartsFresh, CallbackIsOwned, DrainIsCurrent, UseSingle
<1>9. FlagIsAsked' /\ PointerIsPublished'
  BY <1>1, <1>2, <1>3, <1>4
     DEF TypeOK, OpTypeOK, SlotStartsFresh, FlagIsAsked, PointerIsPublished, UseSingle
<1> QED BY <1>5, <1>6, <1>7, <1>8, <1>9

LEMMA PublishKeepsInvariant ==
    ASSUME IInv, NEW c \in Calls, Publish(c)
    PROVE  IInv'
<1> USE DEF IInv
<1> DEFINE s == slot[c]
<1>1. /\ at[c] = "constructed" /\ at' = [at EXCEPT ![c] = "ready"]
      /\ UseSingle => Unlocked
      /\ stopSourceFor' = IF UseSingle THEN s ELSE stopSourceFor
      /\ UNCHANGED <<kind, stoppable, queued, serving, requested, linked, engaged, drain, done,
                     limit, owner, slot, dying, asked, outcome>>
  BY DEF Publish, Moves
<1>2. /\ s \in Slots /\ owner[s] = c /\ s \in 1..limit
      /\ \A r \in Slots : owner[r] = c <=> r = s
  BY <1>1, CallHasSlot
<1>3. \A r \in Slots : r # s /\ owner[r] # None => at'[owner[r]] = at[owner[r]]
  BY <1>1, <1>2 DEF TypeOK, OpTypeOK
<1>4. at'[owner[s]] = "ready" /\ owner[s] # None
  BY <1>1, <1>2 DEF TypeOK, OpTypeOK
<1> HIDE DEF s
<1>5. TypeOK'
  BY <1>1, <1>2 DEF TypeOK, OpTypeOK, CallPhases
<1>6. OwnersAgree'
  BY <1>1, <1>2, <1>3, <1>4 DEF TypeOK, OwnersAgree
<1>7. SlotStartsFresh' /\ CompletedOnce'
  BY <1>1, <1>2, <1>3, <1>4 DEF TypeOK, OpTypeOK, OwnersAgree, SlotStartsFresh, CompletedOnce
<1>8. CallbackIsOwned' /\ DrainIsCurrent'
  BY <1>1, <1>2, <1>3, <1>4
     DEF TypeOK, SlotStartsFresh, CallbackIsOwned, DrainIsCurrent, UseSingle, Unlocked
<1>9. FlagIsAsked'
  BY <1>1, <1>2, <1>3, <1>4
     DEF TypeOK, OpTypeOK, SlotStartsFresh, DrainIsCurrent, FlagIsAsked, UseSingle, Unlocked
<1>10. PointerIsPublished'
  <2>1. UseSingle => \A r \in Slots : r # s => owner[r] = None
    BY <1>2 DEF TypeOK, OwnersAgree, UseSingle
  <2> QED BY <1>1, <1>2, <1>3, <1>4, <2>1
          DEF SlotStartsFresh, PointerIsPublished, UseSingle
<1> QED BY <1>5, <1>6, <1>7, <1>8, <1>9, <1>10

\* start(): the receiver is stopped, the operation is scheduled, or stop_cb is
\* emplaced and, if the source refuses it, called.
LEMMA StartKeepsInvariant ==
    ASSUME IInv, NEW c \in Calls, Start(c), at[c] \in InStart
    PROVE  IInv'
<1> USE DEF IInv
<1> DEFINE s == slot[c]
<1>1. /\ at[c] \in InStart
      /\ Completes
      /\ UNCHANGED <<kind, stoppable, serving, requested, drain>>
      /\ UNCHANGED <<limit, owner, slot, stopSourceFor, asked, outcome>>
  BY DEF Start, OpStep, StartStopped, StartUnstopped, Enqueue, EmplaceLinked,
         EmplaceRefused, CallInConstructor, ReturnToConstructor, EndEmplace
<1>2. /\ s \in Slots /\ owner[s] = c /\ s \in 1..limit
      /\ \A r \in Slots : owner[r] = c <=> r = s
      /\ owner[s] # None
  BY <1>1, CallHasSlot
<1>3. /\ at[owner[s]] \in InStart
      /\ dying[s] = "no" /\ done[s] = "no" /\ serving[s] = "no" /\ s \notin linked
      /\ drain[s] # "popped"
  BY <1>1, <1>2 DEF CompletedOnce, CallbackIsOwned, TypeOK, OpTypeOK, ServingPhases
<1> HIDE DEF s
<1>4. CASE StartUnstopped(c, s) \/ Enqueue(c, s)
  <2>1. /\ \E x \in {"checked", "enqueued", "returned"} :
              /\ at' = [at EXCEPT ![c] = x]
              /\ queued' = IF x = "checked" THEN queued ELSE queued \cup {s}
              /\ x = "checked" => at[c] = "ready"
        /\ UNCHANGED <<linked, engaged, done>>
    <3>1. CASE StartUnstopped(c, s)
      BY <3>1 DEF StartUnstopped, Moves
    <3>2. CASE Enqueue(c, s)
      BY <3>2 DEF Enqueue, Moves
    <3> QED BY <1>4, <3>1, <3>2
  <2>2. /\ \A r \in Slots : r # s /\ owner[r] # None => at'[owner[r]] = at[owner[r]]
        /\ at'[owner[s]] \in {"checked", "enqueued", "returned"}
        /\ dying' = dying
    BY <1>1, <1>2, <2>1 DEF TypeOK, Completes
  <2>5. TypeOK'
    BY <1>1, <1>2, <1>3, <2>1, <2>2 DEF TypeOK, OpTypeOK, CallPhases, DyingPhases, ServingPhases, DrainPhases
  <2>6. OwnersAgree'
    BY <1>1, <1>2, <1>3, <2>1, <2>2 DEF TypeOK, OwnersAgree
  <2>7. SlotStartsFresh' /\ CompletedOnce'
    <3>1. at'[owner[s]] = "checked" => queued' = queued /\ at[owner[s]] = "ready"
      BY <1>1, <1>2, <2>1 DEF TypeOK
    <3>2. queued \subseteq queued' /\ queued' \subseteq queued \cup {s}
      BY <2>1
    <3>3. SlotStartsFresh'
      <4> SUFFICES ASSUME NEW r \in Slots,
                          \/ owner[r] = None
                          \/ at'[owner[r]] \in {"claimed", "constructed", "ready", "checked"}
                   PROVE  /\ dying[r] = "no"
                          /\ r \notin queued' /\ r \notin linked
                          /\ serving[r] = "no"
                          /\ drain[r] # "popped"
        BY <1>1, <2>1, <2>2 DEF SlotStartsFresh
      <4>1. CASE r = s
        BY <1>2, <1>3, <2>2, <3>1, <4>1 DEF SlotStartsFresh
      <4>2. CASE r # s
        BY <2>2, <3>2, <4>2 DEF SlotStartsFresh
      <4> QED BY <4>1, <4>2
    <3>4. CompletedOnce'
      BY <1>1, <1>2, <1>3, <2>1, <2>2, <3>2 DEF SlotStartsFresh, CompletedOnce
    <3> QED BY <3>3, <3>4
  <2>8. CallbackIsOwned' /\ DrainIsCurrent'
    BY <1>1, <1>2, <1>3, <2>1, <2>2 DEF TypeOK, OpTypeOK, SlotStartsFresh, CompletedOnce, CallbackIsOwned,
           DrainIsCurrent, UseSingle
  <2>9. FlagIsAsked' /\ PointerIsPublished'
    BY <1>1, <1>2, <1>3, <2>1, <2>2 DEF TypeOK, OpTypeOK, SlotStartsFresh, CompletedOnce, CallbackIsOwned,
           DrainIsCurrent, FlagIsAsked, PointerIsPublished, UseSingle
  <2> QED BY <2>5, <2>6, <2>7, <2>8, <2>9
<1>5. CASE StartStopped(c, s) \/ (CallInConstructor(c, s) /\ s \in queued)
  <2>1. /\ \E x \in {"completing", "returned"} : at' = [at EXCEPT ![c] = x]
        /\ queued' = queued \ {s}
        /\ done' = [done EXCEPT ![s] = "stopped"]
        /\ linked' = linked /\ engaged' = engaged
    <3>1. CASE StartStopped(c, s)
      <4>1. s \notin queued
        BY <1>2, <3>1 DEF StartStopped, SlotStartsFresh
      <4> QED BY <1>3, <3>1, <4>1 DEF StartStopped, Send, Moves
    <3>2. CASE CallInConstructor(c, s) /\ s \in queued
      BY <1>3, <3>2 DEF CallInConstructor, CancelAndSend, Send, Moves
    <3> QED BY <1>5, <3>1, <3>2
  <2>2. /\ \A r \in Slots : r # s /\ owner[r] # None => at'[owner[r]] = at[owner[r]]
        /\ at'[owner[s]] \in {"completing", "returned"}
        /\ dying' = [dying EXCEPT ![s] = "completed"]
        /\ c \in asked
    <3>1. dying' = [dying EXCEPT ![s] = "completed"]
      BY <1>1, <1>2, <1>3, <2>1 DEF TypeOK, OpTypeOK, Completes
    <3>2. c \in asked
      BY <1>2, <1>3, <1>5 DEF StartStopped, StopRequested, CallInConstructor, FlagIsAsked
    <3> QED BY <1>1, <1>2, <2>1, <3>1, <3>2 DEF TypeOK
  <2>5. TypeOK'
    BY <1>1, <1>2, <1>3, <2>1, <2>2 DEF TypeOK, OpTypeOK, CallPhases, DyingPhases, ServingPhases, DrainPhases
  <2>6. OwnersAgree'
    BY <1>1, <1>2, <1>3, <2>1, <2>2 DEF TypeOK, OwnersAgree
  <2>7. SlotStartsFresh' /\ CompletedOnce'
    BY <1>1, <1>2, <1>3, <2>1, <2>2 DEF TypeOK, OpTypeOK, OwnersAgree, SlotStartsFresh, CompletedOnce, CallbackIsOwned
  <2>8. CallbackIsOwned' /\ DrainIsCurrent'
    BY <1>1, <1>2, <1>3, <2>1, <2>2 DEF TypeOK, OpTypeOK, SlotStartsFresh, CompletedOnce, CallbackIsOwned,
           DrainIsCurrent, UseSingle
  <2>9. FlagIsAsked' /\ PointerIsPublished'
    BY <1>1, <1>2, <1>3, <2>1, <2>2 DEF TypeOK, OpTypeOK, SlotStartsFresh, CompletedOnce, CallbackIsOwned,
           DrainIsCurrent, FlagIsAsked, PointerIsPublished, UseSingle
  <2> QED BY <2>5, <2>6, <2>7, <2>8, <2>9
<1>6. CASE \/ EmplaceLinked(c, s) \/ EmplaceRefused(c, s)
           \/ (CallInConstructor(c, s) /\ s \notin queued)
  <2>1. /\ \E x \in {"calling", "emplacing"} :
              /\ at' = [at EXCEPT ![c] = x]
              /\ x = "calling" => s \in requested /\ linked' = linked
              /\ linked' \in {linked, linked \cup {s}}
              /\ engaged' \in {engaged, engaged \ {s}}
        /\ UNCHANGED <<queued, done>>
    <3>1. CASE EmplaceLinked(c, s)
      BY <3>1 DEF EmplaceLinked, Moves
    <3>2. CASE EmplaceRefused(c, s)
      BY <1>3, <3>2 DEF EmplaceRefused, ResetCallback, Moves
    <3>3. CASE CallInConstructor(c, s) /\ s \notin queued
      BY <3>3 DEF CallInConstructor, CancelAndSend, Moves
    <3> QED BY <1>6, <3>1, <3>2, <3>3
  <2>2. /\ \A r \in Slots : r # s /\ owner[r] # None => at'[owner[r]] = at[owner[r]]
        /\ at'[owner[s]] \in {"calling", "emplacing"}
        /\ dying' = dying
    BY <1>1, <1>2, <2>1 DEF TypeOK, Completes
  <2>5. TypeOK'
    BY <1>1, <1>2, <1>3, <2>1, <2>2 DEF TypeOK, OpTypeOK, CallPhases, DyingPhases, ServingPhases, DrainPhases
  <2>6. OwnersAgree'
    BY <1>1, <1>2, <1>3, <2>1, <2>2 DEF TypeOK, OwnersAgree
  <2>7. SlotStartsFresh' /\ CompletedOnce'
    BY <1>1, <1>2, <1>3, <2>1, <2>2 DEF TypeOK, OpTypeOK, OwnersAgree, SlotStartsFresh, CompletedOnce, CallbackIsOwned
  <2>8. CallbackIsOwned' /\ DrainIsCurrent'
    BY <1>1, <1>2, <1>3, <2>1, <2>2 DEF TypeOK, OpTypeOK, SlotStartsFresh, CompletedOnce, CallbackIsOwned,
           DrainIsCurrent, UseSingle
  <2>9. FlagIsAsked' /\ PointerIsPublished'
    BY <1>1, <1>2, <1>3, <2>1, <2>2 DEF TypeOK, OpTypeOK, SlotStartsFresh, CompletedOnce, CallbackIsOwned,
           DrainIsCurrent, FlagIsAsked, PointerIsPublished, UseSingle
  <2> QED BY <2>5, <2>6, <2>7, <2>8, <2>9
<1>7. ~(ReturnToConstructor(c) \/ EndEmplace(c, s))
  BY DEF ReturnToConstructor, EndEmplace
<1> QED BY <1>4, <1>5, <1>6, <1>7 DEF Start, OpStep, s

\* start() ends: if the operation has ended before, it marks the optional of
\* another one, or of none, whose callback is linked by then, or not yet built.
LEMMA EndKeepsInvariant ==
    ASSUME IInv, NEW c \in Calls, Start(c), at[c] \notin InStart
    PROVE  IInv'
<1> USE DEF IInv
<1> DEFINE s == slot[c]
<1>1. /\ UNCHANGED <<kind, stoppable, queued, serving, requested, linked, drain, done>>
      /\ UNCHANGED <<limit, owner, slot, stopSourceFor, asked, outcome>>
      /\ Completes
      /\ \/ /\ at[c] = "completing" /\ at' = [at EXCEPT ![c] = "emplacing"]
            /\ owner[s] # c /\ engaged' = engaged
         \/ /\ at[c] = "emplacing" /\ at' = [at EXCEPT ![c] = "returned"]
            /\ engaged' = engaged \cup {s}
  BY DEF Start, OpStep, StartStopped, StartUnstopped, Enqueue, EmplaceLinked,
         EmplaceRefused, CallInConstructor, ReturnToConstructor, EndEmplace, Moves
<1>2. /\ dying' = dying /\ s \in Slots
      /\ \A r \in Slots : owner[r] = c => r = s
  BY <1>1 DEF TypeOK, OwnersAgree, Completes
<1>3. /\ \A r \in Slots : owner[r] # None =>
              \/ at'[owner[r]] = at[owner[r]]
              \/ r = s /\ at[owner[r]] = "emplacing" /\ at'[owner[r]] = "returned"
      /\ s \in engaged' \/ (engaged' = engaged /\ owner[s] # c)
      /\ engaged \subseteq engaged'
  BY <1>1, <1>2 DEF TypeOK
<1> HIDE DEF s
<1>4. TypeOK' /\ OwnersAgree'
  <2>1. TypeOK'
    BY <1>1, <1>2 DEF TypeOK, OpTypeOK, CallPhases
  <2>2. \A d \in Calls : at'[d] = at[d] \/ (at[d] \in Started /\ at'[d] \in Started)
    BY <1>1 DEF TypeOK
  <2> QED BY <1>1, <2>1, <2>2 DEF OwnersAgree, TypeOK
<1>5. SlotStartsFresh' /\ CompletedOnce'
  BY <1>1, <1>2, <1>3 DEF TypeOK, SlotStartsFresh, CompletedOnce
<1>6. CallbackIsOwned' /\ DrainIsCurrent'
  <2>1. CallbackIsOwned'
    <3> SUFFICES ASSUME NEW r \in Slots
                 PROVE  /\ r \in linked =>
                             /\ at'[owner[r]] \in {"emplacing", "returned"}
                             /\ dying[r] # "destroyed"
                             /\ \/ r \in engaged'
                                \/ at'[owner[r]] = "emplacing" /\ dying[r] = "no"
                        /\ drain[r] = "popped" =>
                             at'[owner[r]] \in {"emplacing", "returned"} /\ r \notin linked
      BY <1>1, <1>2 DEF CallbackIsOwned
    <3>1. r \in linked \/ drain[r] = "popped" => owner[r] # None
      BY DEF SlotStartsFresh
    <3> QED BY <1>1, <1>2, <1>3, <3>1 DEF CallbackIsOwned, TypeOK
  <2>2. DrainIsCurrent'
    BY <1>1, <1>2, <1>3 DEF DrainIsCurrent, UseSingle
  <2> QED BY <2>1, <2>2
<1>7. FlagIsAsked' /\ PointerIsPublished'
  <2>1. \A d \in Calls : at'[d] = at[d] \/ (at[d] \in Started /\ at'[d] \in Started)
    BY <1>1 DEF TypeOK
  <2>2. FlagIsAsked'
    BY <1>1, <1>2, <1>3, <2>1 DEF TypeOK, FlagIsAsked
  <2>3. PointerIsPublished'
    BY <1>1, <1>2, <1>3 DEF TypeOK, PointerIsPublished, UseSingle
  <2> QED BY <2>2, <2>3
<1> QED BY <1>4, <1>5, <1>6, <1>7

\* The service routine takes the operation from the queue and completes it.
LEMMA ServiceKeepsInvariant ==
    ASSUME IInv, ~Overtakes, NEW s \in Slots, Service(s)
    PROVE  IInv'
<1> USE DEF IInv
<1>1. /\ Completes
      /\ UNCHANGED <<kind, stoppable, at, requested, drain>>
      /\ UNCHANGED <<limit, owner, slot, stopSourceFor, asked, outcome>>
  BY DEF Service, OpStep, Pop, ClearCallback, Run
<1>2. /\ owner[s] # None /\ at[owner[s]] = "returned"
      /\ owner[s] \in Calls /\ s \in 1..limit
  <2>1. CASE s \in queued
    <3>1. owner[s] # None /\ slot[owner[s]] = s /\ owner[s] \in Calls
      BY <2>1 DEF SlotStartsFresh, OwnersAgree, TypeOK
    <3>2. at[owner[s]] \in {"enqueued", "calling", "emplacing", "returned"}
      BY <2>1, <3>1 DEF SlotStartsFresh, OwnersAgree, TypeOK, CallPhases, CompletedOnce
    <3>3. at[owner[s]] \notin {"enqueued", "calling", "emplacing"}
      BY <2>1, <3>1 DEF Service, OpStep, Pop, ClearCallback, Run, CompletedOnce
    <3> QED BY <3>1, <3>2, <3>3 DEF TypeOK
  <2>2. CASE serving[s] # "no"
    <3>1. owner[s] # None /\ slot[owner[s]] = s /\ owner[s] \in Calls
      BY <2>2 DEF SlotStartsFresh, OwnersAgree, TypeOK
    <3> QED BY <2>2, <3>1 DEF CompletedOnce, TypeOK
  <2> QED BY <2>1, <2>2 DEF Service, OpStep, Pop, ClearCallback, Run
<1>3. dying[s] = "no" /\ done[s] = "no"
  BY <1>2 DEF CompletedOnce, Service, OpStep, Pop, ClearCallback, Run
<1>4. CASE Pop(s) \/ ClearCallback(s)
  <2>1. /\ serving' \in {[serving EXCEPT ![s] = "popped"], [serving EXCEPT ![s] = "cleared"]}
        /\ queued' = queued \ {s} /\ done' = done
        /\ linked' \subseteq linked /\ engaged' \subseteq engaged
        /\ linked \ {s} \subseteq linked' /\ engaged \ {s} \subseteq engaged'
        /\ s \in engaged' \/ s \notin linked'
    BY <1>2, <1>4 DEF Pop, ClearCallback, ResetCallback, CompletedOnce, CallbackIsOwned
  <2>2. dying' = dying
    BY <1>1, <2>1 DEF TypeOK, Completes
  <2>5. TypeOK'
    BY <1>1, <1>2, <1>3, <2>1, <2>2 DEF TypeOK, OpTypeOK, CallPhases, DyingPhases, ServingPhases, DrainPhases
  <2>6. OwnersAgree'
    BY <1>1, <1>2, <1>3, <2>1, <2>2 DEF TypeOK, OwnersAgree
  <2>7. SlotStartsFresh' /\ CompletedOnce'
    BY <1>1, <1>2, <1>3, <2>1, <2>2 DEF TypeOK, OpTypeOK, OwnersAgree, SlotStartsFresh, CompletedOnce, CallbackIsOwned
  <2>8. CallbackIsOwned' /\ DrainIsCurrent'
    BY <1>1, <1>2, <1>3, <2>1, <2>2 DEF TypeOK, OpTypeOK, SlotStartsFresh, CompletedOnce, CallbackIsOwned,
           DrainIsCurrent, UseSingle
  <2>9. FlagIsAsked' /\ PointerIsPublished'
    BY <1>1, <1>2, <1>3, <2>1, <2>2 DEF TypeOK, OpTypeOK, SlotStartsFresh, CompletedOnce, CallbackIsOwned,
           DrainIsCurrent, FlagIsAsked, PointerIsPublished, UseSingle
  <2> QED BY <2>5, <2>6, <2>7, <2>8, <2>9
<1>5. CASE Run(s)
  <2>1. /\ serving' = [serving EXCEPT ![s] = "no"]
        /\ UNCHANGED <<queued, linked, engaged>>
        /\ \E x \in {"value", "stopped"} :
              /\ x = "stopped" => s \in requested
              /\ done' = [done EXCEPT ![s] = x]
    BY <1>3, <1>5 DEF Run, Send, StopRequested
  <2>2. /\ dying' = [dying EXCEPT ![s] = "completed"]
        /\ s \notin queued
    <3>1. dying' = [dying EXCEPT ![s] = "completed"]
      BY <1>1, <1>3, <2>1 DEF TypeOK, OpTypeOK, Completes
    <3>2. serving[s] # "no"
      BY <1>5 DEF Run
    <3> QED BY <3>1, <3>2 DEF CompletedOnce
  <2>5. TypeOK'
    BY <1>1, <1>2, <1>3, <2>1, <2>2 DEF TypeOK, OpTypeOK, CallPhases, DyingPhases, ServingPhases, DrainPhases
  <2>6. OwnersAgree'
    BY <1>1, <1>2, <1>3, <2>1, <2>2 DEF TypeOK, OwnersAgree
  <2>7. SlotStartsFresh' /\ CompletedOnce'
    BY <1>1, <1>2, <1>3, <2>1, <2>2 DEF TypeOK, OpTypeOK, OwnersAgree, SlotStartsFresh, CompletedOnce, CallbackIsOwned
  <2>8. CallbackIsOwned' /\ DrainIsCurrent'
    BY <1>1, <1>2, <1>3, <2>1, <2>2 DEF TypeOK, OpTypeOK, SlotStartsFresh, CompletedOnce, CallbackIsOwned,
           DrainIsCurrent, UseSingle
  <2>9. FlagIsAsked' /\ PointerIsPublished'
    BY <1>1, <1>2, <1>3, <2>1, <2>2 DEF TypeOK, OpTypeOK, SlotStartsFresh, CompletedOnce, CallbackIsOwned,
           DrainIsCurrent, FlagIsAsked, PointerIsPublished, UseSingle
  <2> QED BY <2>5, <2>6, <2>7, <2>8, <2>9
<1> QED BY <1>4, <1>5 DEF Service, OpStep

\* The published stop source belongs to a living operation, nobody else's.
LEMMA StopKeepsInvariant ==
    ASSUME IInv, StopDetached
    PROVE  IInv'
<1> USE DEF IInv
<1> DEFINE s == stopSourceFor
<1>1. /\ Unlocked /\ s # None /\ s \notin requested
      /\ requested' = requested \cup {s}
      /\ drain' = [drain EXCEPT ![s] = "draining"]
      /\ asked' = asked \cup {owner[s]}
      /\ UNCHANGED <<kind, stoppable, at, queued, serving, linked, engaged, done>>
      /\ UNCHANGED <<limit, owner, slot, dying, stopSourceFor, outcome>>
  BY DEF StopDetached, RequestStop
<1>2. /\ UseSingle /\ s \in Slots /\ owner[s] # None /\ owner[s] \in Calls
      /\ at[owner[s]] \in InStart \cup Started
      /\ dying[s] \in {"no", "completed"}
  BY <1>1 DEF TypeOK, PointerIsPublished
<1>3. /\ slot[owner[s]] = s /\ s \in 1..limit
      /\ \A r \in Slots : r # s /\ owner[r] # None => owner[r] # owner[s]
  BY <1>2 DEF TypeOK, OwnersAgree
<1> HIDE DEF s
<1>4. TypeOK' /\ OwnersAgree'
  BY <1>1, <1>2 DEF TypeOK, OpTypeOK, OwnersAgree, DrainPhases
<1>5. SlotStartsFresh' /\ CompletedOnce'
  BY <1>1, <1>2 DEF TypeOK, OpTypeOK, SlotStartsFresh, CompletedOnce
<1>6. CallbackIsOwned' /\ DrainIsCurrent'
  BY <1>1, <1>2, <1>3 DEF TypeOK, OpTypeOK, CallbackIsOwned, DrainIsCurrent, UseSingle
<1>7. FlagIsAsked'
  BY <1>1, <1>2, <1>3 DEF TypeOK, OpTypeOK, FlagIsAsked
<1>8. PointerIsPublished'
  BY <1>1 DEF PointerIsPublished, UseSingle
<1> QED BY <1>4, <1>5, <1>6, <1>7, <1>8

\* request_stop() goes through the callbacks: stop_cb completes what it can
\* still take from the queue.
LEMMA DrainKeepsInvariant ==
    ASSUME IInv, NEW s \in Slots, Draining(s)
    PROVE  IInv'
<1> USE DEF IInv
<1>1. /\ Completes
      /\ UNCHANGED <<kind, stoppable, at, serving, requested>>
      /\ UNCHANGED <<limit, owner, slot, stopSourceFor, asked, outcome>>
  BY DEF Draining, OpStep, PopCallback, CallCallback, CallReturns, Drained
<1>2. drain[s] # "idle" /\ UseSingle /\ s \in 1..limit
  BY DEF Draining, OpStep, PopCallback, CallCallback, CallReturns, Drained, DrainIsCurrent
<1>3. CASE CallCallback(s) /\ s \in queued
  <2>1. /\ drain[s] = "popped" /\ s \in queued
        /\ queued' = queued \ {s} /\ linked' = linked /\ s \notin linked
        /\ engaged' \in {engaged, engaged \ {s}}
        /\ drain' = [drain EXCEPT ![s] = "completing"]
    <3>1. drain[s] = "popped" /\ s \notin linked
      BY <1>3 DEF CallCallback, CallbackIsOwned
    <3>2. queued' = queued \ {s} /\ drain' = [drain EXCEPT ![s] = "completing"]
      BY <1>3 DEF CallCallback, CancelAndSend
    <3>3. linked \ {s} = linked
      BY <3>1
    <3>4. linked' = linked /\ engaged' \in {engaged, engaged \ {s}}
      BY <1>3, <3>3 DEF CallCallback, ResetCallback
    <3> QED BY <1>3, <3>1, <3>2, <3>4
  <2>2. /\ owner[s] # None /\ owner[s] \in Calls /\ at[owner[s]] \in Started
        /\ dying[s] = "no" /\ done[s] = "no" /\ serving[s] = "no"
        /\ owner[s] \in asked
        /\ done' = [done EXCEPT ![s] = "stopped"]
        /\ dying' = [dying EXCEPT ![s] = "completed"]
    <3>1. /\ owner[s] # None /\ owner[s] \in Calls /\ at[owner[s]] \in Started
          /\ dying[s] = "no" /\ serving[s] = "no"
      BY <2>1 DEF TypeOK, SlotStartsFresh, CompletedOnce, CallbackIsOwned
    <3>2. done[s] = "no" /\ owner[s] \in asked
      BY <2>1, <3>1 DEF CompletedOnce, FlagIsAsked
    <3>3. done' = [done EXCEPT ![s] = "stopped"]
      BY <1>3, <3>2 DEF CallCallback, CancelAndSend, Send
    <3>4. dying' = [dying EXCEPT ![s] = "completed"]
      BY <1>1, <3>2, <3>3 DEF TypeOK, OpTypeOK, Completes
    <3> QED BY <3>1, <3>2, <3>3, <3>4
  <2>5. TypeOK'
    BY <1>1, <1>2, <2>1, <2>2 DEF TypeOK, OpTypeOK, DyingPhases, DrainPhases
  <2>6. OwnersAgree'
    BY <1>1, <1>2, <2>1, <2>2 DEF TypeOK, OwnersAgree
  <2>7. SlotStartsFresh' /\ CompletedOnce'
    BY <1>1, <1>2, <2>1, <2>2 DEF TypeOK, OpTypeOK, SlotStartsFresh, CompletedOnce,
           CallbackIsOwned
  <2>8. CallbackIsOwned' /\ DrainIsCurrent'
    BY <1>1, <1>2, <2>1, <2>2 DEF TypeOK, OpTypeOK, SlotStartsFresh, CompletedOnce,
           CallbackIsOwned, DrainIsCurrent, UseSingle
  <2>9. FlagIsAsked' /\ PointerIsPublished'
    BY <1>1, <1>2, <2>1, <2>2 DEF TypeOK, OpTypeOK, SlotStartsFresh, CompletedOnce,
           CallbackIsOwned, DrainIsCurrent, FlagIsAsked, PointerIsPublished, UseSingle
  <2> QED BY <2>5, <2>6, <2>7, <2>8, <2>9
<1>4. CASE PopCallback(s)
  <2>1. /\ s \in linked /\ linked' = linked \ {s} /\ drain[s] = "draining"
        /\ drain' = [drain EXCEPT ![s] = "popped"]
        /\ UNCHANGED <<queued, engaged, done>>
    BY <1>4 DEF PopCallback
  <2>2. /\ dying' = dying
        /\ owner[s] # None /\ at[owner[s]] \in {"emplacing", "returned"}
    <3>1. dying' = dying
      BY <1>1, <2>1 DEF TypeOK, Completes
    <3> QED BY <2>1, <3>1 DEF SlotStartsFresh, CallbackIsOwned
  <2>5. TypeOK'
    BY <1>1, <1>2, <2>1, <2>2 DEF TypeOK, OpTypeOK, DyingPhases, DrainPhases
  <2>6. OwnersAgree'
    BY <1>1, <1>2, <2>1, <2>2 DEF TypeOK, OwnersAgree
  <2>7. SlotStartsFresh' /\ CompletedOnce'
    BY <1>1, <1>2, <2>1, <2>2 DEF TypeOK, OpTypeOK, SlotStartsFresh, CompletedOnce,
           CallbackIsOwned
  <2>8. CallbackIsOwned' /\ DrainIsCurrent'
    BY <1>1, <1>2, <2>1, <2>2 DEF TypeOK, OpTypeOK, SlotStartsFresh, CompletedOnce,
           CallbackIsOwned, DrainIsCurrent, UseSingle
  <2>9. FlagIsAsked' /\ PointerIsPublished'
    BY <1>1, <1>2, <2>1, <2>2 DEF TypeOK, OpTypeOK, SlotStartsFresh, CompletedOnce,
           CallbackIsOwned, DrainIsCurrent, FlagIsAsked, PointerIsPublished, UseSingle
  <2> QED BY <2>5, <2>6, <2>7, <2>8, <2>9
<1>5. CASE \/ CallCallback(s) /\ s \notin queued
           \/ dying[s] = "no" /\ CallReturns(s)
           \/ Drained(s)
  <2>1. /\ \E x \in {"idle", "draining"} :
              /\ drain' = [drain EXCEPT ![s] = x]
              /\ x = "draining" /\ owner[s] # None /\ at[owner[s]] \notin Building =>
                     owner[s] \in asked
              /\ x = "draining" => dying[s] \notin {"retracted", "destroyed"}
        /\ linked' = linked /\ engaged' \in {engaged, engaged \ {s}}
        /\ s \in linked => engaged' = engaged
        /\ UNCHANGED <<queued, done>>
    <3>1. CASE CallCallback(s) /\ s \notin queued
      BY <3>1 DEF CallCallback, CancelAndSend, ResetCallback, FlagIsAsked, DrainIsCurrent,
                  CallbackIsOwned
    <3>2. CASE dying[s] = "no" /\ CallReturns(s)
      BY <3>2 DEF CallReturns, DrainIsCurrent
    <3>3. CASE Drained(s)
      BY <3>3 DEF Drained
    <3> QED BY <1>5, <3>1, <3>2, <3>3
  <2>2. dying' = dying
    BY <1>1, <2>1 DEF TypeOK, Completes
  <2>5. TypeOK'
    BY <1>1, <1>2, <2>1, <2>2 DEF TypeOK, OpTypeOK, DyingPhases, DrainPhases
  <2>6. OwnersAgree'
    BY <1>1, <1>2, <2>1, <2>2 DEF TypeOK, OwnersAgree
  <2>7. SlotStartsFresh' /\ CompletedOnce'
    BY <1>1, <1>2, <2>1, <2>2 DEF TypeOK, OpTypeOK, SlotStartsFresh, CompletedOnce,
           CallbackIsOwned
  <2>8. CallbackIsOwned' /\ DrainIsCurrent'
    BY <1>1, <1>2, <2>1, <2>2 DEF TypeOK, OpTypeOK, SlotStartsFresh, CompletedOnce,
           CallbackIsOwned, DrainIsCurrent, UseSingle
  <2>9. FlagIsAsked' /\ PointerIsPublished'
    BY <1>1, <1>2, <2>1, <2>2 DEF TypeOK, OpTypeOK, SlotStartsFresh, CompletedOnce,
           CallbackIsOwned, DrainIsCurrent, FlagIsAsked, PointerIsPublished, UseSingle
  <2> QED BY <2>5, <2>6, <2>7, <2>8, <2>9
<1> QED BY <1>3, <1>4, <1>5 DEF Draining, OpStep

\* die(): the pointer is reset, the operation destroyed, the slot released.
LEMMA DieKeepsInvariant ==
    ASSUME IInv, NEW s \in Slots, Die(s)
    PROVE  IInv'
<1> USE DEF IInv
<1>1. /\ UNCHANGED <<kind, stoppable, at, queued, serving, requested, drain, done>>
      /\ UNCHANGED <<limit, slot, asked>>
  BY DEF Die, Retract, Destroy, DestroyOp, Release, opVars, ResetCallback
<1>2. /\ dying[s] # "no" /\ owner[s] # None /\ owner[s] \in Calls
      /\ at[owner[s]] \in Started /\ s \notin queued /\ serving[s] = "no"
      /\ slot[owner[s]] = s /\ s \in 1..limit
  <2>1. dying[s] # "no"
    BY DEF Die, Retract, Destroy, Release
  <2> QED BY <2>1 DEF SlotStartsFresh, CompletedOnce, OwnersAgree, TypeOK
<1>3. CASE Retract(s)
  <2>1. /\ dying[s] = "completed"
        /\ dying' = [dying EXCEPT ![s] = "retracted"]
        /\ stopSourceFor' = IF UseSingle THEN None ELSE stopSourceFor
        /\ UNCHANGED <<owner, linked, engaged, outcome>>
    BY <1>3 DEF Retract, opVars
  <2>2. /\ drain[s] \in {"idle", "completing"}
        /\ UseSingle => \A r \in Slots : r # s => owner[r] = None
    <3>1. UseSingle => drain[s] \in {"idle", "completing"}
      BY <1>3 DEF Retract, Unlocked
    <3>2. ~UseSingle => drain[s] = "idle"
      BY DEF DrainIsCurrent
    <3>3. UseSingle => \A r \in Slots : r # s => owner[r] = None
      BY <1>2 DEF TypeOK, OwnersAgree, UseSingle
    <3> QED BY <3>1, <3>2, <3>3
  <2>5. TypeOK'
    BY <1>1, <1>2, <2>1, <2>2 DEF TypeOK, OpTypeOK, DyingPhases, DrainPhases
  <2>6. OwnersAgree'
    BY <1>1, <1>2, <2>1, <2>2 DEF TypeOK, OwnersAgree
  <2>7. SlotStartsFresh' /\ CompletedOnce'
    BY <1>1, <1>2, <2>1, <2>2 DEF TypeOK, OpTypeOK, SlotStartsFresh, CompletedOnce,
           CallbackIsOwned
  <2>8. CallbackIsOwned' /\ DrainIsCurrent'
    BY <1>1, <1>2, <2>1, <2>2 DEF TypeOK, OpTypeOK, SlotStartsFresh, CompletedOnce,
           CallbackIsOwned, DrainIsCurrent, UseSingle
  <2>9. FlagIsAsked' /\ PointerIsPublished'
    BY <1>1, <1>2, <2>1, <2>2 DEF TypeOK, OpTypeOK, SlotStartsFresh, CompletedOnce,
           CallbackIsOwned, DrainIsCurrent, FlagIsAsked, PointerIsPublished, UseSingle
  <2> QED BY <2>5, <2>6, <2>7, <2>8, <2>9
<1>4. CASE Destroy(s)
  <2>1. /\ dying[s] = "retracted"
        /\ dying' = [dying EXCEPT ![s] = "destroyed"]
        /\ linked' = linked \ {s}
        /\ engaged' = engaged \ {s}
    BY <1>4 DEF Destroy, DestroyOp, ResetCallback, CallbackIsOwned
  <2>2. UNCHANGED <<owner, stopSourceFor, outcome>>
    BY <1>4 DEF Destroy
  <2>5. TypeOK'
    BY <1>1, <1>2, <2>1, <2>2 DEF TypeOK, OpTypeOK, DyingPhases, DrainPhases
  <2>6. OwnersAgree'
    BY <1>1, <1>2, <2>1, <2>2 DEF TypeOK, OwnersAgree
  <2>7. SlotStartsFresh' /\ CompletedOnce'
    BY <1>1, <1>2, <2>1, <2>2 DEF TypeOK, OpTypeOK, SlotStartsFresh, CompletedOnce,
           CallbackIsOwned
  <2>8. CallbackIsOwned' /\ DrainIsCurrent'
    BY <1>1, <1>2, <2>1, <2>2 DEF TypeOK, OpTypeOK, SlotStartsFresh, CompletedOnce,
           CallbackIsOwned, DrainIsCurrent, UseSingle
  <2>9. FlagIsAsked' /\ PointerIsPublished'
    BY <1>1, <1>2, <2>1, <2>2 DEF TypeOK, OpTypeOK, SlotStartsFresh, CompletedOnce,
           CallbackIsOwned, DrainIsCurrent, FlagIsAsked, PointerIsPublished, UseSingle
  <2> QED BY <2>5, <2>6, <2>7, <2>8, <2>9
<1>5. CASE Release(s)
  <2>1. /\ dying[s] = "destroyed"
        /\ dying' = [dying EXCEPT ![s] = "no"]
        /\ owner' = [owner EXCEPT ![s] = None]
        /\ outcome' = [outcome EXCEPT ![owner[s]] = done[s]]
        /\ UNCHANGED <<linked, engaged, stopSourceFor>>
    BY <1>5 DEF Release, opVars
  <2>2. /\ s \notin linked /\ drain[s] # "popped"
        /\ done[s] \in {"value", "stopped"}
    BY <1>2, <2>1 DEF TypeOK, OpTypeOK, CallbackIsOwned, DrainIsCurrent, CompletedOnce
  <2>5. TypeOK'
    BY <1>1, <1>2, <2>1, <2>2 DEF TypeOK, OpTypeOK, DyingPhases, DrainPhases
  <2>6. OwnersAgree'
    BY <1>1, <1>2, <2>1, <2>2 DEF TypeOK, OwnersAgree
  <2>7. SlotStartsFresh' /\ CompletedOnce'
    BY <1>1, <1>2, <2>1, <2>2 DEF TypeOK, OpTypeOK, SlotStartsFresh, CompletedOnce,
           CallbackIsOwned
  <2>8. CallbackIsOwned' /\ DrainIsCurrent'
    BY <1>1, <1>2, <2>1, <2>2 DEF TypeOK, OpTypeOK, SlotStartsFresh, CompletedOnce,
           CallbackIsOwned, DrainIsCurrent, UseSingle
  <2>9. FlagIsAsked' /\ PointerIsPublished'
    BY <1>1, <1>2, <2>1, <2>2 DEF TypeOK, OpTypeOK, SlotStartsFresh, CompletedOnce,
           CallbackIsOwned, DrainIsCurrent, FlagIsAsked, PointerIsPublished, UseSingle
  <2> QED BY <2>5, <2>6, <2>7, <2>8, <2>9
<1> QED BY <1>3, <1>4, <1>5 DEF Die

-----------------------------------------------------------------------------

LEMMA InitInvariant == Init => IInv
<1> SUFFICES ASSUME Init PROVE IInv
  OBVIOUS
<1> USE DEF Init, OpInit
<1>1. TypeOK
  BY DEF TypeOK, OpTypeOK, CallPhases, ServingPhases, DrainPhases, DyingPhases
<1>2. OwnersAgree /\ SlotStartsFresh /\ CompletedOnce
  BY DEF OwnersAgree, SlotStartsFresh, CompletedOnce
<1>3. CallbackIsOwned /\ DrainIsCurrent /\ FlagIsAsked /\ PointerIsPublished
  BY DEF CallbackIsOwned, DrainIsCurrent, FlagIsAsked, PointerIsPublished
<1> QED BY <1>1, <1>2, <1>3 DEF IInv

LEMMA NextKeepsInvariant ==
    ASSUME IInv, ~Overtakes, [Next]_vars
    PROVE  IInv'
<1>1. CASE \E c \in Calls : Detach(c)
  <2> SUFFICES ASSUME NEW c \in Calls, Detach(c) PROVE IInv'
    BY <1>1
  <2> QED BY ClaimKeepsInvariant, RefuseKeepsInvariant, ConstructKeepsInvariant,
             PublishKeepsInvariant, StartKeepsInvariant, EndKeepsInvariant DEF Detach
<1>2. CASE StopDetached
  BY <1>2, StopKeepsInvariant
<1>3. CASE \E s \in Slots : Service(s) \/ Draining(s) \/ Die(s)
  BY <1>3, ServiceKeepsInvariant, DrainKeepsInvariant, DieKeepsInvariant
<1>4. CASE UNCHANGED vars
  BY <1>4 DEF IInv, vars, opVars, domainVars, TypeOK, OpTypeOK, OwnersAgree,
              SlotStartsFresh, CompletedOnce, CallbackIsOwned, DrainIsCurrent,
              FlagIsAsked, PointerIsPublished, UseSingle
<1> QED BY <1>1, <1>2, <1>3, <1>4 DEF Next

LEMMA InvariantHolds ==
    ASSUME ~Overtakes
    PROVE  Spec => []IInv
<1>1. IInv /\ [Next]_vars => IInv'
  BY NextKeepsInvariant
<1> QED BY InitInvariant, <1>1, PTL DEF Spec

\* Slots, operations and the published stop source agree: stop_detached never
\* dereferences the stop source of an operation that is not there.
THEOREM DetachedIsConsistent ==
    ASSUME ~Overtakes
    PROVE  Spec => []Consistent
<1>1. IInv => Consistent
  <2> SUFFICES ASSUME IInv, UseSingle PROVE PointerIsCurrent
    BY DEF IInv, Consistent, PointerIsCurrent
  <2>1. stopSourceFor # None =>
            /\ owner[stopSourceFor] # None
            /\ at[owner[stopSourceFor]] \notin {"claimed", "constructed"}
            /\ dying[stopSourceFor] \in {"no", "completed"}
    BY DEF IInv, PointerIsPublished, TypeOK
  <2>2. ASSUME NEW c \in Calls, at[c] \in InStart, \A s \in Slots : dying[s] = "no"
        PROVE  stopSourceFor = slot[c]
    BY <2>2, CallHasSlot DEF IInv, PointerIsPublished
  <2> QED BY <2>1, <2>2 DEF PointerIsCurrent
<1> QED BY <1>1, InvariantHolds, PTL

-----------------------------------------------------------------------------
(* The refinement of Operation. *)

Taken == {s \in 1..limit : owner[s] # None}

LEMMA StateIs ==
    ASSUME IInv, NEW c \in Calls
    PROVE  /\ at[c] \in Undetached => State(c) = at[c]
           /\ (\E s \in Slots : owner[s] = c) => State(c) = "alive"
           /\ at[c] \notin Undetached /\ ~(\E s \in Slots : owner[s] = c) =>
                  State(c) = outcome[c]
           /\ State(c) = "alive" <=> \E s \in Slots : owner[s] = c
<1>1. (\E s \in Slots : owner[s] = c) => at[c] \notin Undetached
  BY DEF IInv, OwnersAgree
<1>2. outcome[c] # "alive"
  BY DEF IInv, TypeOK
<1> QED BY <1>1, <1>2 DEF State

\* The living operations are as many as the slots taken: a slot is free unless
\* there are limit of them.
LEMMA AliveFillSlots ==
    ASSUME IInv
    PROVE  /\ Cardinality(Promised!Alive) \in Nat
           /\ Cardinality(Promised!Alive) <= limit
           /\ Cardinality(Promised!Alive) = limit <=> Free = {}
<1> DEFINE f == [s \in Taken |-> owner[s]]
<1>1. Promised!Alive = {c \in Calls : \E s \in Slots : owner[s] = c}
  BY StateIs DEF Promised!Alive
<1>2. /\ limit \in Nat /\ 1..limit \subseteq Slots
      /\ \A s \in Slots : owner[s] # None =>
             s \in 1..limit /\ slot[owner[s]] = s /\ owner[s] \in Calls
  BY DEF IInv, TypeOK, OwnersAgree
<1>3. f \in Bijection(Taken, Promised!Alive)
  <2>1. f \in [Taken -> Promised!Alive]
    BY <1>1, <1>2 DEF Taken
  <2>2. \A r, s \in Taken : f[r] = f[s] => r = s
    BY <1>2 DEF Taken
  <2>3. \A c \in Promised!Alive : \E s \in Taken : f[s] = c
    BY <1>1, <1>2 DEF Taken
  <2> QED BY <2>1, <2>2, <2>3 DEF Bijection, Injection, Surjection, IsInjective
<1>4. /\ IsFiniteSet(1..limit) /\ Cardinality(1..limit) = limit
  BY <1>2, FS_Interval
<1>5. /\ IsFiniteSet(Taken) /\ Cardinality(Taken) <= limit
      /\ Cardinality(Taken) = limit => Taken = 1..limit
      /\ Cardinality(Taken) \in Nat
  <2>1. Taken \in SUBSET (1..limit)
    BY DEF Taken
  <2>2. /\ IsFiniteSet(Taken)
        /\ Cardinality(Taken) <= Cardinality(1..limit)
        /\ Cardinality(1..limit) = Cardinality(Taken) => 1..limit = Taken
    BY <1>4, <2>1, FS_Subset
  <2>3. Cardinality(Taken) \in Nat
    BY <2>2, FS_CardinalityType
  <2> QED BY <1>4, <2>2, <2>3
<1>6. Cardinality(Promised!Alive) = Cardinality(Taken)
  <2>1. ExistsBijection(Taken, Promised!Alive)
    BY <1>3 DEF ExistsBijection
  <2> QED BY <1>5, <2>1, FS_Bijection
<1>7. Free = {} <=> Taken = 1..limit
  BY DEF Free, Taken
<1> QED BY <1>4, <1>5, <1>6, <1>7

\* A step that leaves alone who owns what and how operations ended, and takes no
\* call to or from its beginning, is no step of the operations.
LEMMA StepStutters ==
    ASSUME IInv, IInv', UNCHANGED <<limit, owner, outcome, asked>>,
           NEW c \in Calls,
           \A d \in Calls : d # c => at'[d] = at[d],
           at[c] = at'[c] \/ (at[c] \notin Undetached /\ at'[c] \notin Undetached)
    PROVE  UNCHANGED Promised!vars
<1>1. ASSUME NEW d \in Calls PROVE State(d)' = State(d)
  BY DEF State
<1>2. [d \in Calls |-> State(d)]' = [d \in Calls |-> State(d)]
  BY <1>1
<1> QED BY <1>2 DEF Promised!vars

\* Operation counts with its own instance of FiniteSets.
LEMMA SameCardinality ==
    ASSUME NEW S
    PROVE  Promised!Cardinality(S) = Cardinality(S)
  BY DEF Promised!Cardinality, Cardinality

LEMMA InitIsInit == Init => Promised!Init
  BY DEF Init, OpInit, Promised!Init, State

\* Each step of a call is a step of the operations, or none.
LEMMA DetachIsStep ==
    ASSUME IInv, IInv', NEW c \in Calls, Detach(c)
    PROVE  [Promised!Next]_Promised!vars
<1>1. CASE Claim(c)
  <2>1. PICK s \in Free : owner' = [owner EXCEPT ![s] = c]
    BY <1>1 DEF Claim
  <2>2. /\ at[c] = "idle" /\ at' = [at EXCEPT ![c] = "claimed"]
        /\ UNCHANGED <<limit, outcome, asked>>
    BY <1>1 DEF Claim, Moves
  <2>3. s \in Slots /\ owner[s] = None
    BY DEF IInv, TypeOK, Free
  <2>4. State(c) = "idle" /\ State(c)' = "alive"
    <3>1. owner'[s] = c
      BY <2>1, <2>3 DEF IInv, TypeOK
    <3> QED BY <2>2, <2>3, <3>1, StateIs DEF State, IInv, OwnersAgree
  <2>5. ASSUME NEW d \in Calls, d # c PROVE State(d)' = State(d)
    <3>1. at'[d] = at[d]
      BY <2>2, <2>5 DEF IInv, TypeOK
    <3>2. (\E r \in Slots : owner'[r] = d) <=> (\E r \in Slots : owner[r] = d)
      BY <2>1, <2>3, <2>5 DEF IInv, TypeOK
    <3> QED BY <2>2, <3>1, <3>2 DEF State
  <2>6. Cardinality(Promised!Alive) < limit
    <3>1. Free # {} /\ limit \in Nat
      BY DEF IInv, TypeOK
    <3> QED BY <3>1, AliveFillSlots
  <2>7. [d \in Calls |-> State(d)]' =
            [[d \in Calls |-> State(d)] EXCEPT ![c] = "alive"]
    BY <2>4, <2>5
  <2>8. Promised!Begin(c)
    BY <2>2, <2>4, <2>6, <2>7, SameCardinality DEF Promised!Begin
  <2> QED BY <2>8 DEF Promised!Next
<1>2. CASE Refuse(c)
  <2>1. /\ at[c] = "idle" /\ at' = [at EXCEPT ![c] = "refused"] /\ Free = {}
        /\ UNCHANGED <<limit, owner, outcome, asked>>
    BY <1>2 DEF Refuse, Moves, domainVars
  <2>2. State(c) = "idle" /\ State(c)' = "refused"
    <3>1. at'[c] = "refused"
      BY <2>1 DEF IInv, TypeOK
    <3>2. ~(\E s \in Slots : owner[s] = c)
      BY <2>1 DEF IInv, OwnersAgree
    <3> QED BY <2>1, <3>1, <3>2, StateIs DEF State
  <2>3. ASSUME NEW d \in Calls, d # c PROVE State(d)' = State(d)
    <3>1. at'[d] = at[d]
      BY <2>1, <2>3 DEF IInv, TypeOK
    <3> QED BY <2>1, <3>1 DEF State
  <2>4. [d \in Calls |-> State(d)]' =
            [[d \in Calls |-> State(d)] EXCEPT ![c] = "refused"]
    BY <2>2, <2>3
  <2>5. Promised!Refuse(c)
    BY <2>1, <2>2, <2>4, AliveFillSlots, SameCardinality DEF Promised!Refuse
  <2> QED BY <2>5 DEF Promised!Next
<1>3. CASE Construct(c) \/ Publish(c) \/ Start(c)
  <2>1. /\ UNCHANGED <<limit, owner, outcome, asked>>
        /\ \E x \in CallPhases \ Undetached : at' = [at EXCEPT ![c] = x]
        /\ at[c] \notin Undetached
    BY <1>3 DEF Construct, Publish, Start, OpStep, domainVars, Moves, CallPhases,
                StartStopped, StartUnstopped, Enqueue, EmplaceLinked, EmplaceRefused,
                CallInConstructor, ReturnToConstructor, EndEmplace
  <2>2. /\ \A d \in Calls : d # c => at'[d] = at[d]
        /\ at'[c] \notin Undetached
    BY <2>1 DEF IInv, TypeOK
  <2> QED BY <2>1, <2>2, StepStutters
<1> QED BY <1>1, <1>2, <1>3 DEF Detach

LEMMA StopIsStep ==
    ASSUME IInv, IInv', StopDetached
    PROVE  Promised!Next
<1> DEFINE c == owner[stopSourceFor]
<1>1. /\ stopSourceFor # None /\ stopSourceFor \notin requested
      /\ asked' = asked \cup {c}
      /\ UNCHANGED <<limit, at, owner, outcome>>
  BY DEF StopDetached, RequestStop
<1>2. /\ stopSourceFor \in Slots /\ c # None /\ c \in Calls
      /\ at[c] \in InStart \cup Started
  BY <1>1 DEF IInv, TypeOK, PointerIsPublished
<1>3. State(c) = "alive" /\ c \notin asked
  BY <1>1, <1>2, StateIs DEF IInv, FlagIsAsked
<1>4. [d \in Calls |-> State(d)]' = [d \in Calls |-> State(d)]
  BY <1>1 DEF State
<1>5. Promised!Ask(c)
  BY <1>1, <1>2, <1>3, <1>4 DEF Promised!Ask
<1> QED BY <1>2, <1>5 DEF Promised!Next

LEMMA SlotIsStep ==
    ASSUME IInv, IInv', NEW s \in Slots, Service(s) \/ Draining(s) \/ Die(s)
    PROVE  [Promised!Next]_Promised!vars
<1>1. CASE Release(s)
  <2>0. PICK c \in Calls : c = owner[s] /\ c # None
    BY <1>1 DEF Release, IInv, TypeOK, SlotStartsFresh
  <2>1. /\ dying[s] = "destroyed"
        /\ outcome' = [outcome EXCEPT ![c] = done[s]]
        /\ owner' = [owner EXCEPT ![s] = None]
        /\ UNCHANGED <<limit, at, asked>>
    BY <1>1, <2>0 DEF Release, opVars
  <2>2. /\ at[c] \in Started
        /\ \A r \in Slots : owner[r] = c <=> r = s
    BY <2>0, <2>1 DEF IInv, TypeOK, SlotStartsFresh, CompletedOnce, OwnersAgree
  <2>3. /\ done[s] \in {"value", "stopped"}
        /\ done[s] = "stopped" => c \in asked
    BY <2>0, <2>1, <2>2 DEF IInv, TypeOK, OpTypeOK, CompletedOnce, FlagIsAsked
  <2>4. State(c) = "alive" /\ State(c)' = done[s]
    <3>1. ~(\E r \in Slots : owner'[r] = c) /\ outcome'[c] = done[s]
      BY <2>0, <2>1, <2>2 DEF IInv, TypeOK
    <3> QED BY <2>1, <2>2, <3>1, StateIs DEF State
  <2>5. ASSUME NEW d \in Calls, d # c PROVE State(d)' = State(d)
    <3>1. (\E r \in Slots : owner'[r] = d) <=> (\E r \in Slots : owner[r] = d)
      BY <2>0, <2>1, <2>5 DEF IInv, TypeOK
    <3>2. outcome'[d] = outcome[d]
      BY <2>1, <2>2, <2>5 DEF IInv, TypeOK
    <3> QED BY <2>1, <3>1, <3>2 DEF State
  <2>6. [d \in Calls |-> State(d)]' =
            [[d \in Calls |-> State(d)] EXCEPT ![c] = done[s]]
    BY <2>4, <2>5
  <2>7. Promised!End(c, done[s])
    BY <2>1, <2>3, <2>4, <2>6 DEF Promised!End
  <2> QED BY <2>3, <2>7 DEF Promised!Next, Promised!Channels
<1>2. CASE ~Release(s)
  <2>1. UNCHANGED <<limit, at, owner, outcome, asked>>
    BY <1>2 DEF Service, Draining, Die, OpStep, Pop, ClearCallback, Run, PopCallback,
                CallCallback, CallReturns, Drained, Retract, Destroy, DestroyOp, opVars
  <2>2. [d \in Calls |-> State(d)]' = [d \in Calls |-> State(d)]
    BY <2>1 DEF State
  <2> QED BY <2>1, <2>2 DEF Promised!vars
<1> QED BY <1>1, <1>2

\* start_detached keeps its promise: living operations do not share a slot, a
\* call is refused only when all slots are taken, an operation ends once, and
\* stopped only if it was stopped itself.
THEOREM DetachedIsOperation ==
    ASSUME ~Overtakes
    PROVE  Spec => IsOperation
<1>1. IInv /\ IInv' /\ [Next]_vars => [Promised!Next]_Promised!vars
  <2> SUFFICES ASSUME IInv, IInv', [Next]_vars
               PROVE  [Promised!Next]_Promised!vars
    OBVIOUS
  <2>1. CASE UNCHANGED vars
    <3>1. UNCHANGED <<limit, at, owner, outcome, asked>>
      BY <2>1 DEF vars, opVars, domainVars
    <3>2. [d \in Calls |-> State(d)]' = [d \in Calls |-> State(d)]
      BY <3>1 DEF State
    <3> QED BY <3>1, <3>2 DEF Promised!vars
  <2> QED BY <2>1, DetachIsStep, StopIsStep, SlotIsStep DEF Next
<1> QED BY <1>1, InvariantHolds, InitIsInit, PTL DEF Spec, IsOperation, Promised!Spec
=============================================================================
