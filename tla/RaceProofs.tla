----------------------------- MODULE RaceProofs -----------------------------
(***************************************************************************)
(* Theorems about Race, for any number of children and every selection of  *)
(* policies and operation states.                                          *)
(***************************************************************************)
EXTENDS Race, SequenceTheorems, FiniteSetTheorems, TLAPS

USE ChildrenAssumption, NoneAssumption, ShapesAssumption

\* The children that have not decremented the count.
Open == {c \in Children : pc[c] \notin {"last", "sending", "done"}}

\* Where the children stand while start() is in a phase.
ChildrenFollowStart ==
    /\ phase \in {"connected", "registered"} \/ Variant("nullary")
            => \A c \in Children : pc[c] = "connected"
    /\ phase = "registered" => Variant("stoppable")
    /\ phase = "starting" => \E c \in Children : pc[c] = "connected"
    /\ phase = "started" /\ ~Variant("nullary")
            => \A c \in Children : pc[c] # "connected"
    /\ phase = "finished" => \/ \A c \in Children : pc[c] = "connected"
                             \/ \A c \in Children : pc[c] = "done"
    /\ phase = "aborted" => Variant("synchronous") /\ \A c \in Children : pc[c] = "done"
    /\ Variant("synchronous")
            => \A c \in Children : pc[c] \in {"connected", "running", "storing", "done"}

\* The count is the number of open children, and one child at most goes on
\* when it reaches zero.
CountIsOpen ==
    /\ phase \in {"starting", "started"}
       /\ shape.variant \in {"stoppable", "unstoppable"} => count = Cardinality(Open)
    /\ \A c \in Children : pc[c] \in {"last", "sending"}
            => \A d \in Children \ {c} : pc[d] = "done"

\* A nullary when_any completes from its callback, which is called once.
NullaryWaits ==
    Variant("nullary") =>
        /\ phase \notin {"registered", "starting"}
        /\ ~(linked /\ popped)
        /\ linked \/ popped => phase = "started"

CompletedOnce ==
    /\ Len(completed) <= 1
    /\ completed = <<>> <=> phase # "finished"

\* outcome and order record the completions of the children.
Recorded ==
    /\ \A c \in Children : outcome[c] = "none" <=> pc[c] \in {"connected", "running"}
    /\ \A i \in DOMAIN order : outcome[order[i]] # "none"
    /\ \A c \in Children : outcome[c] # "none" => \E i \in DOMAIN order : order[i] = c

\* when_all holds the first error, or the child that won caught_error will
\* store it.
ErrorIsFirst ==
    Is("all") =>
        /\ caught <=> Some("error")
        /\ stored # None => IsFirst(stored, {"error"})
        /\ \A c \in Children : pc[c] = "storing" => IsFirst(c, {"error"})
        /\ caught /\ stored = None => \E c \in Children : pc[c] = "storing"

\* when_any holds the first of the completions it prefers.
StoredIsPreferred ==
    ~Is("all") =>
        /\ \A c \in Children : pc[c] # "storing"
        /\ stored = None <=> order = <<>>
        /\ stored # None => IsFirst(stored, Preferred)

\* A stop of the siblings has a reason; a stopped child of a when_all gives
\* one before it decrements the count.
StopHasReason ==
    /\ popped => parentStop
    /\ requested => parentStop \/ \E c \in Children : outcome[c] \in Decisive
    /\ \A c \in Children : pc[c] = "stopping" => outcome[c] \in Decisive
    /\ Is("all") /\ Variant("stoppable") =>
            \A c \in Children :
                outcome[c] = "stopped" /\ pc[c] # "stopping" => requested
    /\ Variant("unstoppable") => \A c \in Children : outcome[c] # "stopped"

IInv ==
    /\ TypeOK
    /\ ChildrenFollowStart
    /\ CountIsOpen
    /\ NullaryWaits
    /\ CompletedOnce
    /\ Recorded
    /\ ErrorIsFirst
    /\ StoredIsPreferred
    /\ StopHasReason
    /\ FollowsPolicy

-----------------------------------------------------------------------------
(* Who was first. *)

\* A child that was first to complete on some channels remains the first.
LEMMA FirstIsKept ==
    ASSUME TypeOK, Recorded, NEW c \in Children, NEW channel \in Channels,
           CompletesOn(c, channel), NEW d \in Children, NEW S, IsFirst(d, S)
    PROVE  IsFirst(d, S)'
<1>1. PICK i \in DOMAIN order :
        /\ order[i] = d
        /\ outcome[d] \in S
        /\ \A j \in 1..(i - 1) : outcome[order[j]] \notin S
  BY DEF IsFirst
<1>2. /\ order \in Seq(Children)
      /\ order' = Append(order, c)
      /\ outcome' = [outcome EXCEPT ![c] = channel]
      /\ outcome \in [Children -> Channels \cup {"none"}]
      /\ outcome[c] = "none"
  BY DEF TypeOK, CompletesOn, Recorded
<1>3. \A j \in DOMAIN order :
        order[j] \in Children /\ order'[j] = order[j] /\ order[j] # c
  BY <1>2 DEF Recorded
<1>4. i \in DOMAIN order' /\ i \in DOMAIN order /\ \A j \in 1..(i - 1) : j \in DOMAIN order
  BY <1>2
<1>5. \A j \in DOMAIN order : outcome'[order'[j]] = outcome[order[j]]
  BY <1>2, <1>3
<1> QED BY <1>1, <1>3, <1>4, <1>5 DEF IsFirst

\* A child that completes on channels nobody completed on before is the first.
LEMMA FirstIsAdded ==
    ASSUME TypeOK, Recorded, NEW c \in Children, NEW channel \in Channels,
           CompletesOn(c, channel), NEW S, channel \in S,
           \A d \in Children \ {c} : outcome[d] \notin S \/ outcome[d] = "none"
    PROVE  IsFirst(c, S)'
<1>1. /\ order \in Seq(Children)
      /\ order' = Append(order, c)
      /\ outcome' = [outcome EXCEPT ![c] = channel]
      /\ outcome \in [Children -> Channels \cup {"none"}]
      /\ outcome[c] = "none"
  BY DEF TypeOK, CompletesOn, Recorded
<1>2. \A j \in DOMAIN order :
        /\ order[j] \in Children \ {c} /\ order'[j] = order[j]
        /\ outcome[order[j]] # "none"
  BY <1>1 DEF Recorded
<1>3. /\ Len(order) + 1 \in DOMAIN order' /\ order'[Len(order) + 1] = c
      /\ \A j \in 1..(Len(order) + 1 - 1) : j \in DOMAIN order
  BY <1>1
<1>4. outcome'[c] = channel
  BY <1>1
<1>5. \A j \in DOMAIN order : outcome'[order'[j]] \notin S
  BY <1>1, <1>2
<1> QED BY <1>3, <1>4, <1>5 DEF IsFirst

\* Being first says what the child completed on.
LEMMA FirstCompleted ==
    ASSUME NEW c, NEW S, IsFirst(c, S)
    PROVE  outcome[c] \in S
BY DEF IsFirst
-----------------------------------------------------------------------------
(* start() preserves the invariant. *)

\* The properties of the completions so far survive a step that leaves the
\* children's completions alone.
LEMMA ChoiceUntouched ==
    ASSUME IInv, UNCHANGED <<shape, storeVars>>,
           \A c \in Children :
                /\ pc'[c] \in {"connected", "running"} <=> pc[c] \in {"connected", "running"}
                /\ pc'[c] = "storing" <=> pc[c] = "storing"
    PROVE  Recorded' /\ ErrorIsFirst' /\ StoredIsPreferred'
<1>1. /\ shape' = shape /\ caught' = caught /\ stored' = stored
      /\ outcome' = outcome /\ order' = order
  BY DEF storeVars
<1>2. Recorded'
  BY <1>1 DEF IInv, Recorded
<1>3. ErrorIsFirst'
  BY <1>1 DEF IInv, ErrorIsFirst, IsFirst, Is, Some
<1>4. StoredIsPreferred'
  BY <1>1 DEF IInv, StoredIsPreferred, IsFirst, Is, Some, Preferred
<1> QED BY <1>2, <1>3, <1>4

LEMMA OpenIsFinite == Cardinality(Open) \in 0..Cardinality(Children)
<1>1. Open \subseteq Children
  BY DEF Open
<1> QED BY <1>1, FS_Subset, FS_CardinalityType

\* The first completion is sent.
LEMMA FirstCompletion ==
    ASSUME completed = <<>>, NEW sent \in Completions
    PROVE  /\ Append(completed, sent) \in Seq(Completions)
           /\ Append(completed, sent) # <<>>
           /\ Len(Append(completed, sent)) = 1
           /\ Append(completed, sent)[1] = sent
BY AppendProperties

LEMMA NoChildCompletions ==
    Stopped \in Completions /\ AllValues \in Completions /\ UnsetValues \in Completions
BY DEF Stopped, AllValues, UnsetValues, Of, Channels, Completions

\* Emplacing the stop callback, and refusing to start.
LEMMA RegistrationKeepsInvariant ==
    ASSUME IInv, EmplaceCallback \/ Refuse \/ StartNullary
    PROVE  IInv'
<1>1. UNCHANGED <<shape, storeVars, pc, popped, parentStop, count>>
  BY DEF EmplaceCallback, Refuse, StartNullary, parentVars
<1>2. /\ phase \in {"connected", "registered"}
      /\ \A c \in Children : pc[c] = "connected"
      /\ completed = <<>>
  BY DEF EmplaceCallback, Refuse, StartNullary, IInv, ChildrenFollowStart, CompletedOnce
<1>a. \/ completed' = completed /\ phase' # "finished"
      \/ \E sent \in Completions : completed' = Append(completed, sent) /\ phase' = "finished"
  <2>1. CASE EmplaceCallback
    BY <2>1 DEF EmplaceCallback
  <2>2. CASE Refuse
    BY <2>2, NoChildCompletions DEF Refuse
  <2>3. CASE StartNullary /\ Is("all")
    <3>1. ~linked'
      BY <2>3, <1>2 DEF StartNullary, IInv, NullaryWaits
    <3> QED BY <2>3, <3>1, NoChildCompletions DEF StartNullary
  <2>4. CASE StartNullary /\ ~Is("all")
    BY <2>4, NoChildCompletions DEF StartNullary, IInv, TypeOK
  <2> QED BY <2>1, <2>2, <2>3, <2>4
<1>b. /\ completed' \in Seq(Completions)
      /\ Len(completed') <= 1
      /\ completed' = <<>> <=> phase' # "finished"
  <2>1. completed \in Seq(Completions)
    BY DEF IInv, TypeOK, Completions
  <2>2. CASE completed' = completed /\ phase' # "finished"
    BY <2>1, <2>2, <1>2
  <2>3. ASSUME NEW sent \in Completions, completed' = Append(completed, sent),
               phase' = "finished"
        PROVE  /\ completed' \in Seq(Completions)
               /\ Len(completed') <= 1
               /\ completed' = <<>> <=> phase' # "finished"
    BY <2>3, <1>2, FirstCompletion
  <2> QED BY <2>2, <2>3, <1>a
<1>3. TypeOK'
  BY <1>1, <1>2, <1>b DEF EmplaceCallback, Refuse, StartNullary, IInv, TypeOK, storeVars,
        Phases, Completions
<1>4. ChildrenFollowStart'
  BY <1>1, <1>2 DEF EmplaceCallback, Refuse, StartNullary, IInv, ChildrenFollowStart,
        Variant
<1>5. CountIsOpen'
  BY <1>1, <1>2 DEF EmplaceCallback, Refuse, StartNullary, IInv, CountIsOpen, Variant
<1>6. NullaryWaits'
  BY <1>1, <1>2 DEF EmplaceCallback, Refuse, StartNullary, IInv, NullaryWaits, Variant
<1>7. CompletedOnce'
  BY <1>b DEF CompletedOnce
<1>8. Recorded' /\ ErrorIsFirst' /\ StoredIsPreferred'
  BY <1>1, ChoiceUntouched
<1>9. StopHasReason'
  <2>1. \A c \in Children : outcome[c] = "none"
    BY <1>2 DEF IInv, Recorded
  <2>2. requested' => requested \/ parentStop
    BY DEF EmplaceCallback, Refuse, StartNullary
  <2>3. outcome' = outcome /\ Decisive' = Decisive
    BY <1>1 DEF storeVars, Decisive, Is
  <2> QED BY <1>1, <1>2, <2>1, <2>2, <2>3 DEF IInv, StopHasReason, Is, Variant
<1>10. FollowsPolicy'
  BY <1>1, <1>2 DEF FollowsPolicy
<1> QED BY <1>3, <1>4, <1>5, <1>6, <1>7, <1>8, <1>9, <1>10 DEF IInv

\* Setting the count and starting the children.
LEMMA StartingKeepsInvariant ==
    ASSUME IInv, Begin \/ \E c \in Children : StartChild(c)
    PROVE  IInv'
<1>1. UNCHANGED <<shape, linked, requested, storeVars, popped, parentStop, completed>>
  BY DEF Begin, StartChild, parentVars
<1>2. completed = <<>> /\ ~Variant("nullary") /\ phase # "finished"
  BY DEF Begin, StartChild, IInv, ChildrenFollowStart, CompletedOnce, Variant, NullaryWaits
<1>3. \A c \in Children :
        /\ pc'[c] \in {"connected", "running"} <=> pc[c] \in {"connected", "running"}
        /\ pc'[c] \notin {"connected", "running"} => pc'[c] = pc[c]
        /\ pc[c] \notin {"connected", "running"} => pc'[c] = pc[c]
  BY DEF Begin, StartChild, IInv, TypeOK
<1>4. Open' = Open
  BY <1>3 DEF Open
<1>5. TypeOK'
  BY <1>1, OpenIsFinite, FS_CardinalityType DEF Begin, StartChild, IInv, TypeOK, storeVars,
        Phases, ChildPhases
<1>6. ChildrenFollowStart'
  <2>1. CASE Begin
    BY <2>1, <1>1, <1>2 DEF Begin, IInv, ChildrenFollowStart, Variant, TypeOK
  <2>2. ASSUME NEW c \in Children, StartChild(c) PROVE ChildrenFollowStart'
    BY <2>2, <1>1, <1>2 DEF StartChild, IInv, ChildrenFollowStart, Variant, TypeOK
  <2> QED BY <2>1, <2>2
<1>7. CountIsOpen'
  <2>1. CASE Begin
    <3>1. Open = Children
      BY <2>1 DEF Begin, IInv, ChildrenFollowStart, Open, Variant
    <3> QED BY <2>1, <3>1, <1>1, <1>4 DEF Begin, IInv, CountIsOpen, Variant
  <2>2. ASSUME NEW c \in Children, StartChild(c) PROVE CountIsOpen'
    BY <2>2, <1>1, <1>4 DEF StartChild, IInv, CountIsOpen, TypeOK
  <2> QED BY <2>1, <2>2
<1>8. NullaryWaits' /\ CompletedOnce'
  BY <1>1, <1>2 DEF Begin, StartChild, IInv, NullaryWaits, CompletedOnce, Variant
<1>9. Recorded' /\ ErrorIsFirst' /\ StoredIsPreferred'
  BY <1>1, <1>3, ChoiceUntouched
<1>10. StopHasReason'
  BY <1>1, <1>3 DEF IInv, StopHasReason, storeVars, Is, Variant, Decisive, Recorded
<1>11. FollowsPolicy'
  BY <1>1, <1>2 DEF FollowsPolicy
<1> QED BY <1>5, <1>6, <1>7, <1>8, <1>9, <1>10, <1>11 DEF IInv
-----------------------------------------------------------------------------
(* A child's completion preserves the invariant. *)

\* What the three ways to complete have in common.
Arrives(c, channel) ==
    /\ CompletesOn(c, channel)
    /\ UNCHANGED <<shape, opVars, parentVars, completed>>
    /\ pc' = [pc EXCEPT ![c] = pc'[c]]
    /\ pc'[c] = "storing" => Is("all") /\ channel = "error"
    /\ pc'[c] # "storing" => pc'[c] = AfterStoring(channel)

LEMMA CompletionsArrive ==
    ASSUME IInv, NEW c \in Children, NEW channel \in Channels,
           \/ NotifyWithoutError(c, channel)
           \/ CatchError(c) /\ channel = "error"
           \/ Emplace(c, channel)
    PROVE  Arrives(c, channel)
<1>1. pc \in [Children -> ChildPhases] /\ AfterStoring(channel) # "storing"
  <2>1. shape \in [policy : Policies, variant : Variants]
    BY DEF IInv, TypeOK
  <2>2. pc[c] = "running"
    BY DEF NotifyWithoutError, CatchError, Emplace, CompletesOn
  <2>3. ~Variant("nullary")
    BY <2>2 DEF IInv, ChildrenFollowStart
  <2> QED BY <2>1, <2>3 DEF IInv, TypeOK, AfterStoring, Variant, Variants
<1>2. CASE NotifyWithoutError(c, channel)
  BY <1>1, <1>2 DEF NotifyWithoutError, Arrives
<1>3. CASE CatchError(c) /\ channel = "error"
  BY <1>1, <1>3 DEF CatchError, Arrives
<1>4. CASE Emplace(c, channel)
  BY <1>1, <1>4 DEF Emplace, Arrives
<1> QED BY <1>2, <1>3, <1>4

\* Everything but the choice of the completion.
LEMMA ArrivalKeepsCount ==
    ASSUME IInv, NEW c \in Children, NEW channel \in Channels, Arrives(c, channel)
    PROVE  /\ phase \in {"starting", "started"} /\ completed = <<>>
           /\ ChildrenFollowStart' /\ CountIsOpen' /\ NullaryWaits'
           /\ CompletedOnce' /\ Recorded' /\ FollowsPolicy'
           /\ pc' \in [Children -> ChildPhases]
           /\ outcome' \in [Children -> Channels \cup {"none"}]
           /\ order' \in Seq(Children)
<1>1. /\ UNCHANGED <<shape, phase, linked, requested, count, popped, completed>>
      /\ pc[c] = "running"
      /\ outcome' = [outcome EXCEPT ![c] = channel]
      /\ order' = Append(order, c)
  BY DEF Arrives, CompletesOn, opVars, parentVars
<1>2. /\ pc \in [Children -> ChildPhases] /\ order \in Seq(Children)
      /\ outcome \in [Children -> Channels \cup {"none"}]
      /\ shape.variant \in Variants /\ phase \in Phases
  BY DEF IInv, TypeOK
<1>3. phase \in {"starting", "started"} /\ ~Variant("nullary")
  BY <1>1, <1>2 DEF IInv, ChildrenFollowStart, Phases
<1>4. completed = <<>>
  BY <1>3 DEF IInv, CompletedOnce
<1>5. /\ pc'[c] \in {"storing", "stopping", "counting", "done"}
      /\ Variant("synchronous") => pc'[c] \in {"storing", "done"}
      /\ ~Variant("synchronous") => pc'[c] # "done"
      /\ \A d \in Children \ {c} : pc'[d] = pc[d]
      /\ pc' \in [Children -> ChildPhases]
  BY <1>2, <1>3 DEF Arrives, AfterStoring, Variant, Variants, ChildPhases
<1>6. ChildrenFollowStart'
  BY <1>1, <1>2, <1>3, <1>5 DEF IInv, ChildrenFollowStart, Variant
<1>7. CountIsOpen'
  <2>1. \A d \in Children : pc'[d] \notin {"last", "sending"}
    BY <1>1, <1>5 DEF IInv, CountIsOpen
  <2>2. ~Variant("synchronous") => Open' = Open
    BY <1>1, <1>5 DEF Open
  <2> QED BY <1>1, <2>1, <2>2 DEF IInv, CountIsOpen, Variant
<1>8. NullaryWaits' /\ CompletedOnce'
  BY <1>1 DEF IInv, NullaryWaits, CompletedOnce, Variant
<1>9. outcome' \in [Children -> Channels \cup {"none"}] /\ order' \in Seq(Children)
  BY <1>1, <1>2
<1>10. Recorded'
  <2>1. \A d \in Children : outcome'[d] = "none" <=> pc'[d] \in {"connected", "running"}
    BY <1>1, <1>2, <1>5 DEF IInv, Recorded, Channels
  <2>2. \A i \in DOMAIN order : i \in DOMAIN order' /\ order'[i] = order[i]
    BY <1>1, <1>2
  <2>3. Len(order') = Len(order) + 1 /\ order'[Len(order')] = c /\ Len(order) \in Nat
    BY <1>1, <1>2
  <2>4. \A i \in DOMAIN order' : i \in DOMAIN order \/ i = Len(order')
    BY <1>2, <1>9, <2>3
  <2>5. \A i \in DOMAIN order' : outcome'[order'[i]] # "none"
    <3>1. outcome'[c] # "none"
      BY <1>1, <1>2 DEF Channels
    <3>2. \A i \in DOMAIN order : order[i] \in Children /\ outcome[order[i]] # "none"
      BY <1>2 DEF IInv, Recorded
    <3>3. \A d \in Children : outcome[d] # "none" => outcome'[d] # "none"
      BY <1>1, <1>2, <3>1
    <3> QED BY <2>2, <2>3, <2>4, <3>1, <3>2, <3>3
  <2>6. ASSUME NEW d \in Children, outcome'[d] # "none"
        PROVE  \E i \in DOMAIN order' : order'[i] = d
    <3>1. CASE d = c
      <4>1. Len(order') \in DOMAIN order'
        BY <1>9, <2>3
      <4> QED BY <3>1, <4>1, <2>3
    <3>2. CASE d # c
      BY <3>2, <2>6, <1>1, <1>2, <2>2 DEF IInv, Recorded
    <3> QED BY <3>1, <3>2
  <2> QED BY <2>1, <2>5, <2>6 DEF Recorded
<1>11. FollowsPolicy'
  BY <1>1, <1>4 DEF FollowsPolicy
<1> QED BY <1>3, <1>4, <1>5, <1>6, <1>7, <1>8, <1>9, <1>10, <1>11

\* A stop is still explained.
LEMMA ArrivalKeepsReason ==
    ASSUME IInv, NEW c \in Children, NEW channel \in Channels, Arrives(c, channel)
    PROVE  StopHasReason'
<1>1. /\ UNCHANGED <<shape, requested, parentStop, popped>>
      /\ pc[c] = "running"
      /\ outcome' = [outcome EXCEPT ![c] = channel]
      /\ outcome \in [Children -> Channels \cup {"none"}]
      /\ Variant("unstoppable") => channel # "stopped"
      /\ \A d \in Children \ {c} : pc'[d] = pc[d]
  BY DEF Arrives, CompletesOn, opVars, parentVars, IInv, TypeOK
<1>2. outcome[c] = "none" /\ "none" \notin Decisive
  BY <1>1 DEF IInv, Recorded, Decisive, Is, Channels, TypeOK, Policies
<1>3. Decisive' = Decisive
  BY <1>1 DEF Decisive, Is
<1>4. \A d \in Children : outcome[d] \in Decisive => outcome'[d] \in Decisive
  BY <1>1, <1>2
<1>5. /\ Is("all") /\ Variant("stoppable") /\ channel = "stopped" => pc'[c] = "stopping"
      /\ pc'[c] = "stopping" => outcome'[c] \in Decisive
  <2>1. ~Variant("nullary") /\ shape.variant \in Variants
    BY <1>1 DEF IInv, ChildrenFollowStart, TypeOK
  <2>2. pc'[c] = "stopping" => channel \in Decisive
    BY <2>1 DEF Arrives, AfterStoring, Variant, Variants
  <2>3. Is("all") /\ Variant("stoppable") /\ channel = "stopped" => pc'[c] = "stopping"
    BY DEF Arrives, AfterStoring, Decisive, Is, Variant
  <2> QED BY <1>1, <2>2, <2>3
<1> QED BY <1>1, <1>3, <1>4, <1>5 DEF IInv, StopHasReason, Is, Variant
\* when_all: values and stops are not errors; the first error wins.
LEMMA WhenAllKeepsFirst ==
    ASSUME IInv, NEW c \in Children, NEW channel \in Channels,
           \/ NotifyWithoutError(c, channel)
           \/ CatchError(c) /\ channel = "error"
    PROVE  ErrorIsFirst' /\ StoredIsPreferred'
<1>1. /\ Is("all") /\ Is("all")' /\ stored' = stored
      /\ CompletesOn(c, channel) /\ Arrives(c, channel)
      /\ \A d \in Children \ {c} : pc'[d] = pc[d]
      /\ outcome' = [outcome EXCEPT ![c] = channel]
      /\ outcome \in [Children -> Channels \cup {"none"}] /\ outcome[c] = "none"
      /\ caught' = (caught \/ channel = "error")
      /\ stored \in Children \cup {None}
      /\ pc'[c] = "storing" => channel = "error" /\ ~caught
  <2>1. Arrives(c, channel)
    BY CompletionsArrive
  <2>2. caught' = (caught \/ channel = "error") /\ stored' = stored /\ Is("all")
    BY DEF NotifyWithoutError, CatchError, IInv, TypeOK
  <2>3. AfterStoring("error") # "storing" /\ AfterStoring(channel) # "storing"
    <3>1. shape.variant \in Variants /\ ~Variant("nullary")
      BY <2>1 DEF IInv, TypeOK, ChildrenFollowStart, Arrives, CompletesOn
    <3> QED BY <3>1 DEF AfterStoring, Variant, Variants
  <2>4. pc'[c] = "storing" => channel = "error" /\ ~caught
    BY <2>3 DEF NotifyWithoutError, CatchError, CompletesOn, IInv, TypeOK
  <2> QED BY <2>1, <2>2, <2>4 DEF Arrives, CompletesOn, IInv, TypeOK, Recorded, Is
<1>2. TypeOK /\ Recorded /\ ErrorIsFirst
  BY DEF IInv
<1>3. \A d \in Children : IsFirst(d, {"error"}) => IsFirst(d, {"error"})'
  <2> TAKE d \in Children
  <2>1. ASSUME IsFirst(d, {"error"}) PROVE IsFirst(d, {"error"})'
    BY <1>1, <1>2, <2>1, FirstIsKept
  <2> QED BY <2>1
<1>4. Some("error")' <=> Some("error") \/ channel = "error"
  BY <1>1 DEF Some
<1>5. caught' <=> Some("error")'
  BY <1>1, <1>2, <1>4 DEF ErrorIsFirst
<1>6. stored' # None => IsFirst(stored, {"error"})'
  <2>1. ASSUME stored # None PROVE IsFirst(stored, {"error"})'
    <3>1. PICK d \in Children : d = stored
      BY <1>1, <2>1
    <3>2. IsFirst(d, {"error"})'
      BY <1>1, <1>2, <1>3, <2>1, <3>1 DEF ErrorIsFirst
    <3> QED BY <1>1, <3>1, <3>2
  <2> QED BY <1>1, <2>1
<1>7. ASSUME NEW d \in Children, pc'[d] = "storing" PROVE IsFirst(d, {"error"})'
  <2>1. CASE d = c
    <3>1. channel = "error" /\ \A e \in Children : outcome[e] # "error"
      BY <1>1, <1>2, <1>7, <2>1 DEF ErrorIsFirst, Some
    <3>2. \A e \in Children \ {c} : outcome[e] \notin {"error"} \/ outcome[e] = "none"
      BY <3>1
    <3> QED BY <1>1, <1>2, <2>1, <3>1, <3>2, FirstIsAdded
  <2>2. CASE d # c
    BY <1>1, <1>2, <1>3, <1>7, <2>2 DEF ErrorIsFirst
  <2> QED BY <2>1, <2>2
<1>8. ASSUME caught', stored' = None PROVE \E d \in Children : pc'[d] = "storing"
  <2>1. CASE caught
    <3>1. PICK d \in Children : pc[d] = "storing"
      BY <1>1, <1>2, <1>8, <2>1 DEF ErrorIsFirst
    <3>2. d # c
      BY <1>1, <3>1 DEF CompletesOn
    <3> QED BY <1>1, <3>1, <3>2
  <2>2. CASE ~caught
    <3>1. CatchError(c)
      BY <1>1, <1>8, <2>2 DEF NotifyWithoutError
    <3>2. pc'[c] = "storing"
      BY <2>2, <3>1 DEF CatchError, IInv, TypeOK
    <3> QED BY <3>2
  <2> QED BY <2>1, <2>2
<1> QED BY <1>1, <1>5, <1>6, <1>7, <1>8 DEF ErrorIsFirst, StoredIsPreferred

\* when_any: what the policy stores is the first of what it prefers.
LEMMA WhenAnyKeepsPreferred ==
    ASSUME IInv, NEW c \in Children, NEW channel \in Channels, Emplace(c, channel)
    PROVE  ErrorIsFirst' /\ StoredIsPreferred'
<1>1. /\ ~Is("all") /\ shape' = shape
      /\ CompletesOn(c, channel) /\ Arrives(c, channel)
      /\ stored' = IF ShouldStore(channel) THEN c ELSE stored
      /\ order' = Append(order, c)
      /\ outcome' = [outcome EXCEPT ![c] = channel]
  BY CompletionsArrive DEF Emplace, CompletesOn
<1>2. TypeOK /\ Recorded /\ StoredIsPreferred
  BY DEF IInv
<1>3. /\ order \in Seq(Children) /\ stored \in Children \cup {None}
      /\ outcome \in [Children -> Channels \cup {"none"}] /\ outcome[c] = "none"
      /\ shape.policy \in Policies
  BY <1>1, <1>2 DEF TypeOK, Recorded, CompletesOn
<1>4. order' # <<>> /\ stored' # None
  BY <1>1, <1>3 DEF ShouldStore
<1>5. \A d \in Children : pc'[d] # "storing"
  BY <1>1, <1>2 DEF Arrives, StoredIsPreferred, IInv, TypeOK
<1>6. \A ch \in Channels : Some(ch)' <=> Some(ch) \/ ch = channel
  BY <1>3, <1>1 DEF Some, Channels
<1>7. \A d \in Children : d # c => outcome'[d] = outcome[d]
  BY <1>1, <1>3
<1>8. CASE stored = None
  <2>1. order = <<>>
    BY <1>1, <1>2, <1>8 DEF StoredIsPreferred
  <2>2. \A d \in Children : outcome[d] = "none"
    BY <1>2, <2>1 DEF Recorded
  <2>3. stored' = c
    BY <1>1, <1>8 DEF ShouldStore
  <2>4. \A ch \in Channels : ~Some(ch)
    BY <2>2 DEF Some, Channels
  <2>5. channel \in Preferred'
    BY <1>1, <1>3, <1>6, <2>4 DEF Preferred, Is, Channels, Policies
  <2>6. \A S : channel \in S => IsFirst(c, S)'
    <3> SUFFICES ASSUME NEW S, channel \in S PROVE IsFirst(c, S)'
      OBVIOUS
    <3> QED BY <1>1, <1>2, <2>2, FirstIsAdded
  <2>7. order'[1] = c /\ 1 \in DOMAIN order' /\ outcome'[c] = channel
    BY <1>1, <1>3, <2>1
  <2>8. IsFirst(stored, Preferred)'
    BY <2>3, <2>5, <2>7 DEF IsFirst
  <2> QED BY <1>1, <1>4, <1>5, <2>8 DEF ErrorIsFirst, StoredIsPreferred, Is
<1>9. CASE stored # None
  <2>1. PICK d \in Children : d = stored
    BY <1>3, <1>9
  <2>2. IsFirst(d, Preferred)
    BY <1>1, <1>2, <1>9, <2>1 DEF StoredIsPreferred
  <2>3. outcome[d] \in Preferred /\ outcome[d] \in Channels
    BY <2>2, FirstCompleted, <1>3 DEF Preferred, Is, Channels
  <2>4. \A S : IsFirst(d, S) => IsFirst(d, S)'
    <3> SUFFICES ASSUME NEW S, IsFirst(d, S) PROVE IsFirst(d, S)'
      OBVIOUS
    <3> QED BY <1>1, <1>2, FirstIsKept
  <2> SUFFICES IsFirst(stored, Preferred)'
    BY <1>1, <1>4, <1>5 DEF ErrorIsFirst, StoredIsPreferred, Is
  <2>5. ASSUME NEW e \in Children, NEW S, stored' = e, Preferred' = S, IsFirst(e, S)'
        PROVE  IsFirst(stored, Preferred)'
    BY <2>5 DEF IsFirst
  <2>6. ASSUME Preferred' = Preferred, ~ShouldStore(channel)
        PROVE  IsFirst(stored, Preferred)'
    <3>1. PICK S : S = Preferred
      OBVIOUS
    <3>2. IsFirst(d, S)'
      BY <2>2, <2>4, <3>1
    <3> QED BY <1>1, <2>1, <2>5, <2>6, <3>1, <3>2
  <2>7. ASSUME NEW S, Preferred' = S, channel \in S, ShouldStore(channel),
               \A e \in Children : outcome[e] \notin S
        PROVE  IsFirst(stored, Preferred)'
    BY <1>1, <1>2, <2>5, <2>7, FirstIsAdded
  <2>8. CASE Is("first_successful")
    <3>1. Preferred = (IF Some("value") THEN {"value"} ELSE Channels)
          /\ Preferred' = (IF Some("value") \/ channel = "value" THEN {"value"} ELSE Channels)
      BY <1>1, <1>6, <2>8 DEF Preferred, Is, Channels
    <3>2. ShouldStore(channel) <=> channel = "value" /\ outcome[d] # "value"
      BY <1>9, <2>1, <2>8 DEF ShouldStore, Is
    <3>3. CASE outcome[d] = "value"
      <4>1. Some("value")
        BY <3>3 DEF Some
      <4> QED BY <2>6, <3>1, <3>2, <3>3, <4>1
    <3>4. CASE outcome[d] # "value"
      <4>1. ~Some("value")
        BY <2>3, <3>1, <3>4
      <4>2. CASE channel = "value"
        <5>1. \A e \in Children : outcome[e] \notin {"value"}
          BY <4>1 DEF Some
        <5> QED BY <2>7, <3>1, <3>2, <3>4, <4>2, <5>1
      <4>3. CASE channel # "value"
        BY <2>6, <3>1, <3>2, <4>1, <4>3
      <4> QED BY <4>2, <4>3
    <3> QED BY <3>3, <3>4
  <2>9. CASE Is("first_noncancelled")
    <3> DEFINE Early == {"value", "error"}
    <3>1. /\ Preferred = (IF Some("value") \/ Some("error") THEN Early ELSE Channels)
          /\ Preferred' = (IF Some("value") \/ Some("error") \/ channel \in Early
                               THEN Early ELSE Channels)
      BY <1>1, <1>6, <2>9 DEF Preferred, Is, Channels
    <3>2. ShouldStore(channel) <=> channel # "stopped" /\ outcome[d] = "stopped"
      BY <1>9, <2>1, <2>9 DEF ShouldStore, Is
    <3>3. CASE outcome[d] \in Early
      <4>1. Some("value") \/ Some("error")
        BY <3>3 DEF Some
      <4> QED BY <2>6, <3>1, <3>2, <3>3, <4>1
    <3>4. CASE outcome[d] \notin Early
      <4>1. /\ ~Some("value") /\ ~Some("error") /\ outcome[d] = "stopped"
            /\ channel # "stopped" <=> channel \in Early
        BY <2>3, <3>1, <3>4 DEF Channels
      <4>2. CASE channel \in Early
        <5>1. \A e \in Children : outcome[e] \notin Early
          BY <4>1 DEF Some
        <5> QED BY <2>7, <3>1, <3>2, <4>1, <4>2, <5>1
      <4>3. CASE channel \notin Early
        BY <2>6, <3>1, <3>2, <4>1, <4>3
      <4> QED BY <4>2, <4>3
    <3> QED BY <3>3, <3>4
  <2>10. CASE Is("first_complete")
    <3>1. Preferred' = Preferred /\ ~ShouldStore(channel)
      BY <1>1, <1>9, <2>10 DEF Preferred, ShouldStore, Is
    <3> QED BY <2>6, <3>1
  <2> QED BY <1>1, <1>3, <2>8, <2>9, <2>10 DEF Is, Policies
<1> QED BY <1>8, <1>9

LEMMA CompletionKeepsInvariant ==
    ASSUME IInv, NEW c \in Children, ChildCompletes(c)
    PROVE  IInv'
<1>1. PICK channel \in Channels :
        \/ NotifyWithoutError(c, channel)
        \/ CatchError(c) /\ channel = "error"
        \/ Emplace(c, channel)
  BY DEF ChildCompletes, Channels
<1>2. Arrives(c, channel)
  BY <1>1, CompletionsArrive
<1>3. ErrorIsFirst' /\ StoredIsPreferred'
  BY <1>1, WhenAllKeepsFirst, WhenAnyKeepsPreferred
<1>4. TypeOK'
  <2>1. caught' \in BOOLEAN /\ stored' \in Children \cup {None}
    BY <1>1 DEF NotifyWithoutError, CatchError, Emplace, IInv, TypeOK
  <2> QED BY <1>2, <2>1, ArrivalKeepsCount DEF Arrives, opVars, parentVars, IInv, TypeOK
<1> QED BY <1>2, <1>3, <1>4, ArrivalKeepsCount, ArrivalKeepsReason DEF IInv
-----------------------------------------------------------------------------
(* What complete() sends. *)

\* A completion that was justified stays so.
LEMMA JustifiedKept ==
    ASSUME UNCHANGED <<shape, outcome, order>>, parentStop => parentStop',
           NEW sent, Justified(sent)
    PROVE  Justified(sent)'
<1>1. Preferred' = Preferred
  BY DEF Preferred, Is, Some
<1>2. sent.by # None /\ IsFirst(sent.by, Preferred) => IsFirst(sent.by, Preferred)'
  BY <1>1 DEF IsFirst
<1> QED BY <1>2 DEF Justified, Is, Variant, Some

\* Steps after which no more children are done keep FollowsPolicy.
LEMMA FollowsPolicyKept ==
    ASSUME IInv, UNCHANGED <<shape, outcome, order, completed>>,
           parentStop => parentStop',
           caught = caught',
           completed # <<>> /\ (\A c \in Children : pc'[c] = "done")
                => \A c \in Children : pc[c] = "done"
    PROVE  FollowsPolicy'
<1>1. ASSUME completed' # <<>>, \A c \in Children : pc'[c] = "done", ~StoppedUnnoticed'
      PROVE  Justified(completed[1])'
  <2>1. Justified(completed[1])
    BY <1>1 DEF IInv, FollowsPolicy, StoppedUnnoticed, Variant
  <2>2. PICK sent : sent = completed[1] /\ sent = completed'[1]
    OBVIOUS
  <2>3. Justified(sent)
    BY <2>1, <2>2
  <2>4. Justified(sent)'
    BY <2>3, JustifiedKept
  <2> QED BY <2>2, <2>4 DEF Justified
<1> QED BY <1>1 DEF FollowsPolicy

\* When every child has stored and signalled, complete() has something to send,
\* and it is what the policy promises, unless a stopped child went unnoticed.
LEMMA VerdictsAreJustified ==
    ASSUME IInv, ~Variant("nullary"), \A c \in Children : pc[c] \in {"done", "sending"},
           NEW verdict \in Verdicts
    PROVE  verdict \in Completions /\ (StoppedUnnoticed \/ Justified(verdict))
<1>1. /\ \A c \in Children : outcome[c] \in Channels
      /\ stored \in Children \cup {None}
      /\ shape.variant \in Variants /\ shape.policy \in Policies
      /\ shape \in Shapes
      /\ requested \in BOOLEAN /\ parentStop \in BOOLEAN
  BY DEF IInv, TypeOK, Recorded
<1>2. CASE Is("all") /\ caught
  <2>1. stored \in Children /\ IsFirst(stored, {"error"})
    BY <1>1, <1>2 DEF IInv, ErrorIsFirst
  <2>2. verdict = Of(stored, outcome[stored]) /\ Preferred = {"error"}
    BY <1>2 DEF Verdicts, Preferred, Is
  <2> QED BY <1>1, <2>1, <2>2 DEF Justified, Of, Completions
<1>3. CASE Is("all") /\ ~caught
  <2>1. ~Some("error")
    BY <1>3 DEF IInv, ErrorIsFirst
  <2>2. CASE Variant("stoppable") /\ requested
    <3>1. verdict = Stopped
      BY <1>3, <2>2 DEF Verdicts
    <3>2. Decisive = {"error", "stopped"}
      BY <1>3 DEF Decisive, Is
    <3>3. parentStop \/ Some("stopped")
      BY <2>1, <2>2, <3>2 DEF IInv, StopHasReason, Some
    <3> QED BY <1>3, <2>1, <2>2, <3>1, <3>3, NoChildCompletions DEF Justified
  <2>3. CASE ~(Variant("stoppable") /\ requested) /\ ~StoppedUnnoticed
    <3>1. verdict = AllValues
      BY <1>3, <2>3 DEF Verdicts
    <3>2. \A c \in Children : outcome[c] \in {"value", "stopped"}
      BY <1>1, <2>1 DEF Some, Channels
    <3>3. \A c \in Children : outcome[c] # "stopped"
      BY <1>1, <1>3, <2>3 DEF IInv, StopHasReason, StoppedUnnoticed, Variant, Variants
    <3>4. \A c \in Children : outcome[c] = "value"
      BY <3>2, <3>3
    <3> QED BY <1>3, <3>1, <3>4, NoChildCompletions DEF Justified
  <2>4. CASE ~(Variant("stoppable") /\ requested) /\ StoppedUnnoticed
    <3>1. verdict \in {AllValues, UnsetValues}
      BY <1>3, <2>4 DEF Verdicts
    <3> QED BY <2>4, <3>1, NoChildCompletions
  <2> QED BY <2>2, <2>3, <2>4
<1>4. CASE ~Is("all")
  <2>1. stored # None /\ IsFirst(stored, Preferred)
    <3>1. order # <<>>
      <4>1. PICK c \in Children : TRUE
        OBVIOUS
      <4>2. PICK i \in DOMAIN order : order[i] = c
        BY <1>1, <4>1 DEF IInv, Recorded, Channels
      <4> QED BY <4>2 DEF IInv, TypeOK
    <3> QED BY <1>4, <3>1 DEF IInv, StoredIsPreferred
  <2>2. CASE Variant("stoppable") /\ parentStop
    <3>1. verdict = Stopped
      BY <1>4, <2>2 DEF Verdicts
    <3> QED BY <1>4, <2>2, <3>1, NoChildCompletions DEF Justified
  <2>3. CASE ~(Variant("stoppable") /\ parentStop)
    <3>1. verdict = Of(stored, outcome[stored])
      BY <1>4, <2>3 DEF Verdicts
    <3> QED BY <1>1, <2>1, <3>1 DEF Justified, Of, Completions
  <2> QED BY <2>2, <2>3
<1> QED BY <1>2, <1>3, <1>4
-----------------------------------------------------------------------------
(* A completed child goes on, and preserves the invariant. *)

\* A child that goes on has an operation that is not finished.
LEMMA GoingOn ==
    ASSUME IInv, NEW c \in Children,
           pc[c] \in {"storing", "stopping", "counting", "last", "sending"}
    PROVE  /\ ~Variant("nullary")
           /\ phase \in {"starting", "started"}
           /\ completed = <<>>
           /\ pc[c] # "storing" => ~Variant("synchronous")
           /\ pc[c] # "storing" => shape.variant \in {"stoppable", "unstoppable"}
<1>1. phase \in Phases /\ shape.variant \in Variants
  BY DEF IInv, TypeOK
<1> QED BY <1>1 DEF IInv, ChildrenFollowStart, CompletedOnce, Phases, Variant, Variants

\* when_all: emplacing the error.
LEMMA StoringKeepsInvariant ==
    ASSUME IInv, NEW c \in Children, StoreError(c)
    PROVE  IInv'
<1>1. /\ UNCHANGED <<shape, phase, linked, requested, count, caught, outcome, order,
                     parentStop, popped, completed>>
      /\ pc[c] = "storing" /\ stored' = c /\ Is("all")
      /\ pc' = [pc EXCEPT ![c] = AfterStoring("error")]
      /\ pc \in [Children -> ChildPhases]
  BY DEF StoreError, opVars, parentVars, IInv, StoredIsPreferred, TypeOK
<1>2. ~Variant("nullary") /\ phase \in {"starting", "started"} /\ completed = <<>>
  BY <1>1, GoingOn
<1>3. /\ pc'[c] \in {"stopping", "counting", "done"}
      /\ Variant("synchronous") => pc'[c] = "done"
      /\ ~Variant("synchronous") => pc'[c] # "done"
      /\ \A d \in Children \ {c} : pc'[d] = pc[d]
  BY <1>1, <1>2 DEF AfterStoring, IInv, TypeOK, Variant, Variants
<1>4. TypeOK'
  BY <1>1, <1>3 DEF IInv, TypeOK, ChildPhases
<1>5. ChildrenFollowStart'
  BY <1>1, <1>2, <1>3 DEF IInv, ChildrenFollowStart, Variant
<1>6. CountIsOpen'
  <2>1. ~Variant("synchronous") => Open' = Open
    BY <1>1, <1>3 DEF Open
  <2> QED BY <1>1, <1>3, <2>1 DEF IInv, CountIsOpen, Variant
<1>7. NullaryWaits' /\ CompletedOnce'
  BY <1>1 DEF IInv, NullaryWaits, CompletedOnce, Variant
<1>8. Recorded'
  BY <1>1, <1>3 DEF IInv, Recorded
<1>9. ErrorIsFirst' /\ StoredIsPreferred'
  <2>1. \A d \in Children : IsFirst(d, {"error"}) => IsFirst(d, {"error"})'
    BY <1>1 DEF IsFirst
  <2>2. IsFirst(c, {"error"})'
    BY <1>1, <2>1 DEF IInv, ErrorIsFirst
  <2>3. \A d \in Children : pc'[d] = "storing" => IsFirst(d, {"error"})'
    BY <1>1, <1>3, <2>1 DEF IInv, ErrorIsFirst
  <2>4. IsFirst(stored, {"error"})'
    BY <1>1, <2>2 DEF IsFirst
  <2>5. Some("error")' = Some("error")
    BY <1>1 DEF Some
  <2> QED BY <1>1, <2>3, <2>4, <2>5 DEF IInv, ErrorIsFirst, StoredIsPreferred, Is
<1>10. StopHasReason'
  <2>1. outcome[c] # "stopped"
    BY <1>1, FirstCompleted DEF IInv, ErrorIsFirst
  <2>2. outcome[c] \in Decisive
    BY <1>1, FirstCompleted DEF IInv, ErrorIsFirst, Decisive, Is
  <2> QED BY <1>1, <1>3, <2>1, <2>2 DEF IInv, StopHasReason, Decisive, Is, Variant
<1>11. FollowsPolicy'
  BY <1>1, <1>2 DEF FollowsPolicy
<1> QED BY <1>4, <1>5, <1>6, <1>7, <1>8, <1>9, <1>10, <1>11 DEF IInv

\* Requesting the siblings' stop, decrementing the count, resetting stop_cb.
LEMMA SignallingKeepsInvariant ==
    ASSUME IInv, NEW c \in Children, RequestStop(c) \/ Decrement(c) \/ ResetCallback(c)
    PROVE  IInv'
<1>1. /\ UNCHANGED <<shape, phase, storeVars, parentStop, popped, completed>>
      /\ pc \in [Children -> ChildPhases]
      /\ pc[c] \in {"stopping", "counting", "last"}
      /\ pc'[c] \in {"counting", "last", "done", "sending"}
      /\ pc' = [pc EXCEPT ![c] = pc'[c]]
      /\ \A d \in Children \ {c} : pc'[d] = pc[d]
  BY DEF RequestStop, Decrement, ResetCallback, storeVars, parentVars, IInv, TypeOK
<1>2. /\ ~Variant("nullary") /\ ~Variant("synchronous")
      /\ phase \in {"starting", "started"} /\ completed = <<>>
      /\ shape.variant \in {"stoppable", "unstoppable"}
  BY <1>1, GoingOn
<1>3. /\ count = Cardinality(Open) /\ count \in Nat
      /\ IsFiniteSet(Open) /\ Open \subseteq Children
  BY <1>2, OpenIsFinite, FS_Subset DEF IInv, CountIsOpen, Open
<1>4. ChildrenFollowStart' /\ NullaryWaits' /\ CompletedOnce'
  BY <1>1, <1>2 DEF IInv, ChildrenFollowStart, NullaryWaits, CompletedOnce, Variant
<1>5. Recorded' /\ ErrorIsFirst' /\ StoredIsPreferred'
  BY <1>1, ChoiceUntouched
<1>6. FollowsPolicy'
  BY <1>1, <1>2 DEF FollowsPolicy
<1>7. StopHasReason'
  <2>1. requested' => requested \/ outcome[c] \in Decisive
    BY DEF RequestStop, Decrement, ResetCallback, IInv, StopHasReason
  <2>2. pc[c] = "stopping" => requested'
    BY DEF RequestStop, Decrement, ResetCallback
  <2>3. requested => requested'
    BY DEF RequestStop, Decrement, ResetCallback
  <2> QED BY <1>1, <2>1, <2>2, <2>3 DEF IInv, StopHasReason, storeVars, Decisive, Is, Variant
<1> SUFFICES TypeOK' /\ CountIsOpen'
  BY <1>4, <1>5, <1>6, <1>7 DEF IInv
<1>8. CASE Decrement(c)
  <2>1. Open' = Open \ {c} /\ c \in Open
    BY <1>1, <1>8 DEF Decrement, Open
  <2>2. /\ count' = count - 1 /\ count' = Cardinality(Open')
        /\ count' \in 0..Cardinality(Children)
    <3>1. Cardinality(Open') = Cardinality(Open) - 1
      BY <1>3, <2>1, FS_RemoveElement
    <3>2. Cardinality(Open) # 0
      BY <1>3, <2>1, FS_EmptySet
    <3> QED BY <1>3, <1>8, <3>1, <3>2, OpenIsFinite, FS_CardinalityType DEF Decrement
  <2>3. CountIsOpen'
    <3>1. CASE count = 1
      <4>1. Open' = {}
        BY <1>3, <2>1, <2>2, <3>1, FS_EmptySet, FS_Subset
      <4>2. \A d \in Children \ {c} : pc'[d] \in {"last", "sending", "done"}
        BY <4>1 DEF Open
      <4>3. \A d \in Children : pc[d] \notin {"last", "sending"}
        BY <1>1, <1>8 DEF IInv, CountIsOpen, Decrement
      <4> QED BY <1>1, <2>2, <4>2, <4>3 DEF CountIsOpen
    <3>2. CASE count # 1
      <4>1. pc'[c] = "done"
        BY <1>1, <1>8, <3>2 DEF Decrement
      <4> QED BY <1>1, <2>2, <4>1 DEF IInv, CountIsOpen
    <3> QED BY <3>1, <3>2
  <2>4. TypeOK'
    BY <1>1, <1>8, <2>2 DEF Decrement, IInv, TypeOK, storeVars, ChildPhases
  <2> QED BY <2>3, <2>4
<1>9. CASE RequestStop(c)
  <2>1. Open' = Open /\ count' = count
    BY <1>1, <1>9 DEF RequestStop, Open
  <2>2. CountIsOpen'
    BY <1>1, <1>9, <2>1 DEF RequestStop, IInv, CountIsOpen
  <2>3. TypeOK'
    BY <1>1, <1>9 DEF RequestStop, IInv, TypeOK, storeVars, ChildPhases
  <2> QED BY <2>2, <2>3
<1>10. CASE ResetCallback(c)
  <2>1. Open' = Open /\ count' = count
    BY <1>1, <1>10 DEF ResetCallback, Open
  <2>2. CountIsOpen'
    BY <1>1, <1>10, <2>1 DEF ResetCallback, IInv, CountIsOpen
  <2>3. TypeOK'
    BY <1>1, <1>10 DEF ResetCallback, IInv, TypeOK, storeVars, ChildPhases
  <2> QED BY <2>2, <2>3
<1> QED BY <1>8, <1>9, <1>10

\* complete(): from the last child, or from start() when all are synchronous.
LEMMA CompletingKeepsInvariant ==
    ASSUME IInv, CompleteInStart \/ \E c \in Children : Complete(c), phase' # "aborted"
    PROVE  IInv'
<1>1. /\ UNCHANGED <<shape, linked, requested, count, storeVars, parentStop, popped>>
      /\ ~Variant("nullary") /\ completed = <<>>
      /\ \A c \in Children : pc[c] \in {"done", "sending"}
      /\ \A c \in Children : pc'[c] = "done"
      /\ pc' \in [Children -> ChildPhases]
      /\ phase' = "finished"
      /\ \E verdict \in Verdicts : completed' = Append(completed, verdict)
  <2>1. CASE CompleteInStart
    BY <2>1 DEF CompleteInStart, parentVars, IInv, TypeOK, CompletedOnce, Variant
  <2>2. ASSUME NEW c \in Children, Complete(c)
        PROVE  /\ \A d \in Children : pc[d] \in {"done", "sending"}
               /\ \A d \in Children : pc'[d] = "done"
               /\ pc' \in [Children -> ChildPhases]
    BY <2>2 DEF Complete, IInv, TypeOK, CountIsOpen, ChildPhases
  <2>3. ASSUME NEW c \in Children, Complete(c)
        PROVE  ~Variant("nullary") /\ completed = <<>>
    BY <2>3, GoingOn DEF Complete
  <2> QED BY <2>1, <2>2, <2>3 DEF Complete, parentVars
<1>v. PICK verdict \in Verdicts : completed' = Append(completed, verdict)
  BY <1>1
<1>2. verdict \in Completions /\ (StoppedUnnoticed \/ Justified(verdict))
  BY <1>1, VerdictsAreJustified
<1>3. /\ completed' \in Seq(Completions) /\ completed' # <<>> /\ Len(completed') = 1
      /\ completed'[1] = verdict
  BY <1>1, <1>v, <1>2, FirstCompletion
<1>4. TypeOK'
  BY <1>1, <1>3 DEF IInv, TypeOK, storeVars, Phases, Completions
<1>5. ChildrenFollowStart'
  BY <1>1 DEF ChildrenFollowStart, Variant
<1>6. CountIsOpen'
  BY <1>1 DEF CountIsOpen
<1>7. NullaryWaits' /\ CompletedOnce'
  BY <1>1, <1>3 DEF NullaryWaits, CompletedOnce, Variant
<1>8. Recorded' /\ ErrorIsFirst' /\ StoredIsPreferred'
  BY <1>1, ChoiceUntouched
<1>9. StopHasReason'
  BY <1>1 DEF IInv, StopHasReason, storeVars, Decisive, Is, Variant
<1>10. FollowsPolicy'
  <2>1. PICK sent : sent = verdict /\ sent = completed'[1]
    BY <1>3
  <2>2. StoppedUnnoticed' = StoppedUnnoticed
    BY <1>1 DEF StoppedUnnoticed, storeVars, Variant
  <2>3. ~StoppedUnnoticed => Justified(sent)'
    <3>1. ~StoppedUnnoticed => Justified(sent)
      BY <1>2, <2>1
    <3> QED BY <1>1, <3>1, JustifiedKept DEF storeVars
  <2> QED BY <2>1, <2>2, <2>3 DEF FollowsPolicy, Justified
<1> QED BY <1>4, <1>5, <1>6, <1>7, <1>8, <1>9, <1>10 DEF IInv

\* The program ends where a stopped child went unnoticed.
LEMMA AbortingKeepsInvariant ==
    ASSUME IInv, CompleteInStart, phase' = "aborted"
    PROVE  IInv'
<1>1. /\ UNCHANGED <<shape, linked, requested, count, storeVars, parentVars, pc, completed>>
      /\ Variant("synchronous") /\ phase = "started" /\ phase' = "aborted"
      /\ \A c \in Children : pc[c] = "done"
  BY DEF CompleteInStart, parentVars
<1>2. TypeOK' /\ ChildrenFollowStart' /\ CountIsOpen' /\ NullaryWaits' /\ CompletedOnce'
  BY <1>1 DEF IInv, TypeOK, Phases, ChildrenFollowStart, CountIsOpen, NullaryWaits,
        CompletedOnce, Variant, Open, storeVars, parentVars
<1>3. Recorded' /\ ErrorIsFirst' /\ StoredIsPreferred'
  BY <1>1, ChoiceUntouched DEF parentVars
<1>4. StopHasReason'
  BY <1>1 DEF IInv, StopHasReason, storeVars, parentVars, Decisive, Is, Variant
<1>5. FollowsPolicy'
  BY <1>1 DEF IInv, CompletedOnce, FollowsPolicy
<1> QED BY <1>2, <1>3, <1>4, <1>5 DEF IInv

\* The parent's stop request.
LEMMA ParentKeepsInvariant ==
    ASSUME IInv, ParentRequest \/ ParentPops \/ ParentCalls
    PROVE  IInv'
<1>1. UNCHANGED <<shape, count, storeVars, pc>> /\ (parentStop => parentStop')
  BY DEF ParentRequest, ParentPops, ParentCalls, opVars
<1>2. Recorded' /\ ErrorIsFirst' /\ StoredIsPreferred'
  BY <1>1, ChoiceUntouched
<1>3. CASE UNCHANGED <<phase, completed>>
  <2>1. TypeOK'
    BY <1>1, <1>3 DEF ParentRequest, ParentPops, ParentCalls, opVars, IInv, TypeOK, storeVars
  <2>2. ChildrenFollowStart' /\ CompletedOnce'
    BY <1>1, <1>3 DEF IInv, ChildrenFollowStart, CompletedOnce, Variant
  <2>3. CountIsOpen'
    BY <1>1, <1>3 DEF IInv, CountIsOpen, Open
  <2>4. NullaryWaits'
    BY <1>1, <1>3 DEF ParentRequest, ParentPops, ParentCalls, opVars, IInv, NullaryWaits,
          Variant
  <2>5. StopHasReason'
    <3>1. /\ popped' => parentStop'
          /\ requested' => requested \/ parentStop'
          /\ requested => requested'
      BY DEF ParentRequest, ParentPops, ParentCalls, opVars, IInv, StopHasReason
    <3> QED BY <1>1, <3>1 DEF storeVars, IInv, StopHasReason, Decisive, Is, Variant
  <2>6. FollowsPolicy'
    BY <1>1, <1>3, FollowsPolicyKept DEF storeVars
  <2> QED BY <1>2, <2>1, <2>2, <2>3, <2>4, <2>5, <2>6 DEF IInv
<1>4. CASE ParentCalls /\ Variant("nullary")
  <2>1. /\ completed' = Append(completed, Stopped) /\ phase' = "finished"
        /\ requested' = requested /\ linked' = linked /\ parentStop' = parentStop
        /\ ~popped' /\ popped
    BY <1>4 DEF ParentCalls
  <2>2. completed = <<>> /\ ~linked /\ \A c \in Children : pc[c] = "connected"
    BY <1>4, <2>1 DEF IInv, NullaryWaits, CompletedOnce, ChildrenFollowStart
  <2>3. completed' \in Seq(Completions) /\ completed' # <<>> /\ Len(completed') = 1
    BY <2>1, <2>2, FirstCompletion, NoChildCompletions
  <2>4. TypeOK'
    BY <1>1, <1>4, <2>1, <2>3 DEF ParentCalls, IInv, TypeOK, storeVars, Phases, Completions
  <2>5. ChildrenFollowStart' /\ CountIsOpen' /\ NullaryWaits' /\ CompletedOnce'
    BY <1>1, <1>4, <2>1, <2>2, <2>3 DEF ChildrenFollowStart, CountIsOpen, NullaryWaits,
          CompletedOnce, Variant
  <2>6. StopHasReason'
    BY <1>1, <2>1 DEF storeVars, IInv, StopHasReason, Decisive, Is, Variant
  <2>7. FollowsPolicy'
    BY <1>1, <2>2 DEF FollowsPolicy
  <2> QED BY <1>2, <2>4, <2>5, <2>6, <2>7 DEF IInv
<1> QED BY <1>3, <1>4 DEF ParentRequest, ParentPops, ParentCalls, opVars

-----------------------------------------------------------------------------
(* Theorems. *)

LEMMA InitSatisfiesInvariant == Init => IInv
<1> SUFFICES ASSUME Init PROVE IInv
  OBVIOUS
<1>1. TypeOK
  <2>1. 0 \in 0..Cardinality(Children)
    BY FS_CardinalityType
  <2>2. <<>> \in Seq(Children) /\ <<>> \in Seq(Completions)
    BY EmptySeq
  <2> QED BY <2>1, <2>2 DEF Init, TypeOK, Phases, ChildPhases
<1>2. ChildrenFollowStart /\ CountIsOpen /\ NullaryWaits /\ CompletedOnce
  BY DEF Init, ChildrenFollowStart, CountIsOpen, NullaryWaits, CompletedOnce
<1>3. Recorded /\ ErrorIsFirst /\ StoredIsPreferred
  BY DEF Init, Recorded, ErrorIsFirst, StoredIsPreferred, Some
<1>4. StopHasReason /\ FollowsPolicy
  BY DEF Init, StopHasReason, FollowsPolicy
<1> QED BY <1>1, <1>2, <1>3, <1>4 DEF IInv

LEMMA StutteringKeepsInvariant ==
    ASSUME IInv, UNCHANGED vars
    PROVE  IInv'
<1>1. /\ UNCHANGED <<shape, storeVars, pc, opVars, parentVars, completed>>
      /\ UNCHANGED <<shape, phase, linked, requested, count, caught, stored, outcome,
                     order, pc, parentStop, popped, completed>>
  BY DEF vars, storeVars, opVars, parentVars
<1>2. TypeOK' /\ ChildrenFollowStart' /\ CountIsOpen' /\ NullaryWaits' /\ CompletedOnce'
  BY <1>1 DEF IInv, TypeOK, ChildrenFollowStart, CountIsOpen, NullaryWaits, CompletedOnce,
        Variant, Open
<1>3. Recorded' /\ ErrorIsFirst' /\ StoredIsPreferred'
  BY <1>1, ChoiceUntouched
<1>4. StopHasReason'
  BY <1>1 DEF IInv, StopHasReason, Decisive, Is, Variant
<1>5. FollowsPolicy'
  BY <1>1, FollowsPolicyKept
<1> QED BY <1>2, <1>3, <1>4, <1>5 DEF IInv

LEMMA InvariantHolds == Spec => []IInv
<1>1. IInv /\ [Next]_vars => IInv'
  <2> SUFFICES ASSUME IInv, [Next]_vars PROVE IInv'
    OBVIOUS
  <2>1. CASE EmplaceCallback \/ StartNullary \/ Refuse
    BY <2>1, RegistrationKeepsInvariant
  <2>2. CASE Begin \/ \E c \in Children : StartChild(c)
    BY <2>2, StartingKeepsInvariant
  <2>3. ASSUME NEW c \in Children, ChildCompletes(c) PROVE IInv'
    BY <2>3, CompletionKeepsInvariant
  <2>4. ASSUME NEW c \in Children, StoreError(c) PROVE IInv'
    BY <2>4, StoringKeepsInvariant
  <2>5. ASSUME NEW c \in Children, RequestStop(c) \/ Decrement(c) \/ ResetCallback(c)
        PROVE  IInv'
    BY <2>5, SignallingKeepsInvariant
  <2>6. CASE CompleteInStart \/ \E c \in Children : Complete(c)
    <3>1. phase' = "aborted" => CompleteInStart
      BY <2>6 DEF Complete
    <3> QED BY <2>6, <3>1, CompletingKeepsInvariant, AbortingKeepsInvariant
  <2>7. CASE ParentRequest \/ ParentPops \/ ParentCalls
    BY <2>7, ParentKeepsInvariant
  <2>8. CASE UNCHANGED vars
    BY <2>8, StutteringKeepsInvariant
  <2> QED
    BY <2>1, <2>2, <2>3, <2>4, <2>5, <2>6, <2>7, <2>8 DEF Next, StartGoesOn, ChildGoesOn
<1> QED BY <1>1, InitSatisfiesInvariant, PTL DEF Spec

\* Every variable keeps its type, the count above all: it never wraps around.
THEOREM RaceTypeCorrect == Spec => []TypeOK
<1>1. IInv => TypeOK
  BY DEF IInv
<1> QED BY <1>1, InvariantHolds, PTL

\* The receiver is completed at most once, and only when every child that was
\* started is done with the operation.
THEOREM RaceCompletesLast == Spec => []CompletesLast
<1>1. IInv => CompletesLast
  BY DEF IInv, CompletedOnce, ChildrenFollowStart, CompletesLast
<1> QED BY <1>1, InvariantHolds, PTL

\* The completion is the one that when_all, or the flavour of when_any, promises,
\* except where a synchronous when_all does not notice that a child was stopped.
THEOREM RaceFollowsPolicy == Spec => []FollowsPolicy
<1>1. IInv => FollowsPolicy
  BY DEF IInv
<1> QED BY <1>1, InvariantHolds, PTL
=============================================================================
