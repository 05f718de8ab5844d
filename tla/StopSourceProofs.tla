-------------------------- MODULE StopSourceProofs --------------------------
(***************************************************************************)
(* Theorems about StopSource, for every set of callbacks and requesters.   *)
(***************************************************************************)
EXTENDS StopSource, SequenceTheorems, TLAPS

-----------------------------------------------------------------------------
(* What push_back, pop_front and remove do to the nodes of a list. *)

\* Removing the node at a position yields a list one shorter.
LEMMA RemoveAtShape ==
    ASSUME NEW S, NEW list \in Seq(S), NEW pos \in 1..Len(list)
    PROVE  /\ RemoveAt(list, pos) \in Seq(S)
           /\ Len(RemoveAt(list, pos)) = Len(list) - 1
           /\ \A i \in 1..Len(list) - 1 : RemoveAt(list, pos)[i] =
                IF i < pos THEN list[i] ELSE list[i + 1]
<1> DEFINE front == SubSeq(list, 1, pos - 1)
           back == SubSeq(list, pos + 1, Len(list))
<1>1. /\ front \in Seq(S) /\ Len(front) = pos - 1
      /\ \A i \in 1..pos - 1 : front[i] = list[i]
  BY SubSeqProperties
<1>2. /\ back \in Seq(S) /\ Len(back) = Len(list) - pos
      /\ \A i \in 1..Len(list) - pos : back[i] = list[pos + i]
  BY SubSeqProperties
<1>3. RemoveAt(list, pos) = front \o back
  BY DEF RemoveAt
<1> HIDE DEF front, back
<1>4. /\ front \o back \in Seq(S)
      /\ Len(front \o back) = Len(front) + Len(back)
      /\ \A i \in 1..Len(front) + Len(back) : (front \o back)[i] =
           IF i <= Len(front) THEN front[i] ELSE back[i - Len(front)]
  BY <1>1, <1>2, ConcatProperties, Zenon
<1>5. ASSUME NEW i \in 1..Len(list) - 1
      PROVE  (front \o back)[i] = IF i < pos THEN list[i] ELSE list[i + 1]
  <2>1. CASE i < pos
    BY <2>1, <1>1, <1>2, <1>4
  <2>2. CASE ~(i < pos)
    <3>1. (front \o back)[i] = back[i - (pos - 1)]
      BY <2>2, <1>1, <1>2, <1>4
    <3>2. i - (pos - 1) \in 1..Len(list) - pos
      BY <2>2
    <3>3. back[i - (pos - 1)] = list[pos + (i - (pos - 1))]
      BY <3>2, <1>2
    <3>4. pos + (i - (pos - 1)) = i + 1
      OBVIOUS
    <3> QED BY <2>2, <3>1, <3>3, <3>4
  <2> QED BY <2>1, <2>2
<1>6. Len(front) + Len(back) = Len(list) - 1
  BY <1>1, <1>2
<1> QED BY <1>3, <1>4, <1>5, <1>6

\* push_back of a node that is not linked.
LEMMA PushBackNode ==
    ASSUME NEW S, NEW list \in Seq(S), NEW n \in S, n \notin Nodes(list),
           Linear(list)
    PROVE  /\ Linear(Append(list, n))
           /\ Nodes(Append(list, n)) = Nodes(list) \cup {n}
<1> DEFINE new == Append(list, n)
<1>1. /\ new \in Seq(S) /\ Len(new) = Len(list) + 1
      /\ \A i \in 1..Len(list) : new[i] = list[i]
      /\ new[Len(list) + 1] = n
  BY AppendProperties
<1> HIDE DEF new
<1>2. Linear(new)
  BY <1>1 DEF Linear, Nodes
<1>3. Nodes(new) = Nodes(list) \cup {n}
  BY <1>1 DEF Nodes
<1> QED BY <1>2, <1>3 DEF new

\* pop_front takes the first node.
LEMMA PopFrontNode ==
    ASSUME NEW S, NEW list \in Seq(S), list # <<>>, Linear(list)
    PROVE  /\ Linear(Tail(list))
           /\ Nodes(Tail(list)) = Nodes(list) \ {Head(list)}
           /\ Head(list) \in Nodes(list)
<1> DEFINE new == Tail(list)
<1>1. /\ new \in Seq(S) /\ Len(new) = Len(list) - 1
      /\ \A i \in 1..Len(new) : new[i] = list[i + 1]
      /\ Head(list) = list[1] /\ Len(list) >= 1
  BY HeadTailProperties
<1> HIDE DEF new
<1>2. \A i \in 2..Len(list) : i - 1 \in 1..Len(new) /\ new[i - 1] = list[i]
  BY <1>1
<1>3. Linear(new)
  BY <1>1 DEF Linear
<1>4. Nodes(new) = Nodes(list) \ {Head(list)}
  BY <1>1, <1>2 DEF Nodes, Linear
<1>5. Head(list) \in Nodes(list)
  BY <1>1 DEF Nodes
<1> QED BY <1>3, <1>4, <1>5 DEF new

\* remove takes the node out.
LEMMA UnlinkNode ==
    ASSUME NEW S, NEW list \in Seq(S), Linear(list), NEW n \in Nodes(list)
    PROVE  LET new == Unlink(list, n) IN
           /\ new \in Seq(S)
           /\ Linear(new)
           /\ Nodes(new) = Nodes(list) \ {n}
<1> DEFINE new == Unlink(list, n)
           pos == PositionOf(list, n)
           From(i) == IF i < pos THEN i ELSE i + 1
           To(i) == IF i < pos THEN i ELSE i - 1
<1>1. pos \in 1..Len(list) /\ list[pos] = n
  BY DEF PositionOf, Nodes
<1>2. /\ new \in Seq(S) /\ Len(new) = Len(list) - 1
      /\ \A i \in 1..Len(list) - 1 : new[i] =
           IF i < pos THEN list[i] ELSE list[i + 1]
  BY <1>1, RemoveAtShape DEF Unlink
<1> HIDE DEF new, pos
<1>3. \A i \in 1..Len(new) : /\ From(i) \in 1..Len(list)
                             /\ From(i) # pos
                             /\ new[i] = list[From(i)]
  BY <1>1, <1>2
<1>4. \A i \in 1..Len(list) : i # pos => /\ To(i) \in 1..Len(new)
                                         /\ new[To(i)] = list[i]
  <2> SUFFICES ASSUME NEW i \in 1..Len(list), i # pos
               PROVE  To(i) \in 1..Len(new) /\ new[To(i)] = list[i]
    OBVIOUS
  <2>1. CASE i < pos
    BY <2>1, <1>1, <1>2
  <2>2. CASE i > pos
    <3>1. i - 1 \in 1..Len(list) - 1 /\ ~(i - 1 < pos) /\ To(i) = i - 1
      BY <2>2, <1>1
    <3>2. new[i - 1] = list[i - 1 + 1]
      BY <3>1, <1>2
    <3> QED BY <3>1, <3>2, <1>2
  <2> QED BY <2>1, <2>2, <1>1
<1>5. \A i, j \in 1..Len(new) : From(i) = From(j) => i = j
  BY <1>1, <1>2
<1> HIDE DEF From, To
<1>6. Linear(new)
  BY <1>3, <1>5 DEF Linear
<1>7. Nodes(new) = Nodes(list) \ {n}
  <2>1. ASSUME NEW i \in 1..Len(new) PROVE new[i] \in Nodes(list) /\ new[i] # n
    <3>1. From(i) \in 1..Len(list) /\ From(i) # pos /\ new[i] = list[From(i)]
      BY <1>3
    <3> QED BY <3>1, <1>1 DEF Nodes, Linear
  <2>2. ASSUME NEW i \in 1..Len(list), list[i] # n PROVE list[i] \in Nodes(new)
    <3>1. To(i) \in 1..Len(new) /\ new[To(i)] = list[i]
      BY <2>2, <1>1, <1>4
    <3> QED BY <3>1 DEF Nodes
  <2>3. Nodes(new) \subseteq Nodes(list) \ {n}
    BY <2>1 DEF Nodes
  <2>4. Nodes(list) \ {n} \subseteq Nodes(new)
    BY <2>2 DEF Nodes
  <2> QED BY <2>3, <2>4
<1> QED BY <1>2, <1>6, <1>7 DEF new

-----------------------------------------------------------------------------
(* The inductive invariant. *)

USE NoneAssumption

\* Requester r has popped c and not called it yet.
Holds(r, c) == pc[r] = "popped" /\ cur[r] = c

\* The exchange lets one request through, ever.
OneRequest ==
    /\ \A r \in Requesters : pc[r] # "idle" => requested
    /\ \A r, q \in Requesters : pc[r] # "idle" /\ pc[q] # "idle" => r = q

\* A callback that waits, to be linked, called by its constructor, popped or
\* called, was not told; one that was constructed and waits for nothing was.
ToldUnlessWaiting ==
    \A c \in Callbacks :
        /\ calls[c] <= 1
        /\ life[c] \in {"none", "linking", "refused"} \/ pending[c] => calls[c] = 0
        /\ life[c] = "alive" /\ calls[c] = 0 =>
               pending[c] \/ \E r \in Requesters : Holds(r, c)

\* A callback that was popped was constructed; it waits for its call and is not
\* linked any more.
HeldIsUntold ==
    \A r \in Requesters : \A c \in Callbacks : Holds(r, c) =>
        /\ life[c] \in {"alive", "dead"}
        /\ ~pending[c]
        /\ calls[c] = 0

\* When the request has returned, nothing is linked and nothing will be: a
\* constructor that has read the flag as unset blocks the last look.
DrainedStaysEmpty ==
    requested /\ (\A r \in Requesters : pc[r] = "idle") =>
        callbacks = <<>> /\ lock = None

\* A constructor is refused only after the request.
RefusedIsRequested == \A c \in Callbacks : life[c] = "refused" => requested

IInv ==
    /\ TypeOK
    /\ PendingIsLinked
    /\ OneRequest
    /\ ToldUnlessWaiting
    /\ HeldIsUntold
    /\ DrainedStaysEmpty
    /\ RefusedIsRequested

-----------------------------------------------------------------------------
(* Each action preserves the invariant. *)

\* The list after its first or any linked callback has left it, or a new one
\* has joined.
LEMMA CallbackLists ==
    ASSUME TypeOK, PendingIsLinked
    PROVE  /\ callbacks # <<>> =>
               /\ Tail(callbacks) \in Seq(Callbacks) /\ Linear(Tail(callbacks))
               /\ Nodes(Tail(callbacks)) = Nodes(callbacks) \ {Head(callbacks)}
               /\ Head(callbacks) \in Nodes(callbacks)
           /\ \A c \in Nodes(callbacks) :
               /\ Unlink(callbacks, c) \in Seq(Callbacks)
               /\ Linear(Unlink(callbacks, c))
               /\ Nodes(Unlink(callbacks, c)) = Nodes(callbacks) \ {c}
           /\ \A c \in Callbacks \ Nodes(callbacks) :
               /\ Append(callbacks, c) \in Seq(Callbacks)
               /\ Linear(Append(callbacks, c))
               /\ Nodes(Append(callbacks, c)) = Nodes(callbacks) \cup {c}
           /\ Nodes(callbacks) \subseteq Callbacks
<1>1. callbacks \in Seq(Callbacks) /\ Linear(callbacks)
  BY DEF TypeOK, PendingIsLinked
<1>2. callbacks # <<>> => Tail(callbacks) \in Seq(Callbacks)
  BY <1>1, HeadTailProperties
<1>3. \A c \in Callbacks : Append(callbacks, c) \in Seq(Callbacks)
  BY <1>1, AppendProperties
<1>4. Nodes(callbacks) \subseteq Callbacks
  BY <1>1 DEF Nodes
<1> QED BY <1>1, <1>2, <1>3, <1>4, PopFrontNode, UnlinkNode, PushBackNode

\* The constructor of a callback.
LEMMA RegisterKeepsInvariant ==
    ASSUME IInv, NEW c \in Callbacks,
           \/ RegisterCheck(c) \/ RegisterLink(c)
           \/ RegisterRefused(c) \/ CallInConstructor(c)
    PROVE  IInv'
<1> USE DEF IInv
<1>1. CASE RegisterCheck(c)
  <2> USE <1>1 DEF RegisterCheck
  <2>1. TypeOK' /\ PendingIsLinked'
    BY DEF TypeOK, Lives, PendingIsLinked
  <2>2. OneRequest' /\ DrainedStaysEmpty' /\ RefusedIsRequested'
    BY DEF TypeOK, OneRequest, DrainedStaysEmpty, RefusedIsRequested
  <2>3. ToldUnlessWaiting' /\ HeldIsUntold'
    BY DEF TypeOK, ToldUnlessWaiting, HeldIsUntold, Holds
  <2> QED BY <2>1, <2>2, <2>3
<1>2. CASE RegisterLink(c)
  <2> USE <1>2 DEF RegisterLink
  <2>1. life[c] = "linking" /\ ~pending[c] /\ c \notin Nodes(callbacks)
    BY DEF TypeOK, PendingIsLinked
  <2>2. /\ callbacks' \in Seq(Callbacks) /\ Linear(callbacks')
        /\ Nodes(callbacks') = Nodes(callbacks) \cup {c}
    BY <2>1, CallbackLists
  <2>3. TypeOK'
    BY <2>1, <2>2 DEF TypeOK, Lives
  <2>4. PendingIsLinked'
    BY <2>1, <2>2 DEF TypeOK, PendingIsLinked
  <2>5. OneRequest' /\ DrainedStaysEmpty' /\ RefusedIsRequested'
    BY DEF TypeOK, OneRequest, DrainedStaysEmpty, RefusedIsRequested
  <2>6. ToldUnlessWaiting' /\ HeldIsUntold'
    BY <2>1 DEF TypeOK, ToldUnlessWaiting, HeldIsUntold, Holds
  <2> QED BY <2>3, <2>4, <2>5, <2>6
<1>3. CASE RegisterRefused(c)
  <2> USE <1>3 DEF RegisterRefused
  <2>1. TypeOK' /\ PendingIsLinked'
    BY DEF TypeOK, Lives, PendingIsLinked
  <2>2. OneRequest' /\ DrainedStaysEmpty' /\ RefusedIsRequested'
    BY DEF TypeOK, OneRequest, DrainedStaysEmpty, RefusedIsRequested
  <2>3. ToldUnlessWaiting' /\ HeldIsUntold'
    BY DEF TypeOK, ToldUnlessWaiting, HeldIsUntold, Holds
  <2> QED BY <2>1, <2>2, <2>3
<1>4. CASE CallInConstructor(c)
  <2> USE <1>4 DEF CallInConstructor
  <2>1. calls[c] = 0 /\ ~pending[c] /\ \A r \in Requesters : ~Holds(r, c)
    BY DEF ToldUnlessWaiting, PendingIsLinked, HeldIsUntold
  <2>2. TypeOK' /\ PendingIsLinked'
    BY DEF TypeOK, Lives, PendingIsLinked
  <2>3. OneRequest' /\ DrainedStaysEmpty' /\ RefusedIsRequested'
    BY DEF TypeOK, OneRequest, DrainedStaysEmpty, RefusedIsRequested
  <2>4. ToldUnlessWaiting' /\ HeldIsUntold'
    BY <2>1 DEF TypeOK, ToldUnlessWaiting, HeldIsUntold, Holds
  <2> QED BY <2>2, <2>3, <2>4
<1> QED BY <1>1, <1>2, <1>3, <1>4

\* The destructor of a callback.
LEMMA DestroyKeepsInvariant ==
    ASSUME IInv, NEW c \in Callbacks, Destroy(c)
    PROVE  IInv'
<1> USE DEF IInv, Destroy
<1>1. /\ callbacks' \in Seq(Callbacks) /\ Linear(callbacks')
      /\ Nodes(callbacks') = Nodes(callbacks) \ {c}
  <2>1. CASE pending[c]
    BY <2>1, CallbackLists DEF PendingIsLinked
  <2>2. CASE ~pending[c]
    BY <2>2 DEF TypeOK, PendingIsLinked
  <2> QED BY <2>1, <2>2
<1>2. TypeOK'
  BY <1>1 DEF TypeOK, Lives
<1>3. PendingIsLinked'
  BY <1>1 DEF TypeOK, PendingIsLinked
<1>4. OneRequest' /\ RefusedIsRequested'
  BY DEF TypeOK, OneRequest, RefusedIsRequested
<1>5. DrainedStaysEmpty'
  BY DEF DrainedStaysEmpty, PendingIsLinked, Nodes
<1>6. ToldUnlessWaiting' /\ HeldIsUntold'
  BY DEF TypeOK, ToldUnlessWaiting, HeldIsUntold, Holds
<1> QED BY <1>2, <1>3, <1>4, <1>5, <1>6

\* request_stop: the exchange, and the loop over the callbacks.
LEMMA RequestKeepsInvariant ==
    ASSUME IInv, NEW r \in Requesters,
           Request(r) \/ CallReturns(r) \/ Drained(r)
    PROVE  IInv'
<1> USE DEF IInv
<1>1. CASE Request(r)
  <2> USE <1>1 DEF Request
  <2>1. TypeOK' /\ PendingIsLinked'
    BY DEF TypeOK, Phases, PendingIsLinked
  <2>2. OneRequest' /\ DrainedStaysEmpty' /\ RefusedIsRequested'
    BY DEF TypeOK, OneRequest, DrainedStaysEmpty, RefusedIsRequested
  <2>3. ToldUnlessWaiting' /\ HeldIsUntold'
    BY DEF TypeOK, ToldUnlessWaiting, HeldIsUntold, Holds
  <2> QED BY <2>1, <2>2, <2>3
<1>2. CASE CallReturns(r)
  <2> USE <1>2 DEF CallReturns
  <2>1. TypeOK' /\ PendingIsLinked'
    BY DEF TypeOK, Phases, PendingIsLinked
  <2>2. OneRequest' /\ DrainedStaysEmpty' /\ RefusedIsRequested'
    BY DEF TypeOK, OneRequest, DrainedStaysEmpty, RefusedIsRequested
  <2>3. ToldUnlessWaiting' /\ HeldIsUntold'
    BY DEF TypeOK, ToldUnlessWaiting, HeldIsUntold, Holds
  <2> QED BY <2>1, <2>2, <2>3
<1>3. CASE Drained(r)
  <2> USE <1>3 DEF Drained
  <2>1. TypeOK' /\ PendingIsLinked'
    BY DEF TypeOK, Phases, PendingIsLinked
  <2>2. OneRequest' /\ DrainedStaysEmpty' /\ RefusedIsRequested'
    BY DEF TypeOK, OneRequest, DrainedStaysEmpty, RefusedIsRequested
  <2>3. ToldUnlessWaiting' /\ HeldIsUntold'
    BY DEF TypeOK, ToldUnlessWaiting, HeldIsUntold, Holds
  <2> QED BY <2>1, <2>2, <2>3
<1> QED BY <1>1, <1>2, <1>3

\* get_next_cb moves the first callback from the list to the requester.
LEMMA PopKeepsInvariant ==
    ASSUME IInv, NEW r \in Requesters, PopCallback(r)
    PROVE  IInv'
<1> USE DEF IInv, PopCallback
<1> DEFINE c == Head(callbacks)
<1>1. /\ c \in Callbacks
      /\ pending[c] /\ life[c] = "alive" /\ calls[c] = 0
      /\ callbacks' \in Seq(Callbacks) /\ Linear(callbacks')
      /\ Nodes(callbacks') = Nodes(callbacks) \ {c}
  BY CallbackLists DEF PendingIsLinked, ToldUnlessWaiting
<1> HIDE DEF c
<1>2. pending' = [pending EXCEPT ![c] = FALSE] /\ cur' = [cur EXCEPT ![r] = c]
  BY DEF c
<1>3. TypeOK'
  BY <1>1, <1>2 DEF TypeOK, Phases
<1>4. PendingIsLinked'
  BY <1>1, <1>2 DEF TypeOK, PendingIsLinked
<1>5. OneRequest' /\ DrainedStaysEmpty' /\ RefusedIsRequested'
  BY DEF TypeOK, OneRequest, DrainedStaysEmpty, RefusedIsRequested
<1>6. ToldUnlessWaiting' /\ HeldIsUntold'
  BY <1>1, <1>2 DEF TypeOK, ToldUnlessWaiting, HeldIsUntold, Holds
<1> QED BY <1>3, <1>4, <1>5, <1>6

\* The callback that was popped is told.
LEMMA CallKeepsInvariant ==
    ASSUME IInv, NEW r \in Requesters, CallCallback(r)
    PROVE  IInv'
<1> USE DEF IInv, CallCallback
<1> DEFINE c == cur[r]
<1>1. /\ c \in Callbacks /\ Holds(r, c)
      /\ \A q \in Requesters : pc[q] # "idle" => q = r
  BY DEF TypeOK, Holds, OneRequest
<1>2. life[c] \in {"alive", "dead"} /\ ~pending[c] /\ calls[c] = 0
  BY <1>1 DEF HeldIsUntold
<1>3. calls' = [calls EXCEPT ![c] = @ + 1]
  OBVIOUS
<1> HIDE DEF c
<1>4. TypeOK' /\ PendingIsLinked'
  BY <1>1, <1>3 DEF TypeOK, Phases, PendingIsLinked
<1>5. OneRequest' /\ DrainedStaysEmpty' /\ RefusedIsRequested'
  BY DEF TypeOK, OneRequest, DrainedStaysEmpty, RefusedIsRequested
<1>6. ToldUnlessWaiting' /\ HeldIsUntold'
  BY <1>1, <1>2, <1>3 DEF TypeOK, ToldUnlessWaiting, HeldIsUntold, Holds
<1> QED BY <1>4, <1>5, <1>6

\* The inductive invariant, of every behaviour.
LEMMA InvariantHolds == Spec => []IInv
<1>1. Init => IInv
  <2> SUFFICES ASSUME Init PROVE IInv
    OBVIOUS
  <2> USE DEF Init
  <2>1. TypeOK
    BY EmptySeq DEF TypeOK, Lives, Phases
  <2>2. PendingIsLinked
    BY DEF PendingIsLinked, Linear, Nodes
  <2>3. OneRequest /\ DrainedStaysEmpty /\ RefusedIsRequested
    BY DEF OneRequest, DrainedStaysEmpty, RefusedIsRequested
  <2>4. ToldUnlessWaiting /\ HeldIsUntold
    BY DEF ToldUnlessWaiting, HeldIsUntold, Holds
  <2> QED BY <2>1, <2>2, <2>3, <2>4 DEF IInv
<1>2. IInv /\ [Next]_vars => IInv'
  <2> SUFFICES ASSUME IInv, [Next]_vars PROVE IInv'
    OBVIOUS
  <2>1. CASE UNCHANGED vars
    BY <2>1 DEF vars, IInv, TypeOK, PendingIsLinked, OneRequest, ToldUnlessWaiting,
           HeldIsUntold, Holds, DrainedStaysEmpty, RefusedIsRequested
  <2> QED BY <2>1, RegisterKeepsInvariant, DestroyKeepsInvariant,
             RequestKeepsInvariant, PopKeepsInvariant, CallKeepsInvariant DEF Next
<1> QED BY <1>1, <1>2, PTL DEF Spec

-----------------------------------------------------------------------------
(* The theorems. *)

\* Whatever is registered and destroyed while callbacks are called, flags,
\* list, lock and lifetimes agree.
THEOREM SourceIsConsistent == Spec => []Consistent
<1>1. IInv => Consistent
  BY DEF IInv, Consistent
<1> QED BY <1>1, InvariantHolds, PTL

\* No interleaving of a registration, the exchange and the drain loses a
\* callback: all that exist when request_stop has returned were told.
THEOREM StopReachesEveryCallback == Spec => []StopReachesAll
<1>1. IInv => StopReachesAll
  <2> SUFFICES ASSUME IInv, requested, \A r \in Requesters : pc[r] = "idle",
                      NEW c \in Callbacks, life[c] = "alive"
               PROVE  calls[c] = 1
    BY DEF StopReachesAll
  <2>1. ~pending[c] /\ \A r \in Requesters : ~Holds(r, c)
    BY DEF IInv, DrainedStaysEmpty, PendingIsLinked, Nodes, Holds
  <2> QED BY <2>1 DEF IInv, TypeOK, ToldUnlessWaiting
<1> QED BY <1>1, InvariantHolds, PTL

\* No callback is told twice, by the request and by its constructor or by
\* either twice.
THEOREM CallbackToldAtMostOnce == Spec => []ToldAtMostOnce
<1>1. IInv => ToldAtMostOnce
  BY DEF IInv, ToldUnlessWaiting, ToldAtMostOnce
<1> QED BY <1>1, InvariantHolds, PTL
=============================================================================
