------------------------- MODULE TimerManagerProofs -------------------------
(***************************************************************************)
(* Theorems about TimerManager, for every set of tasks and servers, every  *)
(* clock and every preemption.                                             *)
(***************************************************************************)
EXTENDS TimerManager, FiniteSetTheorems, SequenceTheorems,
        WellFoundedInduction, TLAPS

-----------------------------------------------------------------------------
(* What insert, push_back, pop_front and remove do to the nodes of a list and *)
(* to their order.                                                           *)

\* A set of natural numbers has a least element: find_if's first match.
LEMMA LeastNatural ==
    ASSUME NEW T \in SUBSET Nat, T # {}
    PROVE  \E x \in T : \A y \in T : x <= y
<1> DEFINE R == OpToRel(<, Nat)
<1>1. \E x \in T : \A y \in T : ~(<<y, x>> \in R)
  BY NatLessThanWellFounded, WFMin, Zenon
<1>2. \A x, y \in Nat : x < y => <<x, y>> \in R
  BY DEF OpToRel
<1> HIDE DEF R
<1>3. PICK x \in T : \A y \in T : ~(<<y, x>> \in R)
  BY <1>1
<1>4. \A y \in T : ~(y < x)
  BY <1>2, <1>3
<1> QED BY <1>4

\* Inserting a node yields a list one longer, with the node at the position.
LEMMA InsertShape ==
    ASSUME NEW S, NEW list \in Seq(S), NEW n \in S,
           NEW pos \in 1..Len(list) + 1
    PROVE  /\ Insert(list, pos, n) \in Seq(S)
           /\ Len(Insert(list, pos, n)) = Len(list) + 1
           /\ \A i \in 1..Len(list) + 1 : Insert(list, pos, n)[i] =
                IF i < pos THEN list[i] ELSE IF i = pos THEN n ELSE list[i - 1]
<1> DEFINE front == SubSeq(list, 1, pos - 1)
           back == SubSeq(list, pos, Len(list))
           mid == front \o <<n>>
<1>1. /\ front \in Seq(S) /\ Len(front) = pos - 1
      /\ \A i \in 1..pos - 1 : front[i] = list[i]
  BY SubSeqProperties
<1>2. /\ back \in Seq(S) /\ Len(back) = Len(list) - pos + 1
      /\ \A i \in 1..Len(list) - pos + 1 : back[i] = list[pos + i - 1]
  BY SubSeqProperties
<1>3. /\ mid \in Seq(S) /\ Len(mid) = pos
      /\ \A i \in 1..pos : mid[i] = IF i = pos THEN n ELSE list[i]
  <2> HIDE DEF front
  <2> QED BY <1>1
<1>4. Insert(list, pos, n) = mid \o back
  BY DEF Insert, InsertAt
<1> HIDE DEF mid, back
<1>5. /\ mid \o back \in Seq(S)
      /\ Len(mid \o back) = Len(mid) + Len(back)
      /\ \A i \in 1..Len(mid) + Len(back) : (mid \o back)[i] =
           IF i <= Len(mid) THEN mid[i] ELSE back[i - Len(mid)]
  BY <1>2, <1>3, ConcatProperties, Zenon
<1>6. ASSUME NEW i \in 1..Len(list) + 1
      PROVE  (mid \o back)[i] =
                IF i < pos THEN list[i] ELSE IF i = pos THEN n ELSE list[i - 1]
  <2>1. CASE i <= pos
    BY <2>1, <1>2, <1>3, <1>5
  <2>2. CASE i > pos
    <3>1. /\ i \in 1..Len(mid) + Len(back) /\ ~(i <= Len(mid))
          /\ i - pos \in 1..Len(list) - pos + 1
      BY <2>2, <1>2, <1>3
    <3>2. (mid \o back)[i] = back[i - pos]
      BY <3>1, <1>3, <1>5
    <3>3. back[i - pos] = list[pos + (i - pos) - 1]
      BY <3>1, <1>2
    <3>4. pos + (i - pos) - 1 = i - 1
      OBVIOUS
    <3> QED BY <2>2, <3>2, <3>3, <3>4
  <2>3. i <= pos \/ i > pos
    OBVIOUS
  <2> HIDE DEF front
  <2> QED BY <2>1, <2>2, <2>3, Zenon
<1>7. Len(mid) + Len(back) = Len(list) + 1
  BY <1>2, <1>3
<1> QED BY <1>4, <1>5, <1>6, <1>7

\* Removing the node at a position yields a list one shorter.
LEMMA RemoveAtShape ==
    ASSUME NEW S, NEW list \in Seq(S), NEW pos \in 1..Len(list)
    PROVE  /\ RemoveAt(list, pos) \in Seq(S)
           /\ Len(RemoveAt(list, pos)) = Len(list) - 1
           /\ \A i \in 1..Len(list) - 1 : RemoveAt(list, pos)[i] =
                IF i < pos THEN list[i] ELSE list[i + 1]
<1> DEFINE front == SubSeq(list, 1, pos - 1)
           back == SubSeq(list, pos + 1, Len(list))
<1>1. /\ front \in Seq(S) /\ Len(front) = pos - 1
      /\ \A i \in 1..pos - 1 : front[i] = list[i]
  BY SubSeqProperties
<1>2. /\ back \in Seq(S) /\ Len(back) = Len(list) - pos
      /\ \A i \in 1..Len(list) - pos : back[i] = list[pos + i]
  BY SubSeqProperties
<1>3. RemoveAt(list, pos) = front \o back
  BY DEF RemoveAt
<1> HIDE DEF front, back
<1>4. /\ front \o back \in Seq(S)
      /\ Len(front \o back) = Len(front) + Len(back)
      /\ \A i \in 1..Len(front) + Len(back) : (front \o back)[i] =
           IF i <= Len(front) THEN front[i] ELSE back[i - Len(front)]
  BY <1>1, <1>2, ConcatProperties, Zenon
<1>5. ASSUME NEW i \in 1..Len(list) - 1
      PROVE  (front \o back)[i] = IF i < pos THEN list[i] ELSE list[i + 1]
  <2>1. CASE i < pos
    BY <2>1, <1>1, <1>2, <1>4
  <2>2. CASE ~(i < pos)
    <3>1. (front \o back)[i] = back[i - (pos - 1)]
      BY <2>2, <1>1, <1>2, <1>4
    <3>2. i - (pos - 1) \in 1..Len(list) - pos
      BY <2>2
    <3>3. back[i - (pos - 1)] = list[pos + (i - (pos - 1))]
      BY <3>2, <1>2
    <3>4. pos + (i - (pos - 1)) = i + 1
      OBVIOUS
    <3> QED BY <2>2, <3>1, <3>3, <3>4
  <2> QED BY <2>1, <2>2
<1>6. Len(front) + Len(back) = Len(list) - 1
  BY <1>1, <1>2
<1> QED BY <1>3, <1>4, <1>5, <1>6

\* Inserting a node that is not linked: it joins the list, the others keep
\* their order, and it follows the nodes in front of the position.
LEMMA InsertNode ==
    ASSUME NEW S, NEW list \in Seq(S), NEW n \in S, n \notin Nodes(list),
           Linear(list), NEW pos \in 1..Len(list) + 1
    PROVE  LET new == Insert(list, pos, n) IN
           /\ Linear(new)
           /\ Nodes(new) = Nodes(list) \cup {n}
           /\ \A x, y : Before(list, x, y) => Before(new, x, y)
           /\ \A i \in 1..pos - 1 : Before(new, list[i], n)
<1> DEFINE new == Insert(list, pos, n)
           At(i) == IF i < pos THEN i ELSE i + 1
<1>1. /\ new \in Seq(S) /\ Len(new) = Len(list) + 1
      /\ \A i \in 1..Len(list) + 1 : new[i] =
           IF i < pos THEN list[i] ELSE IF i = pos THEN n ELSE list[i - 1]
  BY InsertShape
<1>2. new[pos] = n /\ pos \in 1..Len(new)
  BY <1>1
<1> HIDE DEF new
<1>3. \A i \in 1..Len(list) : At(i) \in 1..Len(new) /\ new[At(i)] = list[i]
  BY <1>1
<1>4. \A i \in 1..Len(new) : i # pos =>
        \E k \in 1..Len(list) : i = At(k) /\ new[i] = list[k]
  <2> SUFFICES ASSUME NEW i \in 1..Len(new), i # pos
               PROVE  \E k \in 1..Len(list) : i = At(k) /\ new[i] = list[k]
    OBVIOUS
  <2>1. CASE i < pos
    BY <2>1, <1>1
  <2>2. CASE i > pos
    <3>1. i - 1 \in 1..Len(list) /\ At(i - 1) = i /\ new[i] = list[i - 1]
      BY <2>2, <1>1
    <3> QED BY <3>1
  <2> QED BY <2>1, <2>2, <1>1
<1>5. Linear(new)
  <2> SUFFICES ASSUME NEW i \in 1..Len(new), NEW j \in 1..Len(new),
                      new[i] = new[j]
               PROVE  i = j
    BY DEF Linear
  <2> HIDE DEF At
  <2> QED BY <1>2, <1>4 DEF Linear, Nodes
<1>6. Nodes(new) = Nodes(list) \cup {n}
  <2> HIDE DEF At
  <2>1. Nodes(new) \subseteq Nodes(list) \cup {n}
    BY <1>2, <1>4 DEF Nodes
  <2>2. Nodes(list) \subseteq Nodes(new)
    BY <1>3 DEF Nodes
  <2>3. n \in Nodes(new)
    BY <1>2 DEF Nodes
  <2> QED BY <2>1, <2>2, <2>3
<1>7. \A x, y : Before(list, x, y) => Before(new, x, y)
  <2>1. \A i, j \in 1..Len(list) : i < j => At(i) < At(j)
    OBVIOUS
  <2> HIDE DEF At
  <2> QED BY <2>1, <1>3 DEF Before
<1>8. \A i \in 1..pos - 1 : Before(new, list[i], n)
  BY <1>1, <1>2 DEF Before
<1> QED BY <1>5, <1>6, <1>7, <1>8 DEF new

\* push_back is the insertion behind the last node.
LEMMA PushBackNode ==
    ASSUME NEW S, NEW list \in Seq(S), NEW n \in S, n \notin Nodes(list),
           Linear(list)
    PROVE  /\ Linear(Append(list, n))
           /\ Nodes(Append(list, n)) = Nodes(list) \cup {n}
           /\ \A x, y : Before(list, x, y) => Before(Append(list, n), x, y)
           /\ \A x \in Nodes(list) : Before(Append(list, n), x, n)
<1> DEFINE new == Append(list, n)
<1>1. /\ new \in Seq(S) /\ Len(new) = Len(list) + 1
      /\ \A i \in 1..Len(list) : new[i] = list[i]
      /\ new[Len(list) + 1] = n
  BY AppendProperties
<1> HIDE DEF new
<1>2. Linear(new)
  BY <1>1 DEF Linear, Nodes
<1>3. Nodes(new) = Nodes(list) \cup {n}
  BY <1>1 DEF Nodes
<1>4. \A x, y : Before(list, x, y) => Before(new, x, y)
  BY <1>1 DEF Before
<1>5. \A x \in Nodes(list) : Before(new, x, n)
  BY <1>1 DEF Before, Nodes
<1> QED BY <1>2, <1>3, <1>4, <1>5 DEF new

\* pop_front takes the first node and leaves the order of the others.
LEMMA PopFrontNode ==
    ASSUME NEW S, NEW list \in Seq(S), list # <<>>, Linear(list)
    PROVE  /\ Linear(Tail(list))
           /\ Nodes(Tail(list)) = Nodes(list) \ {Head(list)}
           /\ Head(list) \in Nodes(list)
           /\ \A x, y : /\ Before(list, x, y) /\ x # Head(list)
                        => Before(Tail(list), x, y)
<1> DEFINE new == Tail(list)
<1>1. /\ new \in Seq(S) /\ Len(new) = Len(list) - 1
      /\ \A i \in 1..Len(new) : new[i] = list[i + 1]
      /\ Head(list) = list[1] /\ Len(list) >= 1
  BY HeadTailProperties
<1> HIDE DEF new
<1>2. \A i \in 2..Len(list) : i - 1 \in 1..Len(new) /\ new[i - 1] = list[i]
  BY <1>1
<1>3. Linear(new)
  BY <1>1 DEF Linear
<1>4. Nodes(new) = Nodes(list) \ {Head(list)}
  BY <1>1, <1>2 DEF Nodes, Linear
<1>5. Head(list) \in Nodes(list)
  BY <1>1 DEF Nodes
<1>6. ASSUME NEW x, NEW y, Before(list, x, y), x # Head(list)
      PROVE  Before(new, x, y)
  <2>1. PICK i \in 1..Len(list), j \in 1..Len(list) :
             i < j /\ list[i] = x /\ list[j] = y
    BY <1>6 DEF Before
  <2>2. i \in 2..Len(list) /\ j \in 2..Len(list)
    BY <1>1, <1>6, <2>1
  <2> QED BY <1>2, <2>1, <2>2 DEF Before
<1> QED BY <1>3, <1>4, <1>5, <1>6 DEF new

\* remove takes the node out and leaves the order of the others.
LEMMA UnlinkNode ==
    ASSUME NEW S, NEW list \in Seq(S), Linear(list), NEW n \in Nodes(list)
    PROVE  LET new == Unlink(list, n) IN
           /\ new \in Seq(S)
           /\ Len(new) = Len(list) - 1
           /\ Linear(new)
           /\ Nodes(new) = Nodes(list) \ {n}
           /\ \A x, y : /\ Before(list, x, y) /\ x # n /\ y # n
                        => Before(new, x, y)
           /\ \A i, j \in 1..Len(new) : i < j => Before(list, new[i], new[j])
<1> DEFINE new == Unlink(list, n)
           pos == PositionOf(list, n)
           From(i) == IF i < pos THEN i ELSE i + 1
           To(i) == IF i < pos THEN i ELSE i - 1
<1>1. pos \in 1..Len(list) /\ list[pos] = n
  BY DEF PositionOf, Nodes
<1>2. /\ new \in Seq(S) /\ Len(new) = Len(list) - 1
      /\ \A i \in 1..Len(list) - 1 : new[i] =
           IF i < pos THEN list[i] ELSE list[i + 1]
  BY <1>1, RemoveAtShape DEF Unlink
<1> HIDE DEF new, pos
<1>3. \A i \in 1..Len(new) : /\ From(i) \in 1..Len(list)
                             /\ From(i) # pos
                             /\ new[i] = list[From(i)]
  BY <1>1, <1>2
<1>4. \A i \in 1..Len(list) : i # pos => /\ To(i) \in 1..Len(new)
                                         /\ new[To(i)] = list[i]
  <2> SUFFICES ASSUME NEW i \in 1..Len(list), i # pos
               PROVE  To(i) \in 1..Len(new) /\ new[To(i)] = list[i]
    OBVIOUS
  <2>1. CASE i < pos
    BY <2>1, <1>1, <1>2
  <2>2. CASE i > pos
    <3>1. i - 1 \in 1..Len(list) - 1 /\ ~(i - 1 < pos) /\ To(i) = i - 1
      BY <2>2, <1>1
    <3>2. new[i - 1] = list[i - 1 + 1]
      BY <3>1, <1>2
    <3> QED BY <3>1, <3>2, <1>2
  <2> QED BY <2>1, <2>2, <1>1
<1>5. \A i, j \in 1..Len(new) : From(i) = From(j) => i = j
  BY <1>1, <1>2
<1>6. \A i, j \in 1..Len(new) : i < j => From(i) < From(j)
  BY <1>1, <1>2
<1>7. \A i, j \in 1..Len(list) : i < j /\ i # pos /\ j # pos => To(i) < To(j)
  BY <1>1
<1> HIDE DEF From, To
<1>8. Linear(new)
  BY <1>3, <1>5 DEF Linear
<1>9. Nodes(new) = Nodes(list) \ {n}
  <2>1. ASSUME NEW i \in 1..Len(new) PROVE new[i] \in Nodes(list) /\ new[i] # n
    <3>1. From(i) \in 1..Len(list) /\ From(i) # pos /\ new[i] = list[From(i)]
      BY <1>3
    <3> QED BY <3>1, <1>1 DEF Nodes, Linear
  <2>2. ASSUME NEW i \in 1..Len(list), list[i] # n PROVE list[i] \in Nodes(new)
    <3>1. To(i) \in 1..Len(new) /\ new[To(i)] = list[i]
      BY <2>2, <1>1, <1>4
    <3> QED BY <3>1 DEF Nodes
  <2>3. Nodes(new) \subseteq Nodes(list) \ {n}
    BY <2>1 DEF Nodes
  <2>4. Nodes(list) \ {n} \subseteq Nodes(new)
    BY <2>2 DEF Nodes
  <2> QED BY <2>3, <2>4
<1>10. \A x, y : Before(list, x, y) /\ x # n /\ y # n => Before(new, x, y)
  <2> SUFFICES ASSUME NEW x, NEW y, Before(list, x, y), x # n, y # n
               PROVE  Before(new, x, y)
    OBVIOUS
  <2>1. PICK i \in 1..Len(list), j \in 1..Len(list) :
             i < j /\ list[i] = x /\ list[j] = y
    BY DEF Before
  <2>2. i # pos /\ j # pos
    BY <1>1, <2>1
  <2> QED BY <1>4, <1>7, <2>1, <2>2 DEF Before
<1>11. \A i, j \in 1..Len(new) : i < j => Before(list, new[i], new[j])
  BY <1>3, <1>6 DEF Before
<1> QED BY <1>2, <1>8, <1>9, <1>10, <1>11 DEF new

-----------------------------------------------------------------------------
(* The inductive invariant. *)

USE NoTaskAssumption, TimeAssumption, ModeAssumption, FiniteAssumption

\* A server is between its critical section and Finish exactly while it
\* holds a task.
HoldsWhileRunning == \A s \in Servers : pc[s] = "running" <=> cur[s] # NoTask

\* The invariant without the counter, whose type depends on CountIsWork.
QueueType ==
    /\ queue \in Seq(Tasks)
    /\ pending \in [Tasks -> BOOLEAN]
    /\ expiry \in [Tasks -> Times]
    /\ now \in Times
    /\ enabled \in BOOLEAN
    /\ event \in Times
    /\ pc \in [Servers -> {"idle", "entered", "running"}]
    /\ cur \in [Servers -> Tasks \cup {NoTask}]

IInv ==
    /\ QueueType
    /\ PendingIsQueued
    /\ Sorted
    /\ AlarmGuardsHead
    /\ CountIsWork
    /\ HoldsWhileRunning

-----------------------------------------------------------------------------
(* enqueue's position. *)

\* In a sorted queue find_if splits the queue in two: what expires no later
\* than e, and what expires strictly after.
LEMMA PositionSplits ==
    ASSUME QueueType, Sorted, NEW e \in Times
    PROVE  /\ InsertPosition(e) \in 1..Len(queue) + 1
           /\ \A i \in 1..InsertPosition(e) - 1 : expiry[queue[i]] <= e
           /\ \A i \in InsertPosition(e)..Len(queue) : e < expiry[queue[i]]
<1> DEFINE Fits(p) == /\ \A i \in 1..(p - 1) : expiry[queue[i]] <= e
                      /\ p <= Len(queue) => e < expiry[queue[p]]
           Late == {i \in 1..Len(queue) : e < expiry[queue[i]]}
<1>1. /\ Len(queue) \in Nat
      /\ \A i \in 1..Len(queue) : queue[i] \in Tasks /\ expiry[queue[i]] \in Nat
      /\ e \in Nat
  BY DEF QueueType, Times
<1>2. \E p \in 1..Len(queue) + 1 : Fits(p)
  <2>1. CASE Late = {}
    <3>1. Fits(Len(queue) + 1)
      BY <2>1, <1>1
    <3> QED BY <3>1, <1>1
  <2>2. CASE Late # {}
    <3>0. Late \in SUBSET Nat
      BY <1>1
    <3>1. PICK p \in Late : \A i \in Late : p <= i
      <4> HIDE DEF Late
      <4> QED BY <2>2, <3>0, LeastNatural
    <3>2. Fits(p)
      BY <3>1, <1>1
    <3> QED BY <3>1, <3>2, <1>1
  <2> QED BY <2>1, <2>2
<1>3. InsertPosition(e) \in 1..Len(queue) + 1 /\ Fits(InsertPosition(e))
  BY <1>2 DEF InsertPosition
<1>4. \A i \in InsertPosition(e)..Len(queue) : e < expiry[queue[i]]
  BY <1>1, <1>3 DEF Sorted
<1> QED BY <1>3, <1>4

-----------------------------------------------------------------------------
(* Each action preserves the invariant. *)

\* run_after and run_at, on an empty and on a running timer.
LEMMA ScheduleKeepsInvariant ==
    ASSUME IInv, NEW t \in Tasks, NEW e \in Times, Schedule(t, e)
    PROVE  IInv'
<1> USE DEF IInv
<1>1. /\ Len(queue) \in Nat
      /\ t \notin Nodes(queue)
      /\ pending' = [pending EXCEPT ![t] = TRUE]
      /\ expiry' = [expiry EXCEPT ![t] = e]
      /\ taskCount' = taskCount + 1
      /\ pc' = pc /\ cur' = cur
  BY DEF Schedule, PendingIsQueued, QueueType, srvVars
<1>2. Cardinality(Running) \in Nat /\ Running' = Running
  BY <1>1, FS_Subset, FS_CardinalityType DEF Running
<1>3. HoldsWhileRunning'
  BY <1>1 DEF HoldsWhileRunning
<1>4. CASE queue = <<>>
  <2>1. /\ queue' = Append(queue, t) /\ enabled' = TRUE /\ event' = e
        /\ now' \in {0, now}
    BY <1>4 DEF Schedule, StartAlarm, ClockRead
  <2>2. queue' \in Seq(Tasks) /\ Len(queue') = 1 /\ queue'[1] = t
    BY <1>4, <2>1, AppendProperties DEF QueueType
  <2>3. Nodes(queue') = {t} /\ Linear(queue')
    BY <2>2 DEF Nodes, Linear
  <2>4. Nodes(queue) = {}
    BY <1>4 DEF Nodes
  <2>5. QueueType'
    BY <1>1, <2>1, <2>2 DEF QueueType, Times
  <2>6. PendingIsQueued'
    BY <1>1, <2>3, <2>4 DEF PendingIsQueued, QueueType
  <2>7. Sorted'
    BY <2>2 DEF Sorted
  <2>8. AlarmGuardsHead'
    BY <1>1, <2>1, <2>2 DEF AlarmGuardsHead, QueueType
  <2>9. CountIsWork'
    BY <1>1, <1>2, <1>4, <2>2 DEF CountIsWork
  <2> QED BY <1>3, <2>5, <2>6, <2>7, <2>8, <2>9
<1>5. CASE queue # <<>>
  <2> DEFINE pos == InsertPosition(e)
  <2>1. /\ queue' = Insert(queue, pos, t)
        /\ event' = (IF pos = 1 THEN e ELSE event)
        /\ now' = now /\ enabled' = enabled
    BY <1>5 DEF Schedule, Enqueue
  <2>2. /\ pos \in 1..Len(queue) + 1
        /\ \A i \in 1..pos - 1 : expiry[queue[i]] <= e
        /\ \A i \in pos..Len(queue) : e < expiry[queue[i]]
    BY PositionSplits
  <2> HIDE DEF pos
  <2>3. /\ queue' \in Seq(Tasks)
        /\ Len(queue') = Len(queue) + 1
        /\ \A i \in 1..Len(queue) + 1 : queue'[i] =
             IF i < pos THEN queue[i] ELSE IF i = pos THEN t ELSE queue[i - 1]
    <3>1. queue \in Seq(Tasks)
      BY DEF QueueType
    <3> DEFINE new == Insert(queue, pos, t)
    <3>2. /\ new \in Seq(Tasks)
          /\ Len(new) = Len(queue) + 1
          /\ \A i \in 1..Len(queue) + 1 : new[i] =
               IF i < pos THEN queue[i] ELSE IF i = pos THEN t ELSE queue[i - 1]
      BY <2>2, <3>1, InsertShape
    <3> HIDE DEF new
    <3>3. queue' = new
      BY <2>1 DEF new
    <3> QED BY <3>2, <3>3
  <2>4. Linear(queue') /\ Nodes(queue') = Nodes(queue) \cup {t}
    BY <1>1, <2>1, <2>2, InsertNode DEF PendingIsQueued, QueueType
  <2>5. QueueType'
    BY <1>1, <2>1, <2>3 DEF QueueType, Times
  <2>6. PendingIsQueued'
    BY <1>1, <2>4 DEF PendingIsQueued, QueueType
  <2>7. Sorted'
    <3>1. expiry'[t] = e /\ e \in Nat
      BY <1>1 DEF QueueType, Times
    <3>2. \A i \in 1..Len(queue) : /\ expiry'[queue[i]] = expiry[queue[i]]
                                   /\ expiry[queue[i]] \in Nat
      BY <1>1 DEF QueueType, Times, Nodes
    <3>2a. \A i, j \in 1..Len(queue) :
             i < j => expiry'[queue[i]] <= expiry'[queue[j]]
      BY <3>2 DEF Sorted
    <3>3. SUFFICES ASSUME NEW i \in 1..Len(queue'), NEW j \in 1..Len(queue'),
                          i < j
                   PROVE  expiry'[queue'[i]] <= expiry'[queue'[j]]
      BY DEF Sorted
    <3>4. CASE j < pos
      BY <1>1, <2>2, <2>3, <3>2, <3>3, <3>4 DEF Sorted
    <3>5. CASE j = pos
      BY <1>1, <2>2, <2>3, <3>1, <3>2, <3>3, <3>5 DEF Sorted
    <3>6. CASE j > pos
      <4>1. queue'[j] = queue[j - 1] /\ j - 1 \in pos..Len(queue)
        BY <1>1, <2>2, <2>3, <3>6
      <4>2. CASE i < pos
        <5>1. queue'[i] = queue[i] /\ i \in 1..Len(queue) /\ i < j - 1
          BY <1>1, <2>2, <2>3, <3>6, <4>2
        <5> QED BY <1>1, <2>2, <3>2a, <4>1, <5>1
      <4>3. CASE i = pos
        BY <1>1, <2>2, <2>3, <3>1, <3>2, <4>1, <4>3
      <4>4. CASE i > pos
        <5>1. queue'[i] = queue[i - 1] /\ i - 1 \in 1..Len(queue)
          BY <1>1, <2>2, <2>3, <4>4
        <5> QED BY <1>1, <2>2, <3>2, <3>3, <4>1, <5>1 DEF Sorted
      <4> QED BY <4>2, <4>3, <4>4, <1>1, <2>2, <2>3
    <3> QED BY <3>4, <3>5, <3>6, <1>1, <2>2, <2>3
  <2>8. AlarmGuardsHead'
    <3>1. Head(queue') = queue'[1] /\ queue' # <<>> /\ Head(queue) = queue[1]
      BY <1>1, <1>5, <2>3 DEF QueueType
    <3>2. enabled /\ event = expiry[queue[1]]
      BY <1>5, <3>1 DEF AlarmGuardsHead
    <3>3. CASE pos = 1
      <4>1. queue'[1] = t /\ event' = e /\ expiry'[t] = e
        BY <1>1, <2>1, <2>3, <3>3 DEF QueueType
      <4> QED BY <2>1, <3>1, <3>2, <4>1 DEF AlarmGuardsHead
    <3>4. CASE pos # 1
      <4>1. /\ queue'[1] = queue[1] /\ event' = event
            /\ queue[1] \in Nodes(queue) /\ queue[1] \in Tasks
        BY <1>1, <1>5, <2>1, <2>2, <2>3, <3>4 DEF QueueType, Nodes
      <4>2. expiry'[queue[1]] = expiry[queue[1]]
        BY <1>1, <4>1 DEF QueueType
      <4> QED BY <2>1, <3>1, <3>2, <4>1, <4>2 DEF AlarmGuardsHead
    <3> QED BY <3>3, <3>4
  <2>9. CountIsWork'
    BY <1>1, <1>2, <2>3 DEF CountIsWork
  <2> QED BY <1>3, <2>5, <2>6, <2>7, <2>8, <2>9
<1> QED BY <1>4, <1>5

\* cancel unlinks a pending task and arms the alarm for the head that is left.
LEMMA CancelKeepsInvariant ==
    ASSUME IInv, NEW t \in Tasks, Cancel(t)
    PROVE  IInv'
<1> USE DEF IInv
<1>1. /\ queue' = Unlink(queue, t)
      /\ t \in Nodes(queue)
      /\ pending' = [pending EXCEPT ![t] = FALSE]
      /\ taskCount' = taskCount - 1
      /\ expiry' = expiry /\ pc' = pc /\ cur' = cur /\ now' = now
      /\ enabled' = (IF queue' = <<>> THEN FALSE ELSE enabled)
      /\ event' = (IF queue' = <<>> THEN event ELSE expiry[Head(queue')])
  BY DEF Cancel, ComputeNextEvent, PendingIsQueued
<1>2. queue \in Seq(Tasks) /\ Linear(queue) /\ Len(queue) \in Nat
  BY DEF QueueType, PendingIsQueued
<1>3. /\ queue' \in Seq(Tasks)
      /\ Len(queue') = Len(queue) - 1
      /\ Linear(queue')
      /\ Nodes(queue') = Nodes(queue) \ {t}
      /\ \A i, j \in 1..Len(queue') : i < j => Before(queue, queue'[i], queue'[j])
  BY <1>1, <1>2, UnlinkNode
<1>4. QueueType'
  <2>1. queue' # <<>> => Head(queue') \in Tasks
    BY <1>3, HeadTailProperties
  <2> QED BY <1>1, <1>3, <2>1 DEF QueueType
<1>5. PendingIsQueued'
  BY <1>1, <1>3 DEF PendingIsQueued, QueueType
<1>6. Sorted'
  <2>1. \A x, y : Before(queue, x, y) => expiry[x] <= expiry[y]
    BY DEF Sorted, Before
  <2> QED BY <1>1, <1>3, <2>1 DEF Sorted
<1>7. AlarmGuardsHead'
  <2>1. enabled
    BY <1>1, <1>2 DEF AlarmGuardsHead, Nodes
  <2> QED BY <1>1, <2>1 DEF AlarmGuardsHead
<1>8. CountIsWork'
  <2>1. Cardinality(Running) \in Nat /\ Running' = Running
    BY <1>1, FS_Subset, FS_CardinalityType DEF Running
  <2> QED BY <1>1, <1>2, <1>3, <2>1 DEF CountIsWork
<1>9. HoldsWhileRunning'
  BY <1>1 DEF HoldsWhileRunning
<1> QED BY <1>4, <1>5, <1>6, <1>7, <1>8, <1>9

\* service_task's critical section moves the head from the queue to a server.
LEMMA ServiceKeepsInvariant ==
    ASSUME IInv, NEW s \in Servers, ServiceTask(s)
    PROVE  IInv'
<1> USE DEF IInv
<1>1. /\ queue # <<>> /\ queue' = Tail(queue)
      /\ pc[s] = "entered"
      /\ pending' = [pending EXCEPT ![Head(queue)] = FALSE]
      /\ pc' = [pc EXCEPT ![s] = "running"]
      /\ cur' = [cur EXCEPT ![s] = Head(queue)]
      /\ expiry' = expiry /\ taskCount' = taskCount /\ now' = now
      /\ enabled' = (IF queue' = <<>> THEN FALSE ELSE enabled)
      /\ event' = (IF queue' = <<>> THEN event ELSE expiry[Head(queue')])
  BY DEF ServiceTask, ComputeNextEvent
<1>2. queue \in Seq(Tasks) /\ Linear(queue) /\ Len(queue) \in Nat
  BY DEF QueueType, PendingIsQueued
<1>3. /\ Head(queue) \in Tasks
      /\ queue' \in Seq(Tasks)
      /\ Len(queue') = Len(queue) - 1
      /\ \A i \in 1..Len(queue') : queue'[i] = queue[i + 1]
  BY <1>1, <1>2, HeadTailProperties
<1>4. Linear(queue') /\ Nodes(queue') = Nodes(queue) \ {Head(queue)}
  BY <1>1, <1>2, PopFrontNode
<1>5. QueueType'
  <2>1. queue' # <<>> => Head(queue') \in Tasks
    BY <1>3, HeadTailProperties
  <2> QED BY <1>1, <1>3, <2>1 DEF QueueType
<1>6. PendingIsQueued'
  BY <1>1, <1>3, <1>4 DEF PendingIsQueued, QueueType
<1>7. Sorted'
  BY <1>1, <1>2, <1>3 DEF Sorted
<1>8. AlarmGuardsHead'
  BY <1>1 DEF AlarmGuardsHead
<1>9. CountIsWork'
  <2>1. Running' = Running \cup {s} /\ s \notin Running
    BY <1>1 DEF Running, QueueType
  <2>2. IsFiniteSet(Running) /\ Cardinality(Running) \in Nat
    BY FS_Subset, FS_CardinalityType DEF Running
  <2>3. Cardinality(Running') = Cardinality(Running) + 1
    BY <2>1, <2>2, FS_AddElement
  <2> QED BY <1>1, <1>2, <1>3, <2>2, <2>3 DEF CountIsWork
<1>10. HoldsWhileRunning'
  BY <1>1, <1>3 DEF HoldsWhileRunning, QueueType
<1> QED BY <1>5, <1>6, <1>7, <1>8, <1>9, <1>10

\* The end of run(): one task less to count.
LEMMA FinishKeepsInvariant ==
    ASSUME IInv, NEW s \in Servers, Finish(s)
    PROVE  IInv'
<1> USE DEF IInv
<1>1. /\ pc[s] = "running"
      /\ taskCount' = taskCount - 1
      /\ pc' = [pc EXCEPT ![s] = "idle"]
      /\ cur' = [cur EXCEPT ![s] = NoTask]
      /\ UNCHANGED <<queue, pending, expiry, now, enabled, event>>
  BY DEF Finish, halVars
<1>2. QueueType' /\ HoldsWhileRunning'
  BY <1>1 DEF QueueType, HoldsWhileRunning
<1>3. PendingIsQueued' /\ Sorted' /\ AlarmGuardsHead'
  BY <1>1 DEF PendingIsQueued, Sorted, AlarmGuardsHead
<1>4. CountIsWork'
  <2>1. Running' = Running \ {s} /\ s \in Running
    BY <1>1 DEF Running, QueueType
  <2>2. IsFiniteSet(Running) /\ Cardinality(Running) \in Nat
    BY FS_Subset, FS_CardinalityType DEF Running
  <2>3. Cardinality(Running') = Cardinality(Running) - 1
    BY <2>1, <2>2, FS_RemoveElement
  <2> QED BY <1>1, <2>2, <2>3 DEF CountIsWork, QueueType
<1> QED BY <1>2, <1>3, <1>4

\* Steps that touch neither the queue nor the running tasks.
LEMMA OtherStepsKeepInvariant ==
    ASSUME IInv,
           \/ \E s \in Servers : Interrupt(s) \/ ServiceNothing(s)
           \/ Tick
           \/ UNCHANGED vars
    PROVE  IInv'
<1> USE DEF IInv
<1>1. /\ UNCHANGED <<queue, pending, expiry, taskCount, enabled, event, cur>>
      /\ now' \in Times
      /\ pc' \in [Servers -> {"idle", "entered", "running"}]
      /\ \A s \in Servers : pc'[s] = "running" <=> pc[s] = "running"
  BY DEF Interrupt, ServiceNothing, Tick, vars, mgrVars, halVars, srvVars,
         QueueType, Times
<1>2. Running' = Running
  BY <1>1 DEF Running
<1>3. QueueType' /\ PendingIsQueued' /\ Sorted'
  BY <1>1 DEF QueueType, PendingIsQueued, Sorted
<1>4. AlarmGuardsHead' /\ CountIsWork' /\ HoldsWhileRunning'
  BY <1>1, <1>2 DEF AlarmGuardsHead, CountIsWork, HoldsWhileRunning
<1> QED BY <1>3, <1>4

\* The arguments of Schedule are tasks and times within the bounds.
LEMMA ScheduledTimes ==
    ASSUME IInv, NEW t \in Tasks, NEW d \in Durations, RunAfter(t, d)
    PROVE  ClockRead + d \in Times
  BY DEF RunAfter, ClockRead, IInv, QueueType, Times

\* The inductive invariant, of every behaviour.
LEMMA InvariantHolds == Spec => []IInv
<1>1. Init => IInv
  <2> SUFFICES ASSUME Init PROVE IInv
    OBVIOUS
  <2> USE DEF Init
  <2>1. QueueType /\ HoldsWhileRunning
    <3>1. queue \in Seq(Tasks) /\ 0 \in Times
      BY EmptySeq DEF Times
    <3>2. \A s \in Servers : pc[s] = "idle" /\ cur[s] = NoTask
      OBVIOUS
    <3>3. HoldsWhileRunning
      BY <3>2 DEF HoldsWhileRunning
    <3> QED BY <3>1, <3>3 DEF QueueType
  <2>2. PendingIsQueued /\ Sorted /\ AlarmGuardsHead
    BY DEF PendingIsQueued, Linear, Nodes, Sorted, AlarmGuardsHead
  <2>3. CountIsWork
    <3>1. Running = {}
      BY DEF Running
    <3> QED BY <3>1, FS_EmptySet DEF CountIsWork
  <2> QED BY <2>1, <2>2, <2>3 DEF IInv
<1>2. IInv /\ [Next]_vars => IInv'
  <2> SUFFICES ASSUME IInv, [Next]_vars PROVE IInv'
    OBVIOUS
  <2>1. ASSUME NEW t \in Tasks, NEW d \in Durations, RunAfter(t, d)
        PROVE  IInv'
    BY <2>1, ScheduledTimes, ScheduleKeepsInvariant DEF RunAfter
  <2>2. ASSUME NEW t \in Tasks, NEW e \in Times, RunAt(t, e)
        PROVE  IInv'
    BY <2>2, ScheduleKeepsInvariant DEF RunAt
  <2>3. ASSUME NEW t \in Tasks, Cancel(t)
        PROVE  IInv'
    BY <2>3, CancelKeepsInvariant
  <2>4. ASSUME NEW s \in Servers, ServiceTask(s)
        PROVE  IInv'
    BY <2>4, ServiceKeepsInvariant
  <2>5. ASSUME NEW s \in Servers, Finish(s)
        PROVE  IInv'
    BY <2>5, FinishKeepsInvariant
  <2> QED BY <2>1, <2>2, <2>3, <2>4, <2>5, OtherStepsKeepInvariant DEF Next
<1> QED BY <1>1, <1>2, PTL DEF Spec

-----------------------------------------------------------------------------
(* The theorems. *)

\* Type correctness: in particular task_count never becomes negative.
THEOREM TypeCorrect == Spec => []TypeOK
<1>1. IInv => TypeOK
  <2> SUFFICES ASSUME IInv PROVE TypeOK
    OBVIOUS
  <2>1. Cardinality(Running) \in Nat
    BY FS_Subset, FS_CardinalityType DEF Running
  <2>2. Len(queue) \in Nat
    BY DEF IInv, QueueType
  <2> QED BY <2>1, <2>2 DEF IInv, QueueType, TypeOK, CountIsWork
<1> QED BY <1>1, InvariantHolds, PTL

\* The pending flags, the queue's order, the alarm and the counter agree in
\* every reachable state, whoever calls the manager and whenever.
THEOREM ManagerIsConsistent == Spec => []Consistent
<1>1. IInv /\ TypeOK => Consistent
  BY DEF IInv, Consistent
<1> QED BY <1>1, InvariantHolds, TypeCorrect, PTL

\* A server that was interrupted, when nothing can call the manager before
\* its critical section: the alarm is still due, and it is alone.
InterruptIsDue ==
    \A s \in Servers : pc[s] = "entered" =>
        /\ queue # <<>>
        /\ event <= now
        /\ \A r \in Servers \ {s} : pc[r] # "entered"

\* Without preemption an entered server finds the head of the queue due.
LEMMA InterruptStaysDue == ASSUME ~Preemptive PROVE Spec => []InterruptIsDue
<1>1. Init => InterruptIsDue
  BY DEF Init, InterruptIsDue
<1>2. IInv /\ InterruptIsDue /\ [Next]_vars => InterruptIsDue'
  <2> SUFFICES ASSUME IInv, InterruptIsDue, [Next]_vars PROVE InterruptIsDue'
    OBVIOUS
  <2>0. /\ pc \in [Servers -> {"idle", "entered", "running"}]
        /\ now \in Nat /\ event \in Nat
    BY DEF IInv, QueueType, Times
  <2>1. ASSUME CanCall, pc' = pc PROVE InterruptIsDue'
    BY <2>1 DEF CanCall, InterruptIsDue
  <2>2. CASE \E t \in Tasks, d \in Durations : RunAfter(t, d)
    BY <2>1, <2>2 DEF RunAfter, Schedule, srvVars
  <2>3. CASE \E t \in Tasks, e \in Times : RunAt(t, e)
    BY <2>1, <2>3 DEF RunAt, Schedule, srvVars
  <2>4. CASE \E t \in Tasks : Cancel(t)
    BY <2>1, <2>4 DEF Cancel
  <2>5. ASSUME NEW s \in Servers, Interrupt(s) PROVE InterruptIsDue'
    <3>1. /\ \A r \in Servers : pc[r] # "entered"
          /\ enabled /\ event <= now
          /\ pc' = [pc EXCEPT ![s] = "entered"]
          /\ queue' = queue /\ event' = event /\ now' = now
      BY <2>5 DEF Interrupt, CanCall, mgrVars, halVars
    <3>2. queue # <<>>
      BY <3>1 DEF IInv, AlarmGuardsHead
    <3> QED BY <2>0, <3>1, <3>2 DEF InterruptIsDue
  <2>6. ASSUME NEW s \in Servers, ServiceNothing(s) \/ ServiceTask(s)
        PROVE  InterruptIsDue'
    <3>1. pc[s] = "entered" /\ pc' \in {[pc EXCEPT ![s] = "idle"],
                                        [pc EXCEPT ![s] = "running"]}
      BY <2>6 DEF ServiceNothing, ServiceTask
    <3>2. \A r \in Servers : pc'[r] # "entered"
      BY <2>0, <3>1 DEF InterruptIsDue
    <3> QED BY <3>2 DEF InterruptIsDue
  <2>7. ASSUME NEW s \in Servers, Finish(s) PROVE InterruptIsDue'
    BY <2>0, <2>7 DEF Finish, halVars, InterruptIsDue
  <2>8. CASE Tick
    BY <2>0, <2>8 DEF Tick, mgrVars, srvVars, InterruptIsDue
  <2>9. CASE UNCHANGED vars
    BY <2>9 DEF vars, InterruptIsDue
  <2> QED BY <2>2, <2>3, <2>4, <2>5, <2>6, <2>7, <2>8, <2>9 DEF Next
<1> QED BY <1>1, <1>2, InvariantHolds, PTL DEF Spec

\* Without preemption of the timer interrupt no task starts early.
THEOREM NoEarlyStart == ASSUME ~Preemptive PROVE Spec => NeverEarly
<1> DEFINE OnTime == \A s \in Servers :
                       s \in Running' \ Running => expiry[cur'[s]] <= now
<1>1. IInv /\ InterruptIsDue /\ [Next]_vars => [OnTime]_vars
  <2> SUFFICES ASSUME IInv, InterruptIsDue, Next,
                      NEW s \in Servers, s \in Running' \ Running
               PROVE  expiry[cur'[s]] <= now
    BY DEF vars
  <2>1. pc'[s] = "running" /\ pc[s] # "running"
    BY DEF Running
  <2>2. ServiceTask(s)
    BY <2>1 DEF Next, RunAfter, RunAt, Schedule, Cancel, Interrupt,
           ServiceNothing, ServiceTask, Finish, Tick, srvVars, IInv, QueueType
  <2>3. cur'[s] = Head(queue) /\ queue # <<>> /\ event <= now
    BY <2>2 DEF ServiceTask, IInv, QueueType, InterruptIsDue
  <2>4. event = expiry[Head(queue)]
    BY <2>3 DEF IInv, AlarmGuardsHead
  <2> QED BY <2>3, <2>4
<1> QED BY <1>1, InvariantHolds, InterruptStaysDue, PTL DEF Spec, NeverEarly

\* First come, first served, for tasks with equal expirations too.
THEOREM ServedInOrder == Spec => FirstComeFirstServed
<1>1. IInv /\ [Next]_vars => [InOrder]_vars
  <2> SUFFICES ASSUME IInv, Next PROVE InOrder
    OBVIOUS
  <2> USE DEF InOrder
  <2>0. queue \in Seq(Tasks) /\ Linear(queue) /\ expiry \in [Tasks -> Nat]
    BY DEF IInv, QueueType, PendingIsQueued, Times
  <2>1. ASSUME queue' = queue PROVE InOrder
    BY <2>1
  <2>2. ASSUME NEW n \in Tasks, NEW e \in Times, Schedule(n, e) PROVE InOrder
    <3>1. n \notin Nodes(queue) /\ expiry' = [expiry EXCEPT ![n] = e]
      BY <2>2 DEF Schedule, IInv, PendingIsQueued
    <3>2. CASE queue = <<>>
      <4>1. queue' = Append(queue, n) /\ Nodes(queue) = {}
        BY <2>2, <3>2 DEF Schedule, StartAlarm, Nodes
      <4>2. /\ \A x, y : Before(queue, x, y) => Before(queue', x, y)
        BY <2>0, <3>1, <4>1, PushBackNode
      <4> QED BY <4>1, <4>2
    <3>3. CASE queue # <<>>
      <4> DEFINE pos == InsertPosition(e)
      <4>1. queue' = Insert(queue, pos, n)
        BY <2>2, <3>3 DEF Schedule, Enqueue
      <4>2. /\ pos \in 1..Len(queue) + 1
            /\ \A i \in pos..Len(queue) : e < expiry[queue[i]]
        BY PositionSplits DEF IInv
      <4> HIDE DEF pos
      <4>3. /\ Nodes(queue') = Nodes(queue) \cup {n}
            /\ \A x, y : Before(queue, x, y) => Before(queue', x, y)
            /\ \A i \in 1..pos - 1 : Before(queue', queue[i], n)
        BY <2>0, <3>1, <4>1, <4>2, InsertNode
      <4>4. ASSUME NEW t \in Nodes(queue), NEW u \in Nodes(queue') \ Nodes(queue),
                   expiry'[t] <= expiry'[u]
            PROVE  Before(queue', t, u)
        <5>1. u = n
          BY <4>3, <4>4
        <5>2. PICK i \in 1..Len(queue) : queue[i] = t
          BY DEF Nodes
        <5>3. t # n /\ t \in Tasks
          BY <2>0, <3>1, <5>2
        <5>4. expiry'[n] = e /\ expiry'[t] = expiry[t] /\ expiry[t] \in Nat
              /\ e \in Nat
          BY <2>0, <3>1, <5>3 DEF Times
        <5>5. i < pos
          BY <2>0, <4>2, <4>4, <5>1, <5>2, <5>4
        <5> QED BY <2>0, <4>2, <4>3, <5>1, <5>2, <5>5
      <4> QED BY <4>3, <4>4
    <3> QED BY <3>2, <3>3
  <2>3. ASSUME NEW n \in Tasks, Cancel(n) PROVE InOrder
    <3>1. n \in Nodes(queue) /\ queue' = Unlink(queue, n)
      BY <2>3 DEF Cancel, IInv, PendingIsQueued
    <3>2. /\ Nodes(queue') = Nodes(queue) \ {n}
          /\ \A x, y : Before(queue, x, y) /\ x # n /\ y # n => Before(queue', x, y)
      BY <2>0, <3>1, UnlinkNode
    <3> QED BY <3>2
  <2>4. ASSUME NEW s \in Servers, ServiceTask(s) PROVE InOrder
    <3>1. queue # <<>> /\ queue' = Tail(queue)
      BY <2>4 DEF ServiceTask
    <3>2. /\ Nodes(queue') = Nodes(queue) \ {Head(queue)}
          /\ \A x, y : Before(queue, x, y) /\ x # Head(queue) => Before(queue', x, y)
      BY <2>0, <3>1, PopFrontNode
    <3> QED BY <3>2
  <2>5. ASSUME NEW t \in Tasks, NEW d \in Durations, RunAfter(t, d)
        PROVE  InOrder
    BY <2>2, <2>5, ScheduledTimes DEF RunAfter
  <2>6. ASSUME NEW t \in Tasks, NEW e \in Times, RunAt(t, e) PROVE InOrder
    BY <2>2, <2>6 DEF RunAt
  <2>7. CASE Tick \/ \E s \in Servers :
               Interrupt(s) \/ ServiceNothing(s) \/ Finish(s)
    BY <2>1, <2>7 DEF Tick, Interrupt, ServiceNothing, Finish, mgrVars
  <2> HIDE DEF InOrder
  <2> QED BY <2>3, <2>4, <2>5, <2>6, <2>7 DEF Next
<1> QED BY <1>1, InvariantHolds, PTL DEF Spec, FirstComeFirstServed

\* Without preemption of the timer interrupt the manager implements a timer.
THEOREM ImplementsTimer == ASSUME ~Preemptive PROVE Spec => IsATimer
<1>1. Init => Abstract!Init
  BY DEF Init, Abstract!Init, Deadline, Abstract!Never
<1>2. IInv /\ InterruptIsDue /\ [Next]_vars => [Abstract!Next]_(Abstract!vars)
  <2> SUFFICES ASSUME IInv, InterruptIsDue, [Next]_vars
               PROVE  Abstract!Next \/ UNCHANGED Abstract!vars
    OBVIOUS
  <2>0. /\ pending \in [Tasks -> BOOLEAN] /\ expiry \in [Tasks -> Times]
        /\ \A e \in Times : e # -1 /\ e \in Nat
        /\ cur \in [Servers -> Tasks \cup {NoTask}]
    BY DEF IInv, QueueType, Times
  <2>1. ASSUME UNCHANGED <<pending, expiry, now, cur>>
        PROVE  UNCHANGED Abstract!vars
    BY <2>1 DEF Abstract!vars, Deadline
  <2>2. ASSUME NEW t \in Tasks, NEW e \in Times, Schedule(t, e)
        PROVE  Abstract!Accept(t, e)
    <3>1. /\ ~pending[t] /\ pending' = [pending EXCEPT ![t] = TRUE]
          /\ expiry' = [expiry EXCEPT ![t] = e] /\ cur' = cur
      BY <2>2 DEF Schedule, srvVars
    <3>2. Deadline[t] = -1 /\ Deadline' = [Deadline EXCEPT ![t] = e]
      BY <2>0, <3>1 DEF Deadline
    <3>3. now' = now \/ (queue = <<>> /\ now' = 0)
      BY <2>2 DEF Schedule, Enqueue, StartAlarm, ClockRead
    <3>4. queue = <<>> => Abstract!Scheduled = {}
      BY DEF Abstract!Scheduled, Abstract!Never, Deadline, IInv,
             PendingIsQueued, Nodes
    <3> QED BY <3>1, <3>2, <3>3, <3>4 DEF Abstract!Accept, Abstract!Never
  <2>3. ASSUME NEW t \in Tasks, Cancel(t) PROVE Abstract!Withdraw(t)
    <3>1. /\ pending[t] /\ pending' = [pending EXCEPT ![t] = FALSE]
          /\ expiry' = expiry /\ cur' = cur /\ now' = now
      BY <2>3 DEF Cancel, ComputeNextEvent
    <3>2. Deadline[t] # -1 /\ Deadline' = [Deadline EXCEPT ![t] = -1]
      BY <2>0, <3>1 DEF Deadline
    <3> QED BY <3>1, <3>2 DEF Abstract!Withdraw, Abstract!Never
  <2>4. ASSUME NEW s \in Servers, ServiceTask(s)
        PROVE  Abstract!Start(s, Head(queue))
    <3> DEFINE t == Head(queue)
    <3>1. /\ queue # <<>> /\ pc[s] = "entered"
          /\ pending' = [pending EXCEPT ![t] = FALSE]
          /\ cur' = [cur EXCEPT ![s] = t]
          /\ expiry' = expiry /\ now' = now
      BY <2>4 DEF ServiceTask, ComputeNextEvent
    <3>2. queue \in Seq(Tasks) /\ t = queue[1] /\ 1 \in 1..Len(queue)
      BY <3>1 DEF IInv, QueueType
    <3>3. t \in Tasks /\ pending[t]
      BY <3>2 DEF IInv, PendingIsQueued, Nodes
    <3>4. expiry[t] <= now
      BY <3>1 DEF IInv, AlarmGuardsHead, InterruptIsDue
    <3>5. \A u \in Tasks : pending[u] => expiry[t] <= expiry[u]
      <4> SUFFICES ASSUME NEW u \in Tasks, pending[u]
                   PROVE  expiry[t] <= expiry[u]
        OBVIOUS
      <4>1. PICK i \in 1..Len(queue) : queue[i] = u
        BY DEF IInv, PendingIsQueued, Nodes
      <4>2. CASE i = 1
        BY <2>0, <3>2, <3>3, <4>1, <4>2
      <4>3. CASE i # 1
        BY <3>2, <4>1, <4>3 DEF IInv, Sorted
      <4> QED BY <4>2, <4>3
    <3> HIDE DEF t
    <3>6. /\ Deadline[t] = expiry[t] /\ Deadline[t] # -1
          /\ Deadline' = [Deadline EXCEPT ![t] = -1]
      BY <2>0, <3>1, <3>3 DEF Deadline
    <3>7. cur[s] = NoTask
      BY <3>1 DEF IInv, HoldsWhileRunning
    <3>8. t \in Abstract!Scheduled
      BY <3>3, <3>6 DEF Abstract!Scheduled, Abstract!Never
    <3>9. \A u \in Abstract!Scheduled : Deadline[t] <= Deadline[u]
      BY <3>5, <3>6 DEF Abstract!Scheduled, Abstract!Never, Deadline
    <3>10. Deadline[t] <= now
      BY <3>4, <3>6
    <3> QED BY <3>1, <3>6, <3>7, <3>8, <3>9, <3>10
            DEF Abstract!Start, Abstract!Never, t
  <2>5. ASSUME NEW s \in Servers, Finish(s) PROVE Abstract!End(s)
    <3>1. /\ cur[s] # NoTask /\ cur' = [cur EXCEPT ![s] = NoTask]
          /\ UNCHANGED <<pending, expiry, now>>
      BY <2>5 DEF Finish, halVars, IInv, HoldsWhileRunning
    <3> QED BY <3>1 DEF Abstract!End, Deadline
  <2>6. CASE \E t \in Tasks, d \in Durations : RunAfter(t, d)
    <3>1. PICK t \in Tasks, d \in Durations : RunAfter(t, d)
      BY <2>6
    <3>2. Abstract!Accept(t, ClockRead + d) /\ ClockRead + d \in Times
      BY <2>2, <3>1, ScheduledTimes DEF RunAfter
    <3> QED BY <3>2 DEF Abstract!Next
  <2>7. CASE \E t \in Tasks, e \in Times : RunAt(t, e)
    BY <2>2, <2>7 DEF RunAt, Abstract!Next
  <2>8. CASE \E t \in Tasks : Cancel(t)
    BY <2>3, <2>8 DEF Abstract!Next
  <2>9. CASE \E s \in Servers : ServiceTask(s)
    <3>1. PICK s \in Servers : ServiceTask(s)
      BY <2>9
    <3>2. Head(queue) \in Tasks
      BY <3>1, HeadTailProperties DEF ServiceTask, IInv, QueueType
    <3> QED BY <2>4, <3>1, <3>2 DEF Abstract!Next
  <2>10. CASE \E s \in Servers : Finish(s)
    BY <2>5, <2>10 DEF Abstract!Next
  <2>11. CASE \E s \in Servers : Interrupt(s) \/ ServiceNothing(s)
    BY <2>1, <2>11 DEF Interrupt, ServiceNothing, mgrVars, halVars
  <2>12. CASE Tick
    <3>1. now' = now + 1 /\ UNCHANGED <<pending, expiry, cur>>
      BY <2>12 DEF Tick, mgrVars, srvVars
    <3> QED BY <3>1 DEF Abstract!Next, Abstract!Advance, Deadline
  <2>13. CASE UNCHANGED vars
    BY <2>1, <2>13 DEF vars
  <2> QED BY <2>6, <2>7, <2>8, <2>9, <2>10, <2>11, <2>12, <2>13 DEF Next
<1> QED BY <1>1, <1>2, InvariantHolds, InterruptStaysDue, PTL
        DEF Spec, IsATimer, Abstract!Spec
=============================================================================
