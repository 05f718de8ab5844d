-------------------------- MODULE TaskManagerProofs --------------------------
(***************************************************************************)
(* Theorems about TaskManager, for every set of tasks and priorities, and  *)
(* every choice of their requeue policies.                                 *)
(***************************************************************************)
EXTENDS TaskManager, FiniteSetTheorems, SequenceTheorems, TLAPS

-----------------------------------------------------------------------------
(* What push_back and pop_front do to the nodes of a list. *)

\* push_back of a node that is not linked.
LEMMA PushBackNode ==
    ASSUME NEW S, NEW list \in Seq(S), NEW n \in S, n \notin Nodes(list),
           Linear(list)
    PROVE  /\ Linear(Append(list, n))
           /\ Nodes(Append(list, n)) = Nodes(list) \cup {n}
<1> DEFINE new == Append(list, n)
<1>1. /\ new \in Seq(S) /\ Len(new) = Len(list) + 1
      /\ \A i \in 1..Len(list) : new[i] = list[i]
      /\ new[Len(list) + 1] = n
  BY AppendProperties
<1> HIDE DEF new
<1>2. Linear(new)
  BY <1>1 DEF Linear, Nodes
<1>3. Nodes(new) = Nodes(list) \cup {n}
  BY <1>1 DEF Nodes
<1> QED BY <1>2, <1>3 DEF new

\* pop_front takes the first node.
LEMMA PopFrontNode ==
    ASSUME NEW S, NEW list \in Seq(S), list # <<>>, Linear(list)
    PROVE  /\ Linear(Tail(list))
           /\ Nodes(Tail(list)) = Nodes(list) \ {Head(list)}
           /\ Head(list) \in Nodes(list)
<1> DEFINE new == Tail(list)
<1>1. /\ new \in Seq(S) /\ Len(new) = Len(list) - 1
      /\ \A i \in 1..Len(new) : new[i] = list[i + 1]
      /\ Head(list) = list[1] /\ Len(list) >= 1
  BY HeadTailProperties
<1> HIDE DEF new
<1>2. \A i \in 2..Len(list) : i - 1 \in 1..Len(new) /\ new[i - 1] = list[i]
  BY <1>1
<1>3. Linear(new)
  BY <1>1 DEF Linear
<1>4. Nodes(new) = Nodes(list) \ {Head(list)}
  BY <1>1, <1>2 DEF Nodes, Linear
<1>5. Head(list) \in Nodes(list)
  BY <1>1 DEF Nodes
<1> QED BY <1>3, <1>4, <1>5 DEF new

-----------------------------------------------------------------------------
(* The inductive invariant. *)

USE DeferredAssumption, NoTaskAssumption, FiniteAssumption

\* The invariant without the counter, whose type depends on CountIsWork.
HandlerType ==
    /\ queue \in [Priorities -> Seq(Tasks)]
    /\ pending \in [Tasks -> BOOLEAN]
    /\ irq \in [Priorities -> BOOLEAN]
    /\ pc \in [Priorities -> Phases]
    /\ local \in [Priorities -> Seq(Tasks)]
    /\ cur \in [Priorities -> Tasks \cup {NoTask}]
    /\ owed \subseteq Tasks

\* A handler has a task from its pop to its end.  Only a deferred one has a
\* queue of its own, while it serves.
ServesItsQueue ==
    \A p \in Priorities :
        /\ pc[p] \in {"popped", "taken", "running"} => cur[p] \in Tasks
        /\ pc[p] = "popped" => p \in Deferred
        /\ p \notin Deferred \/ pc[p] \in {"idle", "entered"} => local[p] = <<>>

IInv ==
    /\ HandlerType
    /\ ServesItsQueue
    /\ InOnePlace
    /\ CountIsWork
    /\ NoRequestForgotten
    /\ NoLostInterrupt

-----------------------------------------------------------------------------
(* What the actions do to the lines. *)

\* A line grows at the end of its second part and shrinks at the head of its
\* first one.
LEMMA LineParts ==
    ASSUME NEW S, NEW s \in Seq(S), NEW u \in Seq(S)
    PROVE  /\ \A e \in S : s \o Append(u, e) = Append(s \o u, e)
           /\ s # <<>> => /\ s \o u # <<>>
                          /\ Head(s \o u) = Head(s)
                          /\ Tail(s) \o u = Tail(s \o u)
<1>0. s \o u \in Seq(S)
  BY ConcatProperties
<1>1. ASSUME NEW e \in S PROVE s \o Append(u, e) = Append(s \o u, e)
  <2>1. <<e>> \in Seq(S)
    OBVIOUS
  <2>2. s \o (u \o <<e>>) = (s \o u) \o <<e>>
    BY <2>1, ConcatAssociative
  <2> QED BY <1>0, <2>2, AppendIsConcat
<1>2. ASSUME s # <<>>
      PROVE  /\ s \o u # <<>>
             /\ Head(s \o u) = Head(s)
             /\ Tail(s) \o u = Tail(s \o u)
  <2>1. /\ Len(s) \in Nat \ {0} /\ Len(u) \in Nat
        /\ Len(s \o u) = Len(s) + Len(u)
        /\ \A i \in 1..Len(s) + Len(u) : (s \o u)[i] =
             IF i <= Len(s) THEN s[i] ELSE u[i - Len(s)]
    BY <1>2, ConcatProperties, EmptySeq
  <2>2. /\ Tail(s) \in Seq(S) /\ Len(Tail(s)) = Len(s) - 1
        /\ \A i \in 1..Len(Tail(s)) : Tail(s)[i] = s[i + 1]
    BY <1>2, HeadTailProperties
  <2>3. s \o u # <<>>
    BY <2>1
  <2>4. /\ Tail(s \o u) \in Seq(S) /\ Len(Tail(s \o u)) = Len(s) + Len(u) - 1
        /\ \A i \in 1..Len(s) + Len(u) - 1 : Tail(s \o u)[i] = (s \o u)[i + 1]
    BY <1>0, <2>1, <2>3, HeadTailProperties
  <2>5. /\ Tail(s) \o u \in Seq(S)
        /\ Len(Tail(s) \o u) = Len(s) - 1 + Len(u)
        /\ \A i \in 1..Len(s) - 1 + Len(u) : (Tail(s) \o u)[i] =
             IF i <= Len(s) - 1 THEN Tail(s)[i] ELSE u[i - (Len(s) - 1)]
    BY <2>2, ConcatProperties
  <2>6. \A i \in 1..Len(s) + Len(u) - 1 : Tail(s \o u)[i] = (Tail(s) \o u)[i]
    <3> TAKE i \in 1..Len(s) + Len(u) - 1
    <3>1. CASE i <= Len(s) - 1
      BY <2>1, <2>2, <2>4, <2>5, <3>1
    <3>2. CASE ~(i <= Len(s) - 1)
      <4>1. Tail(s \o u)[i] = u[i + 1 - Len(s)]
        BY <2>1, <2>4, <3>2
      <4>2. (Tail(s) \o u)[i] = u[i - (Len(s) - 1)]
        BY <2>1, <2>5, <3>2
      <4>3. i + 1 - Len(s) = i - (Len(s) - 1)
        BY <2>1
      <4> QED BY <4>1, <4>2, <4>3
    <3> QED BY <3>1, <3>2
  <2>7. Tail(s) \o u = Tail(s \o u)
    <3>1. Len(Tail(s) \o u) = Len(Tail(s \o u))
      BY <2>1, <2>4, <2>5
    <3> QED BY <2>1, <2>4, <2>5, <2>6, <3>1, SeqEqual
  <2>8. Head(s \o u) = Head(s)
    BY <2>1
  <2> QED BY <2>3, <2>7, <2>8
<1> QED BY <1>1, <1>2

\* enqueue_task: the task is the last of its priority's line.
LEMMA EnqueueLines ==
    ASSUME HandlerType, NEW t \in Tasks, NEW p \in Priorities, Enqueue(t, p)
    PROVE  /\ Line(p)' = Append(Line(p), t)
           /\ \A q \in Priorities \ {p} : Line(q)' = Line(q)
<1> USE DEF HandlerType
<1>1. queue' = [queue EXCEPT ![p] = Append(@, t)] /\ local' = local
  BY DEF Enqueue
<1>2. local[p] \o Append(queue[p], t) = Append(local[p] \o queue[p], t)
  BY LineParts
<1> QED BY <1>1, <1>2 DEF Line

\* pop, of either policy: the first of the line is taken.
LEMMA PopLines ==
    ASSUME HandlerType, ServesItsQueue, NEW p \in Priorities,
           PopImmediate(p) \/ PopDeferred(p)
    PROVE  /\ Line(p) # <<>>
           /\ Line(p)' = Tail(Line(p))
           /\ cur' = [cur EXCEPT ![p] = Head(Line(p))]
           /\ \A q \in Priorities \ {p} : Line(q)' = Line(q)
<1> USE DEF HandlerType
<1>1. CASE PopImmediate(p)
  <2>1. /\ queue[p] # <<>> /\ queue' = [queue EXCEPT ![p] = Tail(@)]
        /\ local' = local /\ local[p] = <<>>
        /\ cur' = [cur EXCEPT ![p] = Head(queue[p])]
    BY <1>1 DEF PopImmediate, ServesItsQueue
  <2>2. Tail(queue[p]) \in Seq(Tasks)
    BY <2>1, HeadTailProperties
  <2>3. Line(p) = queue[p]
    BY <2>1, ConcatEmptySeq DEF Line
  <2>4. Line(p)' = Tail(queue[p])
    <3>1. <<>> \o Tail(queue[p]) = Tail(queue[p])
      BY <2>2, ConcatEmptySeq
    <3> QED BY <2>1, <3>1 DEF Line
  <2>5. \A q \in Priorities \ {p} : Line(q)' = Line(q)
    BY <2>1 DEF Line
  <2> QED BY <2>1, <2>3, <2>4, <2>5
<1>2. CASE PopDeferred(p)
  <2>1. /\ local[p] # <<>> /\ local' = [local EXCEPT ![p] = Tail(@)]
        /\ queue' = queue
        /\ cur' = [cur EXCEPT ![p] = Head(local[p])]
    BY <1>2 DEF PopDeferred
  <2>2. /\ Line(p) # <<>>
        /\ Head(Line(p)) = Head(local[p])
        /\ Tail(Line(p)) = Tail(local[p]) \o queue[p]
    BY <2>1, LineParts DEF Line
  <2>3. Line(p)' = Tail(local[p]) \o queue[p]
    BY <2>1 DEF Line
  <2>4. \A q \in Priorities \ {p} : Line(q)' = Line(q)
    BY <2>1 DEF Line
  <2> QED BY <2>1, <2>2, <2>3, <2>4
<1> QED BY <1>1, <1>2

\* get_queue changes no line, and neither does anything else.
LEMMA OtherLines ==
    ASSUME HandlerType, ServesItsQueue,
           \/ \E t \in Tasks : EnqueueAgain(t)
           \/ \E p \in Priorities :
                \/ Interrupt(p) \/ GetQueue(p) \/ ClearPending(p)
                \/ Run(p) \/ Finish(p) \/ Leave(p)
           \/ UNCHANGED vars
    PROVE  \A q \in Priorities : Line(q)' = Line(q)
<1> USE DEF HandlerType
<1>1. CASE UNCHANGED <<queue, local>>
  BY <1>1 DEF Line
<1>2. ASSUME NEW p \in Priorities, GetQueue(p), p \in Deferred
      PROVE  \A q \in Priorities : Line(q)' = Line(q)
  <2>1. /\ local[p] = <<>> /\ local' = [local EXCEPT ![p] = queue[p]]
        /\ queue' = [queue EXCEPT ![p] = <<>>]
    BY <1>2 DEF GetQueue, ServesItsQueue
  <2>2. queue[p] \o <<>> = <<>> \o queue[p]
    BY ConcatEmptySeq
  <2> QED BY <2>1, <2>2 DEF Line
<1> QED BY <1>1, <1>2 DEF EnqueueAgain, Interrupt, GetQueue, ClearPending, Run,
           Finish, Leave, vars

\* The line of a priority is a sequence of tasks.
LEMMA LineType ==
    ASSUME HandlerType, NEW p \in Priorities
    PROVE  Line(p) \in Seq(Tasks) /\ Nodes(Line(p)) \subseteq Tasks
<1>1. Line(p) \in Seq(Tasks)
  BY ConcatProperties DEF Line, HandlerType
<1> QED BY <1>1 DEF Nodes

\* The counter's two sets are finite.
LEMMA WorkIsFinite ==
    /\ IsFiniteSet(Waiting) /\ Cardinality(Waiting) \in Nat
    /\ IsFiniteSet(Busy) /\ Cardinality(Busy) \in Nat
<1>1. IsFiniteSet(Waiting) /\ IsFiniteSet(Busy)
  BY FS_Subset DEF Waiting, Busy
<1> QED BY <1>1, FS_CardinalityType

-----------------------------------------------------------------------------
(* Each action preserves the invariant. *)

\* enqueue_task of a task that is not pending.
LEMMA EnqueueKeepsInvariant ==
    ASSUME IInv, NEW t \in Tasks, NEW p \in Priorities, Enqueue(t, p)
    PROVE  IInv'
<1> USE DEF IInv
<1>1. /\ ~pending[t] /\ pending' = [pending EXCEPT ![t] = TRUE]
      /\ taskCount' = taskCount + 1
      /\ queue' = [queue EXCEPT ![p] = Append(@, t)]
      /\ irq' = [irq EXCEPT ![p] = TRUE]
      /\ owed' = owed \cup {t}
      /\ pc' = pc /\ local' = local /\ cur' = cur
  BY DEF Enqueue
<1>2. HandlerType'
  <2>1. Append(queue[p], t) \in Seq(Tasks)
    BY AppendProperties DEF HandlerType
  <2> QED BY <1>1, <2>1 DEF HandlerType
<1>3. ServesItsQueue' /\ NoRequestForgotten' /\ NoLostInterrupt'
  BY <1>1 DEF HandlerType, ServesItsQueue, NoRequestForgotten, NoLostInterrupt
<1>4. InOnePlace'
  <2>1. /\ \A q \in Priorities : t \notin Nodes(Line(q))
        /\ \A q \in Priorities : pc[q] = "popped" => cur[q] # t
    BY <1>1 DEF InOnePlace
  <2>2. /\ Linear(Line(p)')
        /\ Nodes(Line(p)') = Nodes(Line(p)) \cup {t}
        /\ \A q \in Priorities \ {p} : Line(q)' = Line(q)
    <3>1. Line(p) \in Seq(Tasks) /\ Linear(Line(p)) /\ t \notin Nodes(Line(p))
      BY <2>1, LineType DEF InOnePlace
    <3>2. /\ Linear(Append(Line(p), t))
          /\ Nodes(Append(Line(p), t)) = Nodes(Line(p)) \cup {t}
      BY <3>1, PushBackNode
    <3> QED BY <3>2, EnqueueLines
  <2>3. \A q \in Priorities : Linear(Line(q)')
    BY <2>2 DEF InOnePlace
  <2>4. \A q \in Priorities :
          Nodes(Line(q)') = IF q = p THEN Nodes(Line(q)) \cup {t} ELSE Nodes(Line(q))
    BY <2>2
  <2>5. \A q, r \in Priorities : q # r => Nodes(Line(q)') \cap Nodes(Line(r)') = {}
    BY <2>1, <2>4 DEF InOnePlace
  <2>6. \A u \in Tasks : pending'[u] <=>
          \E q \in Priorities : u \in Nodes(Line(q)') \/ (pc[q] = "popped" /\ cur[q] = u)
    <3>1. \A u \in Tasks : pending[u] <=>
            \E q \in Priorities :
               u \in Nodes(Line(q)) \/ (pc[q] = "popped" /\ cur[q] = u)
      BY DEF InOnePlace
    <3>2. \A u \in Tasks : pending'[u] <=> pending[u] \/ u = t
      BY <1>1 DEF HandlerType
    <3> QED BY <2>4, <3>1, <3>2
  <2>7. \A q \in Priorities : pc[q] = "popped" =>
          \A r \in Priorities : cur[q] \notin Nodes(Line(r)')
    BY <2>1, <2>4 DEF InOnePlace
  <2> QED BY <1>1, <2>3, <2>5, <2>6, <2>7 DEF InOnePlace
<1>5. CountIsWork'
  <2>1. Waiting' = Waiting \cup {t} /\ t \notin Waiting /\ Busy' = Busy
    BY <1>1 DEF Waiting, Busy, HandlerType
  <2>2. Cardinality(Waiting') = Cardinality(Waiting) + 1
    BY <2>1, WorkIsFinite, FS_AddElement
  <2> QED BY <1>1, <2>1, <2>2, WorkIsFinite DEF CountIsWork
<1> QED BY <1>2, <1>3, <1>4, <1>5

\* immediate::pop: the task leaves the line and waits no more.
LEMMA PopImmediateKeepsInvariant ==
    ASSUME IInv, NEW p \in Priorities, PopImmediate(p)
    PROVE  IInv'
<1> USE DEF IInv
<1> DEFINE t == Head(Line(p))
<1>1. /\ Line(p) # <<>> /\ Line(p)' = Tail(Line(p))
      /\ cur' = [cur EXCEPT ![p] = t]
      /\ \A q \in Priorities \ {p} : Line(q)' = Line(q)
  BY PopLines
<1>2. /\ Linear(Line(p)') /\ Nodes(Line(p)') = Nodes(Line(p)) \ {t}
      /\ t \in Nodes(Line(p)) /\ t \in Tasks
  BY <1>1, LineType, PopFrontNode DEF InOnePlace
<1>3. /\ pc[p] = "fetching" /\ pc' = [pc EXCEPT ![p] = "taken"]
      /\ p \notin Deferred /\ queue[p] # <<>>
      /\ queue' = [queue EXCEPT ![p] = Tail(@)]
      /\ pending' = [pending EXCEPT ![t] = FALSE]
      /\ taskCount' = taskCount /\ irq' = irq /\ local' = local /\ owed' = owed
  <2>1. Head(queue[p]) = t
    <3>1. local[p] = <<>> /\ queue[p] \in Seq(Tasks)
      BY DEF PopImmediate, ServesItsQueue, HandlerType
    <3> QED BY <3>1, ConcatEmptySeq DEF Line
  <2> QED BY <2>1 DEF PopImmediate
<1> HIDE DEF t
<1>4. HandlerType'
  <2>1. Tail(queue[p]) \in Seq(Tasks)
    BY <1>3, HeadTailProperties DEF HandlerType
  <2> QED BY <1>1, <1>2, <1>3, <2>1 DEF HandlerType, Phases
<1>5. ServesItsQueue' /\ NoRequestForgotten' /\ NoLostInterrupt'
  BY <1>1, <1>2, <1>3
     DEF HandlerType, ServesItsQueue, NoRequestForgotten, NoLostInterrupt
<1>6. InOnePlace'
  <2>1. /\ \A q \in Priorities : q # p => t \notin Nodes(Line(q))
        /\ \A q \in Priorities : pc[q] = "popped" => cur[q] # t /\ q # p
    BY <1>2, <1>3 DEF InOnePlace
  <2>2. \A q \in Priorities : Nodes(Line(q)') = Nodes(Line(q)) \ {t}
    BY <1>1, <1>2, <2>1
  <2>3. \A q \in Priorities : Linear(Line(q)')
    <3>1. \A q \in Priorities : Linear(Line(q))
      BY DEF InOnePlace
    <3> QED BY <1>1, <1>2, <3>1
  <2>4. \A q \in Priorities : /\ pc'[q] = "popped" <=> pc[q] = "popped"
                              /\ pc[q] = "popped" => cur'[q] = cur[q]
    BY <1>1, <1>3, <2>1 DEF HandlerType
  <2>5. \A u \in Tasks : pending'[u] <=>
          \E q \in Priorities : u \in Nodes(Line(q)') \/ (pc[q] = "popped" /\ cur[q] = u)
    BY <1>3, <2>1, <2>2 DEF InOnePlace, HandlerType
  <2>6. /\ \A q, r \in Priorities : q # r => Nodes(Line(q)') \cap Nodes(Line(r)') = {}
        /\ \A q \in Priorities : pc[q] = "popped" =>
             \A r \in Priorities : cur[q] \notin Nodes(Line(r)')
    BY <2>2 DEF InOnePlace
  <2> QED BY <2>3, <2>4, <2>5, <2>6 DEF InOnePlace
<1>7. CountIsWork'
  <2>1. /\ Waiting' = Waiting \ {t} /\ t \in Waiting
        /\ Busy' = Busy \cup {p} /\ p \notin Busy
    BY <1>2, <1>3 DEF Waiting, Busy, HandlerType, InOnePlace
  <2>2. /\ Cardinality(Waiting') = Cardinality(Waiting) - 1
        /\ Cardinality(Busy') = Cardinality(Busy) + 1
    BY <2>1, WorkIsFinite, FS_AddElement, FS_RemoveElement
  <2> QED BY <1>3, <2>2, WorkIsFinite DEF CountIsWork
<1> QED BY <1>4, <1>5, <1>6, <1>7

\* deferred::pop: the task leaves the line, and its flag stays set.
LEMMA PopDeferredKeepsInvariant ==
    ASSUME IInv, NEW p \in Priorities, PopDeferred(p)
    PROVE  IInv'
<1> USE DEF IInv
<1> DEFINE t == Head(Line(p))
<1>1. /\ Line(p) # <<>> /\ Line(p)' = Tail(Line(p))
      /\ cur' = [cur EXCEPT ![p] = t]
      /\ \A q \in Priorities \ {p} : Line(q)' = Line(q)
  BY PopLines
<1>2. /\ Linear(Line(p)') /\ Nodes(Line(p)') = Nodes(Line(p)) \ {t}
      /\ t \in Nodes(Line(p)) /\ t \in Tasks
  BY <1>1, LineType, PopFrontNode DEF InOnePlace
<1>3. /\ pc[p] = "fetching" /\ pc' = [pc EXCEPT ![p] = "popped"]
      /\ p \in Deferred /\ local[p] # <<>>
      /\ local' = [local EXCEPT ![p] = Tail(@)]
      /\ UNCHANGED <<queue, pending, taskCount, irq, owed>>
  BY DEF PopDeferred
<1> HIDE DEF t
<1>4. HandlerType'
  <2>1. Tail(local[p]) \in Seq(Tasks)
    BY <1>3, HeadTailProperties DEF HandlerType
  <2> QED BY <1>1, <1>2, <1>3, <2>1 DEF HandlerType, Phases
<1>5. ServesItsQueue' /\ NoRequestForgotten' /\ NoLostInterrupt'
  BY <1>1, <1>2, <1>3
     DEF HandlerType, ServesItsQueue, NoRequestForgotten, NoLostInterrupt
<1>6. InOnePlace'
  <2>1. /\ \A q \in Priorities : q # p => t \notin Nodes(Line(q))
        /\ \A q \in Priorities : pc[q] = "popped" => cur[q] # t /\ q # p
    BY <1>2, <1>3 DEF InOnePlace
  <2>2. \A q \in Priorities : Nodes(Line(q)') = Nodes(Line(q)) \ {t}
    BY <1>1, <1>2, <2>1
  <2>3. \A q \in Priorities : Linear(Line(q)')
    <3>1. \A q \in Priorities : Linear(Line(q))
      BY DEF InOnePlace
    <3> QED BY <1>1, <1>2, <3>1
  <2>4. \A q \in Priorities : /\ pc'[q] = "popped" <=> q = p \/ pc[q] = "popped"
                              /\ cur'[q] = IF q = p THEN t ELSE cur[q]
    BY <1>1, <1>3 DEF HandlerType
  <2>5. \A u \in Tasks : pending'[u] <=>
          \E q \in Priorities :
             u \in Nodes(Line(q)') \/ (pc'[q] = "popped" /\ cur'[q] = u)
    <3>1. \A u \in Tasks : pending[u] <=>
            \E q \in Priorities :
               u \in Nodes(Line(q)) \/ (pc[q] = "popped" /\ cur[q] = u)
      BY DEF InOnePlace
    <3> QED BY <1>2, <1>3, <2>1, <2>2, <2>4, <3>1
  <2>6. /\ \A q, r \in Priorities : q # r => Nodes(Line(q)') \cap Nodes(Line(r)') = {}
        /\ \A q \in Priorities : pc'[q] = "popped" =>
             \A r \in Priorities : cur'[q] \notin Nodes(Line(r)')
    BY <2>2, <2>4 DEF InOnePlace
  <2>7. \A q, r \in Priorities :
          pc'[q] = "popped" /\ pc'[r] = "popped" /\ cur'[q] = cur'[r] => q = r
    BY <2>1, <2>4 DEF InOnePlace
  <2> QED BY <2>3, <2>5, <2>6, <2>7 DEF InOnePlace
<1>7. CountIsWork'
  <2>1. Waiting' = Waiting /\ Busy' = Busy
    BY <1>3 DEF Waiting, Busy, HandlerType
  <2> QED BY <1>3, <2>1 DEF CountIsWork
<1> QED BY <1>4, <1>5, <1>6, <1>7

\* deferred's critical section: the task that was popped waits no more.
LEMMA ClearKeepsInvariant ==
    ASSUME IInv, NEW p \in Priorities, ClearPending(p)
    PROVE  IInv'
<1> USE DEF IInv
<1> DEFINE t == cur[p]
<1>1. /\ pc[p] = "popped" /\ pc' = [pc EXCEPT ![p] = "taken"]
      /\ pending' = [pending EXCEPT ![t] = FALSE]
      /\ UNCHANGED <<queue, taskCount, irq, local, cur, owed>>
  BY DEF ClearPending
<1>2. t \in Tasks /\ pending[t] /\ \A q \in Priorities : t \notin Nodes(Line(q))
  BY <1>1 DEF ServesItsQueue, InOnePlace
<1>3. \A q \in Priorities : Line(q)' = Line(q)
  BY OtherLines
<1>4. HandlerType' /\ ServesItsQueue' /\ NoLostInterrupt'
  BY <1>1, <1>2 DEF HandlerType, Phases, ServesItsQueue, NoLostInterrupt
<1>5. NoRequestForgotten'
  BY <1>1, <1>2 DEF HandlerType, NoRequestForgotten
<1>6. InOnePlace'
  <2>1. \A q \in Priorities : pc'[q] = "popped" <=> pc[q] = "popped" /\ q # p
    BY <1>1 DEF HandlerType
  <2>2. \A u \in Tasks : pending'[u] <=>
          \E q \in Priorities :
             u \in Nodes(Line(q)) \/ (pc'[q] = "popped" /\ cur[q] = u)
    <3>1. \A u \in Tasks : pending[u] <=>
            \E q \in Priorities :
               u \in Nodes(Line(q)) \/ (pc[q] = "popped" /\ cur[q] = u)
      BY DEF InOnePlace
    <3>2. \A q \in Priorities : q # p /\ pc[q] = "popped" => cur[q] # t
      BY <1>1 DEF InOnePlace
    <3>3. \A u \in Tasks : pending'[u] <=> pending[u] /\ u # t
      BY <1>1, <1>2 DEF HandlerType
    <3> QED BY <1>2, <2>1, <3>1, <3>2, <3>3
  <2> QED BY <1>1, <1>3, <2>1, <2>2 DEF InOnePlace
<1>7. CountIsWork'
  <2>1. /\ Waiting' = Waiting \ {t} /\ t \in Waiting
        /\ Busy' = Busy \cup {p} /\ p \notin Busy
    BY <1>1, <1>2 DEF Waiting, Busy, HandlerType
  <2>2. /\ Cardinality(Waiting') = Cardinality(Waiting) - 1
        /\ Cardinality(Busy') = Cardinality(Busy) + 1
    BY <2>1, WorkIsFinite, FS_AddElement, FS_RemoveElement
  <2> QED BY <1>1, <2>2, WorkIsFinite DEF CountIsWork
<1> QED BY <1>4, <1>5, <1>6, <1>7

\* run() begins and returns: the handler is busy until --task_count.
LEMMA RunKeepsInvariant ==
    ASSUME IInv, NEW p \in Priorities, Run(p) \/ Finish(p)
    PROVE  IInv'
<1> USE DEF IInv
<1>1. /\ UNCHANGED <<queue, pending, irq, local>>
      /\ pc[p] \in {"taken", "running"}
      /\ \A q \in Priorities \ {p} : pc'[q] = pc[q] /\ cur'[q] = cur[q]
  BY DEF Run, Finish, HandlerType
<1>2. \A q \in Priorities : Line(q)' = Line(q)
  BY OtherLines
<1>3. HandlerType' /\ ServesItsQueue' /\ NoLostInterrupt'
  BY <1>1 DEF Run, Finish, HandlerType, Phases, ServesItsQueue, NoLostInterrupt
<1>4. NoRequestForgotten'
  <2>1. CASE Run(p)
    BY <2>1 DEF Run, HandlerType, NoRequestForgotten
  <2>2. CASE Finish(p)
    BY <2>2 DEF Finish, HandlerType, NoRequestForgotten
  <2> QED BY <2>1, <2>2
<1>5. InOnePlace'
  <2>1. \A q \in Priorities : /\ pc'[q] = "popped" <=> pc[q] = "popped"
                              /\ pc[q] = "popped" => cur'[q] = cur[q]
    BY <1>1 DEF Run, Finish, HandlerType
  <2> QED BY <1>1, <1>2, <2>1 DEF InOnePlace
<1>6. CountIsWork'
  <2>1. Waiting' = Waiting
    BY <1>1 DEF Waiting
  <2>2. CASE Run(p)
    <3>1. taskCount' = taskCount /\ Busy' = Busy
      BY <2>2 DEF Run, Busy, HandlerType
    <3> QED BY <2>1, <3>1 DEF CountIsWork
  <2>3. CASE Finish(p)
    <3>1. taskCount' = taskCount - 1 /\ Busy' = Busy \ {p} /\ p \in Busy
      BY <2>3 DEF Finish, Busy, HandlerType
    <3>2. Cardinality(Busy') = Cardinality(Busy) - 1
      BY <3>1, WorkIsFinite, FS_RemoveElement
    <3> QED BY <2>1, <3>1, <3>2, WorkIsFinite DEF CountIsWork
  <2> QED BY <2>2, <2>3
<1> QED BY <1>3, <1>4, <1>5, <1>6

\* Requests that are coalesced, and a handler that begins or ends to serve.
LEMMA OtherStepsKeepInvariant ==
    ASSUME IInv,
           \/ \E t \in Tasks : EnqueueAgain(t)
           \/ \E p \in Priorities : Interrupt(p) \/ GetQueue(p) \/ Leave(p)
           \/ UNCHANGED vars
    PROVE  IInv'
<1> USE DEF IInv
<1>1. /\ UNCHANGED <<pending, taskCount, cur>>
      /\ \A q \in Priorities :
            pc[q] # pc'[q] => {pc[q], pc'[q]} \subseteq {"idle", "entered", "fetching"}
  BY DEF EnqueueAgain, Interrupt, GetQueue, Leave, vars, HandlerType
<1>2. \A q \in Priorities : Line(q)' = Line(q)
  BY OtherLines
<1>3. HandlerType'
  <2>1. ASSUME NEW p \in Priorities, GetQueue(p) PROVE HandlerType'
    <3>1. <<>> \in Seq(Tasks)
      BY EmptySeq
    <3> QED BY <2>1, <3>1 DEF GetQueue, HandlerType, Phases
  <2>2. ASSUME NEW p \in Priorities, Interrupt(p) \/ Leave(p) PROVE HandlerType'
    BY <2>2 DEF Interrupt, Leave, HandlerType, Phases
  <2>3. ASSUME NEW t \in Tasks, EnqueueAgain(t) PROVE HandlerType'
    BY <2>3 DEF EnqueueAgain, HandlerType
  <2>4. CASE UNCHANGED vars
    BY <2>4 DEF vars, HandlerType
  <2> QED BY <2>1, <2>2, <2>3, <2>4
<1>4. ServesItsQueue' /\ NoLostInterrupt'
  BY DEF EnqueueAgain, Interrupt, GetQueue, Leave, vars, HandlerType,
         ServesItsQueue, NoLostInterrupt
<1>5. NoRequestForgotten'
  BY <1>1 DEF EnqueueAgain, Interrupt, GetQueue, Leave, vars, HandlerType,
         NoRequestForgotten
<1>6. InOnePlace'
  BY <1>1, <1>2 DEF InOnePlace
<1>7. CountIsWork'
  <2>1. Waiting' = Waiting /\ Busy' = Busy
    BY <1>1 DEF Waiting, Busy
  <2> QED BY <1>1, <2>1 DEF CountIsWork
<1> QED BY <1>3, <1>4, <1>5, <1>6, <1>7

\* The inductive invariant, of every behaviour.
LEMMA InvariantHolds == Spec => []IInv
<1>1. Init => IInv
  <2> SUFFICES ASSUME Init PROVE IInv
    OBVIOUS
  <2> USE DEF Init
  <2>1. HandlerType /\ ServesItsQueue
    BY EmptySeq DEF HandlerType, Phases, ServesItsQueue
  <2>2. NoRequestForgotten /\ NoLostInterrupt
    BY DEF NoRequestForgotten, NoLostInterrupt
  <2>3. InOnePlace
    <3>1. <<>> \o <<>> = <<>>
      BY EmptySeq, ConcatEmptySeq
    <3>2. \A p \in Priorities : Line(p) = <<>> /\ pc[p] # "popped"
      BY <3>1 DEF Line
    <3>3. Nodes(<<>>) = {} /\ Linear(<<>>)
      BY DEF Nodes, Linear
    <3> QED BY <3>2, <3>3 DEF InOnePlace
  <2>4. CountIsWork
    <3>1. Waiting = {} /\ Busy = {}
      BY DEF Waiting, Busy
    <3> QED BY <3>1, FS_EmptySet DEF CountIsWork
  <2> QED BY <2>1, <2>2, <2>3, <2>4 DEF IInv
<1>2. IInv /\ [Next]_vars => IInv'
  BY EnqueueKeepsInvariant, PopImmediateKeepsInvariant, PopDeferredKeepsInvariant,
     ClearKeepsInvariant, RunKeepsInvariant, OtherStepsKeepInvariant DEF Next
<1> QED BY <1>1, <1>2, PTL DEF Spec

-----------------------------------------------------------------------------
(* The theorems. *)

\* Whoever enqueues, and whichever handler interrupts which, a task is pending
\* exactly when it waits in one place, and task_count counts what waits or is
\* served, also between deferred's pop and the critical section after it.
THEOREM ManagerIsConsistent == Spec => []Consistent
<1>1. IInv => Consistent
  <2> SUFFICES ASSUME IInv PROVE Consistent
    OBVIOUS
  <2>1. taskCount \in Nat
    BY WorkIsFinite DEF IInv, CountIsWork
  <2> QED BY <2>1 DEF IInv, HandlerType, TypeOK, Consistent
<1> QED BY <1>1, InvariantHolds, PTL

\* A request that finds the task pending is answered by a run that is still to
\* begin, under either policy.
THEOREM RequestsAreRemembered == Spec => []NoRequestForgotten
<1>1. IInv => NoRequestForgotten
  BY DEF IInv
<1> QED BY <1>1, InvariantHolds, PTL

\* A task that is enqueued while service_tasks is about to return has an
\* interrupt of its own.
THEOREM InterruptsAreKept == Spec => []NoLostInterrupt
<1>1. IInv => NoLostInterrupt
  BY DEF IInv
<1> QED BY <1>1, InvariantHolds, PTL

\* Within a priority tasks are served in the order in which they were enqueued,
\* also those that come while deferred serves its local queue.
THEOREM ServedInOrder == Spec => FirstInFirstOut
<1> DEFINE InOrder ==
      \A p \in Priorities :
        \/ Line(p)' = Line(p)
        \/ Line(p) # <<>> /\ Line(p)' = Tail(Line(p))
        \/ \E t \in Tasks : Line(p)' = Append(Line(p), t)
<1>1. IInv /\ [Next]_vars => [InOrder]_vars
  <2> SUFFICES ASSUME IInv, Next PROVE InOrder
    OBVIOUS
  <2> USE DEF IInv
  <2>1. ASSUME NEW t \in Tasks, NEW p \in Priorities, Enqueue(t, p) PROVE InOrder
    BY <2>1, EnqueueLines
  <2>2. ASSUME NEW p \in Priorities, PopImmediate(p) \/ PopDeferred(p)
        PROVE  InOrder
    BY <2>2, PopLines
  <2>3. CASE \/ \E t \in Tasks : EnqueueAgain(t)
             \/ \E p \in Priorities :
                  \/ Interrupt(p) \/ GetQueue(p) \/ ClearPending(p)
                  \/ Run(p) \/ Finish(p) \/ Leave(p)
    BY <2>3, OtherLines
  <2> QED BY <2>1, <2>2, <2>3 DEF Next
<1> QED BY <1>1, InvariantHolds, PTL DEF Spec, FirstInFirstOut
=============================================================================
