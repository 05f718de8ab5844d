------------------------ MODULE TriggerManagerProofs ------------------------
(***************************************************************************)
(* Theorems about TriggerManager, for every set of tasks, of deferred and  *)
(* of immediate runners.  Until a step goes astray, the links are shown to *)
(* stand for sequences of tasks; what the properties say of the walk along *)
(* the links is then said of sequences.                                    *)
(***************************************************************************)
EXTENDS TriggerManager, FiniteSetTheorems, SequenceTheorems,
        WellFoundedInduction, TLAPS

USE FiniteAssumption, NullAssumption, SharedAssumption, DeferredAssumption

\* The links of list l, from its head to its tail, are the sequence s.
Shape(l, s) ==
    /\ head[l] = IF Len(s) = 0 THEN Null ELSE s[1]
    /\ tail[l] = IF Len(s) = 0 THEN Null ELSE s[Len(s)]
    /\ \A i \in 1..Len(s) :
        /\ prev[s[i]] = IF i = 1 THEN Null ELSE s[i - 1]
        /\ next[s[i]] = IF i = Len(s) THEN Null ELSE s[i + 1]

\* No task is in two of the sequences, or in one of them twice.
Apart(list) ==
    \A l, m \in Lists : \A i \in 1..Len(list[l]), j \in 1..Len(list[m]) :
        list[l][i] = list[m][j] => l = m /\ i = j

\* The sequences have exactly the tasks that are pending.
HavePending(list) ==
    \A t \in Tasks :
        pending[t] <=> \E l \in Lists : \E i \in 1..Len(list[l]) : list[l][i] = t

Represents(list) ==
    /\ \A l \in Lists : Shape(l, list[l])
    /\ Apart(list)
    /\ HavePending(list)

\* A runner that refers to a task refers to the first of its list, until it
\* has popped it.
RefersToFirst ==
    \A r \in Runners :
        /\ pc[r] \in {"seen", "taken", "running"} => cur[r] \in Tasks
        /\ pc[r] = "seen" => head[Walked(r)] = cur[r]

\* A runner has a list of its own while it runs what the deferred policy moved.
OwnListInUse ==
    \A r \in Runners : pc[r] = "idle" \/ r \notin Deferred => head[r] = Null

Waiting == {t \in Tasks : pending[t]}
TakenBy(t) == {r \in Runners : pc[r] = "taken" /\ cur[r] = t}

\* What AnsweredOnce says before a step goes astray.
Answers ==
    \A t \in Tasks : owed[t] = (IF pending[t] THEN 1 ELSE 0) + Cardinality(TakenBy(t))

\* The state before a step goes astray.
Sound ==
    /\ \E list \in [Lists -> Seq(Tasks)] : Represents(list)
    /\ CountIsWork
    /\ Answers
    /\ RefersToFirst
    /\ OwnListInUse

IInv == TypeOK /\ (astray \/ Sound)

-----------------------------------------------------------------------------
(* The walk along the links. *)

\* A set of natural numbers has a least element.
LEMMA LeastNatural ==
    ASSUME NEW T \in SUBSET Nat, T # {}
    PROVE  \E x \in T : \A y \in T : x <= y
<1> DEFINE R == OpToRel(<, Nat)
<1>1. \E x \in T : \A y \in T : ~(<<y, x>> \in R)
  BY NatLessThanWellFounded, WFMin, Zenon
<1>2. \A x, y \in Nat : x < y => <<x, y>> \in R
  BY DEF OpToRel
<1> HIDE DEF R
<1>3. PICK x \in T : \A y \in T : ~(<<y, x>> \in R)
  BY <1>1
<1>4. \A y \in T : ~(y < x)
  BY <1>2, <1>3
<1> QED BY <1>4

\* A walk of n steps from h along the links nx.
IsWalk(f, n, h, nx) ==
    f = [i \in 1..n |->
            IF i = 1 THEN h
            ELSE IF f[i - 1] = Null THEN Null ELSE nx[f[i - 1]]]

\* From h on, the links nx go through the sequence s and no further.
GoThrough(s, h, nx) ==
    /\ h = IF Len(s) = 0 THEN Null ELSE s[1]
    /\ \A i \in 1..Len(s) : nx[s[i]] = IF i = Len(s) THEN Null ELSE s[i + 1]

\* No task is twice in the sequence s.
Once(s) == \A i, j \in 1..Len(s) : s[i] = s[j] => i = j

\* There is one walk.
LEMMA WalkIsUnique ==
    ASSUME NEW n \in Nat, NEW h, NEW nx, NEW f, NEW g,
           IsWalk(f, n, h, nx), IsWalk(g, n, h, nx)
    PROVE  f = g
<1> DEFINE T == {i \in 1..n : f[i] # g[i]}
<1>1. ASSUME T # {} PROVE FALSE
  <2>0. T \in SUBSET Nat
    OBVIOUS
  <2>1. PICK x \in T : \A y \in T : x <= y
    <3> HIDE DEF T
    <3> QED BY <1>1, <2>0, LeastNatural
  <2>2. x \in 1..n /\ f[x] # g[x]
    OBVIOUS
  <2>3. /\ f[x] = IF x = 1 THEN h
                  ELSE IF f[x - 1] = Null THEN Null ELSE nx[f[x - 1]]
        /\ g[x] = IF x = 1 THEN h
                  ELSE IF g[x - 1] = Null THEN Null ELSE nx[g[x - 1]]
    BY <2>2 DEF IsWalk
  <2>4. x # 1 /\ x - 1 \in 1..n /\ x - 1 \notin T
    BY <2>1, <2>2, <2>3
  <2>5. f[x - 1] = g[x - 1]
    BY <2>4
  <2> QED BY <2>2, <2>3, <2>4, <2>5
<1>2. \A i \in 1..n : f[i] = g[i]
  BY <1>1
<1>3. /\ f = [i \in 1..n |-> f[i]]
      /\ g = [i \in 1..n |-> g[i]]
  BY DEF IsWalk
<1> QED BY <1>2, <1>3

\* A sequence in which no task is twice is no longer than there are tasks.
LEMMA LinearIsShort ==
    ASSUME NEW s \in Seq(Tasks), Once(s)
    PROVE  Len(s) <= Cardinality(Tasks) /\ Cardinality(Tasks) \in Nat
<1>1. s \in Injection(1..Len(s), Tasks)
  BY DEF Injection, IsInjective, Once
<1>2. Cardinality(1..Len(s)) <= Cardinality(Tasks)
  BY <1>1, FS_Injection
<1>3. Len(s) \in Nat /\ 1 \in Int
  OBVIOUS
<1>4. Cardinality(1..Len(s)) = Len(s)
  <2>1. ASSUME NEW k \in Nat PROVE Cardinality(1..k) = k
    BY FS_Interval
  <2> QED BY <1>3, <2>1
<1> QED BY <1>2, <1>4, FS_CardinalityType

\* The sequence that the links stand for, and nothing after it, is a walk.
LEMMA SequenceIsWalk ==
    ASSUME NEW s \in Seq(Tasks),
           NEW h, NEW nx, GoThrough(s, h, nx),
           NEW n \in Nat
    PROVE  IsWalk([i \in 1..n |-> IF i <= Len(s) THEN s[i] ELSE Null], n, h, nx)
<1> DEFINE g == [i \in 1..n |-> IF i <= Len(s) THEN s[i] ELSE Null]
<1>0. /\ h = IF Len(s) = 0 THEN Null ELSE s[1]
      /\ \A i \in 1..Len(s) : nx[s[i]] = IF i = Len(s) THEN Null ELSE s[i + 1]
  BY DEF GoThrough
<1>1. Len(s) \in Nat /\ \A i \in 1..Len(s) : s[i] # Null
  OBVIOUS
<1>2. ASSUME NEW i \in 1..n
      PROVE  g[i] = IF i = 1 THEN h
                    ELSE IF g[i - 1] = Null THEN Null ELSE nx[g[i - 1]]
  <2>1. CASE i = 1
    BY <2>1, <1>0, <1>1
  <2>2. CASE i # 1 /\ i <= Len(s)
    <3>1. /\ i - 1 \in 1..Len(s) /\ i - 1 # Len(s)
          /\ (i - 1) + 1 = i /\ i - 1 \in 1..n
      BY <2>2, <1>1
    <3>2. /\ g[i - 1] = s[i - 1] /\ nx[s[i - 1]] = s[i]
          /\ s[i - 1] # Null /\ g[i] = s[i]
      BY <3>1, <2>2, <1>0, <1>1
    <3> QED BY <2>2, <3>2
  <2>3. CASE i # 1 /\ i = Len(s) + 1
    <3>1. i - 1 \in 1..Len(s) /\ i - 1 = Len(s) /\ i - 1 \in 1..n
      BY <2>3, <1>1
    <3>2. nx[s[i - 1]] = Null
      BY <3>1, <1>0
    <3>3. g[i - 1] = s[i - 1]
      BY <3>1
    <3>4. g[i] = Null
      <4>1. ~(i <= Len(s))
        BY <2>3, <1>1
      <4> QED BY <4>1
    <3>5. s[i - 1] # Null
      BY <3>1, <1>1
    <3> QED BY <2>3, <3>2, <3>3, <3>4, <3>5
  <2>4. CASE i # 1 /\ i > Len(s) + 1
    <3>1. i - 1 \in 1..n /\ i - 1 > Len(s)
      BY <2>4, <1>1
    <3>2. g[i - 1] = Null /\ g[i] = Null
      BY <3>1, <2>4, <1>1
    <3> QED BY <2>4, <3>2
  <2> QED BY <2>1, <2>2, <2>3, <2>4, <1>1
<1> HIDE DEF g
<1>3. g = [i \in 1..n |-> g[i]]
  BY DEF g
<1>4. IsWalk(g, n, h, nx)
  BY <1>2, <1>3 DEF IsWalk
<1> QED BY <1>4 DEF g

\* The walk from the first task of a sequence that the links stand for visits
\* the tasks of the sequence.
LEMMA WalkIsSequence ==
    ASSUME NEW s \in Seq(Tasks),
           NEW h, NEW nx, GoThrough(s, h, nx), Once(s),
           NEW f, IsWalk(f, Cardinality(Tasks), h, nx)
    PROVE  /\ \A j : j \in DOMAIN f /\ f[j] # Null <=> j \in 1..Len(s)
           /\ \A j \in 1..Len(s) : f[j] = s[j]
<1> DEFINE n == Cardinality(Tasks)
           g == [i \in 1..n |-> IF i <= Len(s) THEN s[i] ELSE Null]
<1>1. Len(s) \in Nat /\ n \in Nat /\ Len(s) <= n
  BY LinearIsShort
<1>2. \A i \in 1..Len(s) : s[i] # Null
  OBVIOUS
<1>3. IsWalk(f, n, h, nx)
  OBVIOUS
<1> HIDE DEF n
<1>4. IsWalk(g, n, h, nx)
  BY <1>1, SequenceIsWalk
<1>5. f = g
  <2> HIDE DEF g
  <2> QED BY <1>1, <1>3, <1>4, WalkIsUnique
<1>6. \A j : j \in DOMAIN g /\ g[j] # Null <=> j \in 1..Len(s)
  BY <1>1, <1>2
<1>7. \A j \in 1..Len(s) : g[j] = s[j]
  BY <1>1
<1> HIDE DEF g
<1> QED BY <1>5, <1>6, <1>7

\* Chain(l) is what a walk visits, if there is a walk.
LEMMA ChainIsWalk ==
    ASSUME NEW CONSTANT l \in Lists,
           \E f : IsWalk(f, Cardinality(Tasks), head[l], next)
    PROVE  \E f : /\ IsWalk(f, Cardinality(Tasks), head[l], next)
                  /\ Chain(l) = [i \in {j \in DOMAIN f : f[j] # Null} |-> f[i]]
<1> DEFINE node == CHOOSE f : IsWalk(f, Cardinality(Tasks), head[l], next)
<1>1. IsWalk(node, Cardinality(Tasks), head[l], next)
  OBVIOUS
<1>2. Chain(l) = [i \in {j \in DOMAIN node : node[j] # Null} |-> node[i]]
  BY DEF Chain, IsWalk
<1> HIDE DEF node
<1> QED BY <1>1, <1>2

\* The chain of a list is the sequence that its links stand for.
LEMMA ChainIsSequence ==
    ASSUME NEW CONSTANT l \in Lists, NEW CONSTANT s \in Seq(Tasks), Shape(l, s),
           Once(s)
    PROVE  Chain(l) = s
<1> DEFINE h == head[l]
           n == Cardinality(Tasks)
<1>1. GoThrough(s, h, next)
  BY DEF Shape, GoThrough
<1>3. n \in Nat
  BY FS_CardinalityType
<1> HIDE DEF h, n
<1>4. \E f : IsWalk(f, n, h, next)
  BY <1>1, <1>3, SequenceIsWalk
<1>5. PICK f : /\ IsWalk(f, n, h, next)
               /\ Chain(l) = [i \in {j \in DOMAIN f : f[j] # Null} |-> f[i]]
  BY <1>4, ChainIsWalk DEF h, n
<1>6. IsWalk(f, Cardinality(Tasks), h, next)
  BY <1>5 DEF n
<1>7. /\ \A j : j \in DOMAIN f /\ f[j] # Null <=> j \in 1..Len(s)
      /\ \A j \in 1..Len(s) : f[j] = s[j]
  BY <1>1, <1>6, WalkIsSequence
<1>8. {j \in DOMAIN f : f[j] # Null} = 1..Len(s)
  BY <1>7
<1>9. s = [j \in 1..Len(s) |-> s[j]]
  OBVIOUS
<1> QED BY <1>5, <1>7, <1>8, <1>9

\* Node t is linked, and before node u, in one of the sequences.
Has(list, l, t) == \E i \in 1..Len(list[l]) : list[l][i] = t

Precedes(list, t, u) ==
    \E l \in Lists : \E i, j \in 1..Len(list[l]) :
        i < j /\ list[l][i] = t /\ list[l][j] = u

\* The tasks keep their order, those that are gone excepted.
KeepsOrder(list, new, gone) ==
    \A x, y : Precedes(list, x, y) /\ x \notin gone /\ y \notin gone
              => Precedes(new, x, y)

\* What the properties say of the walk can be said of the sequences.
LEMMA ChainsAreSequences ==
    \A list \in [Lists -> Seq(Tasks)] : Represents(list) =>
        /\ \A l \in Lists : Chain(l) = list[l]
        /\ \A l \in Lists : \A t : t \in Linked(l) <=> Has(list, l, t)
        /\ \A t, u : Ahead(t, u) <=> Precedes(list, t, u)
<1> SUFFICES ASSUME NEW CONSTANT list \in [Lists -> Seq(Tasks)],
                    Represents(list)
             PROVE  /\ \A l \in Lists : Chain(l) = list[l]
                    /\ \A l \in Lists : \A t : t \in Linked(l) <=> Has(list, l, t)
                    /\ \A t, u : Ahead(t, u) <=> Precedes(list, t, u)
  OBVIOUS
<1>1. ASSUME NEW CONSTANT l \in Lists PROVE Chain(l) = list[l]
  <2>1. list[l] \in Seq(Tasks)
    OBVIOUS
  <2>2. Shape(l, list[l])
    BY DEF Represents
  <2>3. Once(list[l])
    BY DEF Represents, Apart, Once
  <2> QED BY <2>1, <2>2, <2>3, ChainIsSequence
<1>2. \A l \in Lists : \A t : t \in Linked(l) <=> Has(list, l, t)
  BY <1>1 DEF Linked, Has
<1>3. \A t, u : Ahead(t, u) <=> Precedes(list, t, u)
  BY <1>1 DEF Ahead, Precedes
<1> QED BY <1>1, <1>2, <1>3

\* A represented state has whole lists.
LEMMA RepresentedIsWhole ==
    ASSUME NEW CONSTANT list \in [Lists -> Seq(Tasks)], Represents(list)
    PROVE  ListsAreWhole
<1>1. /\ \A l \in Lists : Chain(l) = list[l]
      /\ \A l \in Lists : \A t : t \in Linked(l) <=> Has(list, l, t)
  BY ChainsAreSequences
<1>2. ASSUME NEW l \in Lists
      PROVE  /\ Cardinality(Linked(l)) = Len(Chain(l))
             /\ tail[l] = IF Chain(l) = <<>> THEN Null ELSE Chain(l)[Len(Chain(l))]
             /\ \A i \in 1..Len(Chain(l)) :
                 prev[Chain(l)[i]] = IF i = 1 THEN Null ELSE Chain(l)[i - 1]
  <2> DEFINE s == list[l]
             n == Len(s)
  <2>1. s \in Seq(Tasks) /\ n \in Nat
    OBVIOUS
  <2>2. Shape(l, s) /\ \A i, j \in 1..Len(s) : s[i] = s[j] => i = j
    BY DEF Represents, Apart
  <2>3. Cardinality(Linked(l)) = n
    <3>1. Linked(l) = {s[i] : i \in 1..n}
      BY <1>1 DEF Linked
    <3>2. [i \in 1..n |-> s[i]] \in Bijection(1..n, Linked(l))
      <4> HIDE DEF s, n
      <4> QED BY <2>2, <3>1 DEF Bijection, Injection, Surjection, IsInjective, n
    <3>3. ExistsBijection(1..n, Linked(l))
      BY <3>2 DEF ExistsBijection
    <3> HIDE DEF n
    <3> QED BY <2>1, <3>3, FS_CountingElements
  <2>4. Chain(l) = s
    BY <1>1
  <2>5. s = <<>> <=> Len(s) = 0
    BY <2>1, EmptySeq
  <2> HIDE DEF s
  <2> QED BY <2>2, <2>3, <2>4, <2>5 DEF Shape, n
<1>3. \A l, m \in Lists : l # m => Linked(l) \cap Linked(m) = {}
  BY <1>1 DEF Represents, Apart, Has
<1>4. \A t \in Tasks : pending[t] <=> \E l \in Lists : t \in Linked(l)
  BY <1>1 DEF Represents, HavePending, Has
<1> QED BY <1>2, <1>3, <1>4 DEF ListsAreWhole

-----------------------------------------------------------------------------
(* What the operations do to the sequences. *)

\* A list stays what it was if its ends and the links of its tasks do.
LEMMA ShapeStays ==
    ASSUME NEW CONSTANT l, NEW CONSTANT s, Shape(l, s),
           head'[l] = head[l], tail'[l] = tail[l],
           \A i \in 1..Len(s) :
               prev'[s[i]] = prev[s[i]] /\ next'[s[i]] = next[s[i]]
    PROVE  Shape(l, s)'
BY DEF Shape

\* A task is waiting if and only if it is in one of the sequences.
LEMMA WaitsInList ==
    ASSUME NEW CONSTANT list \in [Lists -> Seq(Tasks)], Represents(list),
           NEW CONSTANT l \in Lists, NEW CONSTANT i \in 1..Len(list[l])
    PROVE  list[l][i] \in Tasks /\ list[l][i] # Null /\ pending[list[l][i]]
<1>1. list[l] \in Seq(Tasks)
  OBVIOUS
<1>2. list[l][i] \in Tasks
  BY <1>1
<1> QED BY <1>2 DEF Represents, HavePending

\* push_back of a task that does not wait.
LEMMA PushBackAppends ==
    ASSUME TypeOK,
           NEW CONSTANT list \in [Lists -> Seq(Tasks)], Represents(list),
           NEW CONSTANT t \in Tasks, ~pending[t], PushBack(Shared, t),
           pending' = [pending EXCEPT ![t] = TRUE],
           NEW CONSTANT new,
           new = [list EXCEPT ![Shared] = Append(list[Shared], t)]
    PROVE  /\ new \in [Lists -> Seq(Tasks)]
           /\ Represents(new)'
           /\ KeepsOrder(list, new, {})
           /\ \A x : Has(list, Shared, x) => Precedes(new, x, t)
<1> DEFINE s == list[Shared]
           u == Append(s, t)
           n == Len(s)
<1>0. Shared \in Lists
  BY DEF Lists
<1>1. s \in Seq(Tasks) /\ n \in Nat
  BY <1>0
<1>2. /\ u \in Seq(Tasks) /\ Len(u) = n + 1
      /\ \A i \in 1..n : u[i] = s[i]
      /\ u[n + 1] = t
  BY <1>1, AppendProperties
<1>3. /\ new \in [Lists -> Seq(Tasks)]
      /\ new[Shared] = u
      /\ \A l \in Lists : l # Shared => new[l] = list[l]
  BY <1>0, <1>2
<1>4. \A l \in Lists : \A i \in 1..Len(list[l]) :
          list[l][i] \in Tasks /\ list[l][i] # t /\ list[l][i] # Null
  BY WaitsInList
<1>5. /\ \A i \in 1..n : s[i] \in Tasks /\ s[i] # t /\ s[i] # Null
      /\ \A i, j \in 1..n : s[i] = s[j] => i = j
  BY <1>0, <1>4 DEF Represents, Apart
<1>6. Shape(Shared, s)
  BY <1>0 DEF Represents
<1> HIDE DEF u, s, n
<1>7. Shape(Shared, u)'
  <2>1. CASE n = 0
    <3>1. head[Shared] = Null /\ tail[Shared] = Null
      BY <2>1, <1>6 DEF Shape, n
    <3>2. /\ head'[Shared] = t /\ tail'[Shared] = t
          /\ prev'[t] = Null /\ next'[t] = Null
      BY <3>1, <1>0 DEF PushBack, TypeOK
    <3>3. Len(u) = 1 /\ u[1] = t
      BY <2>1, <1>2
    <3> QED BY <3>2, <3>3 DEF Shape
  <2>2. CASE n # 0
    <3>1. /\ head[Shared] = s[1] /\ tail[Shared] = s[n] /\ n \in 1..n /\ 1 \in 1..n
      BY <2>2, <1>1, <1>6 DEF Shape, n
    <3>2. tail[Shared] # Null /\ head[Shared] # Null
          /\ tail[Shared] \in Tasks /\ tail[Shared] # t
      BY <3>1, <1>5
    <3>3. /\ head'[Shared] = s[1] /\ tail'[Shared] = t
          /\ prev'[t] = s[n]
          /\ \A x \in Tasks : x # t => prev'[x] = prev[x]
          /\ next' = [next EXCEPT ![t] = Null, ![s[n]] = t]
      BY <3>1, <3>2, <1>0 DEF PushBack, TypeOK
    <3>4. /\ next'[t] = Null /\ next'[s[n]] = t
          /\ \A x \in Tasks : x # t /\ x # s[n] => next'[x] = next[x]
      BY <3>1, <3>2, <3>3 DEF TypeOK
    <3>5. ASSUME NEW i \in 1..n + 1
          PROVE  /\ prev'[u[i]] = IF i = 1 THEN Null ELSE u[i - 1]
                 /\ next'[u[i]] = IF i = n + 1 THEN Null ELSE u[i + 1]
      <4>1. CASE i = n + 1
        BY <4>1, <3>1, <3>3, <3>4, <1>2, <1>1, <2>2
      <4>2. CASE i \in 1..n
        <5>1. u[i] = s[i] /\ s[i] # t /\ s[i] \in Tasks
          BY <4>2, <1>2, <1>5
        <5>2. prev[s[i]] = IF i = 1 THEN Null ELSE s[i - 1]
          BY <4>2, <1>6 DEF Shape, n
        <5>3. next[s[i]] = IF i = n THEN Null ELSE s[i + 1]
          BY <4>2, <1>6 DEF Shape, n
        <5>4. prev'[u[i]] = IF i = 1 THEN Null ELSE u[i - 1]
          BY <4>2, <5>1, <5>2, <3>3, <1>2, <1>1
        <5>5. i = n => next'[u[i]] = u[i + 1]
          BY <5>1, <3>4, <1>2
        <5>6. i # n => next'[u[i]] = u[i + 1]
          <6>1. ASSUME i # n PROVE i + 1 \in 1..n /\ s[i] # s[n]
            BY <6>1, <4>2, <3>1, <1>1, <1>5
          <6> QED BY <6>1, <5>1, <5>3, <3>4, <1>2
        <5> QED BY <4>2, <5>4, <5>5, <5>6, <1>1
      <4> QED BY <4>1, <4>2, <1>1
    <3>6. head'[Shared] = u[1] /\ tail'[Shared] = u[n + 1] /\ Len(u) = n + 1
      BY <3>1, <3>3, <1>2
    <3>7. Len(u) # 0 /\ tail'[Shared] = u[Len(u)]
      BY <3>6, <1>1
    <3>8. \A i \in 1..Len(u) :
            /\ prev'[u[i]] = IF i = 1 THEN Null ELSE u[i - 1]
            /\ next'[u[i]] = IF i = Len(u) THEN Null ELSE u[i + 1]
      BY <3>5, <3>6
    <3> QED BY <3>6, <3>7, <3>8 DEF Shape
  <2> QED BY <2>1, <2>2
<1>8. ASSUME NEW CONSTANT l \in Lists, l # Shared
      PROVE  Shape(l, list[l])'
  <2>1. head'[l] = head[l] /\ tail'[l] = tail[l]
    BY <1>8, <1>0 DEF PushBack, TypeOK
  <2>2. tail[Shared] = Null \/ \E i \in 1..n : tail[Shared] = s[i]
    BY <1>1, <1>6 DEF Shape, n
  <2>3. ASSUME NEW i \in 1..Len(list[l])
        PROVE  prev'[list[l][i]] = prev[list[l][i]] /\ next'[list[l][i]] = next[list[l][i]]
    <3>1. list[l][i] # t /\ list[l][i] \in Tasks
      BY <1>4
    <3>2. list[l][i] # tail[Shared]
      BY <1>4, <2>2, <1>8, <1>0 DEF Represents, Apart, n, s
    <3> QED BY <3>1, <3>2 DEF PushBack, TypeOK
  <2>4. Shape(l, list[l])
    BY DEF Represents
  <2> QED BY <2>1, <2>3, <2>4, ShapeStays
<1>9. \A l \in Lists : Shape(l, new[l])'
  BY <1>3, <1>7, <1>8
<1>10. Apart(new)
  <2> SUFFICES ASSUME NEW l \in Lists, NEW m \in Lists,
                      NEW i \in 1..Len(new[l]), NEW j \in 1..Len(new[m]),
                      new[l][i] = new[m][j]
               PROVE  l = m /\ i = j
    BY DEF Apart
  <2>1. \A k \in Lists : \A a \in 1..Len(new[k]) :
            \/ a \in 1..Len(list[k]) /\ new[k][a] = list[k][a] /\ list[k][a] # t
            \/ k = Shared /\ a = n + 1 /\ new[k][a] = t
    BY <1>1, <1>2, <1>3, <1>4 DEF n, s
  <2> QED BY <2>1 DEF Represents, Apart
<1>11. \A x : \A l \in Lists : Has(new, l, x) <=> Has(list, l, x) \/ (l = Shared /\ x = t)
  BY <1>1, <1>2, <1>3 DEF Has, n, s
<1>12. HavePending(new)'
  <2>1. \A x \in Tasks : pending'[x] <=> pending[x] \/ x = t
    BY DEF TypeOK
  <2>2. \A x \in Tasks : pending[x] <=> \E l \in Lists : Has(list, l, x)
    BY DEF Represents, HavePending, Has
  <2>3. \A x \in Tasks : pending'[x] <=> \E l \in Lists : Has(new, l, x)
    BY <2>1, <2>2, <1>11, <1>0
  <2> QED BY <2>3 DEF HavePending, Has
<1>13. KeepsOrder(list, new, {})
  BY <1>1, <1>2, <1>3 DEF KeepsOrder, Precedes, n, s
<1>14. \A x : Has(list, Shared, x) => Precedes(new, x, t)
  <2> SUFFICES ASSUME NEW i \in 1..n PROVE Precedes(new, s[i], t)
    BY DEF Has, n, s
  <2>1. /\ i \in 1..Len(u) /\ n + 1 \in 1..Len(u) /\ i < n + 1
        /\ u[i] = s[i] /\ u[n + 1] = t
    BY <1>1, <1>2
  <2> QED BY <2>1, <1>0, <1>3 DEF Precedes
<1> QED BY <1>3, <1>9, <1>10, <1>12, <1>13, <1>14 DEF Represents, Apart

\* The sequence s without its task at position k.
Without(s, k) == [i \in 1..Len(s) - 1 |-> IF i < k THEN s[i] ELSE s[i + 1]]

\* remove of a task from the list it is in.
LEMMA RemoveKeepsShape ==
    ASSUME TypeOK,
           NEW CONSTANT l \in Lists, NEW CONSTANT s \in Seq(Tasks),
           Shape(l, s), Once(s),
           NEW CONSTANT k \in 1..Len(s), Remove(l, s[k])
    PROVE  Shape(l, Without(s, k))'
<1> DEFINE n == Len(s)
           u == Without(s, k)
           t == s[k]
           p == prev[t]
           x == next[t]
<1>1. n \in Nat /\ n # 0 /\ n - 1 \in Nat
  OBVIOUS
<1>2. /\ Len(u) = n - 1
      /\ \A i \in 1..n - 1 : u[i] = IF i < k THEN s[i] ELSE s[i + 1]
  BY <1>1 DEF Without
<1>3. /\ \A i \in 1..n : s[i] \in Tasks /\ s[i] # Null
      /\ \A i, j \in 1..n : s[i] = s[j] => i = j
  BY DEF Once
<1>4. /\ head[l] = s[1] /\ tail[l] = s[n]
      /\ \A i \in 1..n : /\ prev[s[i]] = IF i = 1 THEN Null ELSE s[i - 1]
                         /\ next[s[i]] = IF i = n THEN Null ELSE s[i + 1]
  BY <1>1 DEF Shape
<1>5. /\ p = IF k = 1 THEN Null ELSE s[k - 1]
      /\ x = IF k = n THEN Null ELSE s[k + 1]
  BY <1>4
<1>6. /\ head' = IF p = Null THEN [head EXCEPT ![l] = x] ELSE head
      /\ tail' = IF x = Null THEN [tail EXCEPT ![l] = p] ELSE tail
      /\ \A i \in 1..n :
          /\ next'[s[i]] = IF i = k THEN Null ELSE IF s[i] = p THEN x ELSE next[s[i]]
          /\ prev'[s[i]] = IF i = k THEN Null ELSE IF s[i] = x THEN p ELSE prev[s[i]]
  BY <1>3 DEF Remove
<1> HIDE DEF u, t, p, x, n
<1>7. k \in 1..n
  BY DEF n
<1>8. head'[l] = IF Len(u) = 0 THEN Null ELSE u[1]
  <2>1. CASE k = 1
    <3>1. head'[l] = x
      BY <2>1, <1>5, <1>6 DEF TypeOK
    <3> QED BY <2>1, <3>1, <1>1, <1>2, <1>5
  <2>2. CASE k # 1
    <3>1. p # Null /\ 1 < k /\ n - 1 # 0 /\ 1 \in 1..n - 1
      BY <2>2, <1>1, <1>3, <1>5, <1>7
    <3>2. head'[l] = s[1]
      BY <3>1, <1>4, <1>6
    <3> QED BY <3>1, <3>2, <1>2
  <2> QED BY <2>1, <2>2
<1>9. tail'[l] = IF Len(u) = 0 THEN Null ELSE u[Len(u)]
  <2>1. CASE k = n
    <3>1. tail'[l] = p
      BY <2>1, <1>5, <1>6 DEF TypeOK
    <3>2. CASE n = 1
      BY <3>1, <3>2, <2>1, <1>2, <1>5
    <3>3. CASE n # 1
      <4>1. k # 1 /\ n - 1 \in 1..n - 1 /\ n - 1 < k
        BY <3>3, <2>1, <1>1
      <4> QED BY <4>1, <3>1, <2>1, <1>2, <1>5
    <3> QED BY <3>2, <3>3
  <2>2. CASE k # n
    <3>1. k + 1 \in 1..n /\ n - 1 \in 1..n - 1 /\ ~(n - 1 < k) /\ (n - 1) + 1 = n
      BY <2>2, <1>1, <1>7
    <3>2. x # Null
      BY <2>2, <3>1, <1>3, <1>5
    <3>3. tail'[l] = s[n]
      BY <3>2, <1>4, <1>6
    <3> QED BY <3>1, <3>3, <1>1, <1>2
  <2> QED BY <2>1, <2>2
<1>10. ASSUME NEW i \in 1..n - 1
       PROVE  /\ prev'[u[i]] = IF i = 1 THEN Null ELSE u[i - 1]
              /\ next'[u[i]] = IF i = n - 1 THEN Null ELSE u[i + 1]
  <2>1. CASE i < k
    <3>1. i \in 1..n /\ i # k /\ u[i] = s[i]
      BY <2>1, <1>1, <1>2
    <3>2. prev'[s[i]] = IF i = 1 THEN Null ELSE u[i - 1]
      <4>1. s[i] # x
        BY <3>1, <2>1, <1>1, <1>3, <1>5, <1>7
      <4>2. prev'[s[i]] = IF i = 1 THEN Null ELSE s[i - 1]
        BY <4>1, <3>1, <1>4, <1>6
      <4>3. i # 1 => i - 1 \in 1..n - 1 /\ i - 1 < k
        BY <2>1, <1>1
      <4> QED BY <4>2, <4>3, <1>2
    <3>3. next'[s[i]] = IF i = n - 1 THEN Null ELSE u[i + 1]
      <4>1. CASE i = k - 1
        <5>1. k # 1 /\ s[i] = p
          BY <4>1, <1>5, <1>7
        <5>2. next'[s[i]] = x
          BY <5>1, <3>1, <1>6
        <5>3. i + 1 = k
          BY <4>1, <1>7
        <5>4. CASE k = n
          BY <5>4, <5>2, <1>5, <4>1
        <5>5. CASE k # n
          <6>1. k \in 1..n - 1 /\ i # n - 1 /\ ~(k < k)
            BY <5>5, <5>3, <1>1, <1>7
          <6>2. u[k] = s[k + 1]
            BY <6>1, <1>2
          <6> QED BY <6>1, <6>2, <5>2, <5>3, <5>5, <1>5
        <5> QED BY <5>4, <5>5
      <4>2. CASE i # k - 1
        <5>1. /\ i + 1 \in 1..n - 1 /\ i + 1 < k /\ i # n - 1 /\ i # n
          BY <4>2, <2>1, <1>1, <1>7
        <5>2. s[i] # p
          <6>1. k # 1 => k - 1 \in 1..n /\ i # k - 1
            BY <4>2, <1>1, <1>7
          <6> QED BY <6>1, <3>1, <1>3, <1>5
        <5>3. next'[s[i]] = s[i + 1]
          BY <5>1, <5>2, <3>1, <1>4, <1>6
        <5> QED BY <5>1, <5>3, <1>2
      <4> QED BY <4>1, <4>2
    <3> QED BY <3>1, <3>2, <3>3
  <2>2. CASE ~(i < k)
    <3> DEFINE j == i + 1
    <3>1. j \in 1..n /\ j # k /\ u[i] = s[j] /\ j # 1 /\ j - 1 = i
      BY <2>2, <1>1, <1>2, <1>7
    <3> HIDE DEF j
    <3>2. prev'[s[j]] = IF i = 1 THEN Null ELSE u[i - 1]
      <4>1. CASE i = k
        <5>1. k # n /\ x = s[j]
          BY <4>1, <1>1, <1>5 DEF j
        <5>2. prev'[s[j]] = p
          BY <5>1, <3>1, <1>6
        <5>3. i # 1 => i - 1 \in 1..n - 1 /\ i - 1 < k
          BY <4>1, <1>1
        <5> QED BY <4>1, <5>2, <5>3, <1>2, <1>5
      <4>2. CASE i # k
        <5>1. s[j] # x
          <6>1. k # n => k + 1 \in 1..n /\ j # k + 1
            BY <4>2, <1>1, <1>7 DEF j
          <6> QED BY <6>1, <3>1, <1>3, <1>5
        <5>2. prev'[s[j]] = s[i]
          BY <5>1, <3>1, <1>4, <1>6
        <5>3. i - 1 \in 1..n - 1 /\ ~(i - 1 < k) /\ (i - 1) + 1 = i /\ i # 1
          BY <4>2, <2>2, <1>1, <1>7
        <5> QED BY <5>2, <5>3, <1>2
      <4> QED BY <4>1, <4>2
    <3>3. next'[s[j]] = IF i = n - 1 THEN Null ELSE u[i + 1]
      <4>1. s[j] # p
        <5>1. k # 1 => k - 1 \in 1..n /\ j # k - 1
          BY <2>2, <1>1, <1>7 DEF j
        <5> QED BY <5>1, <3>1, <1>3, <1>5
      <4>2. next'[s[j]] = IF j = n THEN Null ELSE s[j + 1]
        BY <4>1, <3>1, <1>4, <1>6
      <4>3. j = n <=> i = n - 1
        BY <1>1 DEF j
      <4>4. i # n - 1 => i + 1 \in 1..n - 1 /\ ~(i + 1 < k) /\ (i + 1) + 1 = j + 1
        BY <2>2, <1>1, <1>7 DEF j
      <4> QED BY <4>2, <4>3, <4>4, <1>2
    <3> QED BY <3>1, <3>2, <3>3
  <2> QED BY <2>1, <2>2, <1>1, <1>7
<1>11. \A i \in 1..Len(u) :
          /\ prev'[u[i]] = IF i = 1 THEN Null ELSE u[i - 1]
          /\ next'[u[i]] = IF i = Len(u) THEN Null ELSE u[i + 1]
  BY <1>2, <1>10
<1>12. Shape(l, u)'
  BY <1>8, <1>9, <1>11 DEF Shape
<1> QED BY <1>12 DEF u

\* A sequence without one of its elements has the others, in their order.
LEMMA WithoutIsSequence ==
    ASSUME NEW s \in Seq(Tasks), NEW k \in 1..Len(s)
    PROVE  /\ Without(s, k) \in Seq(Tasks)
           /\ Len(Without(s, k)) = Len(s) - 1
           /\ \A i \in 1..Len(s) - 1 :
                Without(s, k)[i] = IF i < k THEN s[i] ELSE s[i + 1]
<1>1. Len(s) - 1 \in Nat
  OBVIOUS
<1>2. \A i \in 1..Len(s) - 1 : i \in 1..Len(s) /\ i + 1 \in 1..Len(s)
  BY <1>1
<1>3. \A i \in 1..Len(s) - 1 : (IF i < k THEN s[i] ELSE s[i + 1]) \in Tasks
  BY <1>2
<1> QED BY <1>1, <1>3 DEF Without

\* remove of a waiting task takes it out of its sequence and leaves the others
\* in their order.
LEMMA RemoveTakesOut ==
    ASSUME TypeOK,
           NEW CONSTANT list \in [Lists -> Seq(Tasks)], Represents(list),
           NEW CONSTANT l \in Lists, NEW CONSTANT k \in 1..Len(list[l]),
           NEW CONSTANT t, t = list[l][k], Remove(l, t),
           pending' = [pending EXCEPT ![t] = FALSE],
           NEW CONSTANT new,
           new = [list EXCEPT ![l] = Without(list[l], k)]
    PROVE  /\ new \in [Lists -> Seq(Tasks)]
           /\ Represents(new)'
           /\ KeepsOrder(list, new, {t})
<1> DEFINE s == list[l]
           u == Without(s, k)
           n == Len(s)
           From(m, i) == IF m = l /\ ~(i < k) THEN i + 1 ELSE i
           To(m, i) == IF m = l /\ ~(i < k) THEN i - 1 ELSE i
<1>1. s \in Seq(Tasks) /\ n \in Nat /\ k \in 1..n /\ n # 0
  OBVIOUS
<1>2. /\ u \in Seq(Tasks) /\ Len(u) = n - 1
      /\ \A i \in 1..n - 1 : u[i] = IF i < k THEN s[i] ELSE s[i + 1]
  BY <1>1, WithoutIsSequence
<1> HIDE DEF u
<1>3. /\ new \in [Lists -> Seq(Tasks)]
      /\ new[l] = u
      /\ \A m \in Lists : m # l => new[m] = list[m]
  BY <1>2 DEF u
<1>4. \A m \in Lists : \A i \in 1..Len(list[m]) :
          list[m][i] \in Tasks /\ list[m][i] # Null
  BY WaitsInList
<1>5. Once(s) /\ Shape(l, s) /\ t = s[k] /\ t \in Tasks
  BY <1>4 DEF Represents, Apart, Once
<1>6. Shape(l, u)'
  BY <1>1, <1>5, RemoveKeepsShape DEF u
<1>7. ASSUME NEW CONSTANT m \in Lists, m # l
      PROVE  Shape(m, list[m])'
  <2>1. head'[m] = head[m] /\ tail'[m] = tail[m]
    BY <1>7 DEF Remove, TypeOK
  <2>2. /\ prev[t] = IF k = 1 THEN Null ELSE s[k - 1]
        /\ next[t] = IF k = n THEN Null ELSE s[k + 1]
    BY <1>1, <1>5 DEF Shape
  <2>3. ASSUME NEW i \in 1..Len(list[m])
        PROVE  /\ prev'[list[m][i]] = prev[list[m][i]]
               /\ next'[list[m][i]] = next[list[m][i]]
    <3>1. list[m][i] \in Tasks /\ list[m][i] # Null
      BY <1>4
    <3>2. \A j \in 1..n : list[m][i] # s[j]
      BY <1>7 DEF Represents, Apart
    <3>3. k # 1 => k - 1 \in 1..n
      BY <1>1
    <3>4. k # n => k + 1 \in 1..n
      BY <1>1
    <3> HIDE DEF s, n
    <3>5. list[m][i] # t /\ list[m][i] # prev[t] /\ list[m][i] # next[t]
      BY <3>1, <3>2, <3>3, <3>4, <2>2, <1>1, <1>5
    <3> QED BY <3>1, <3>5 DEF Remove
  <2>4. Shape(m, list[m])
    BY DEF Represents
  <2> QED BY <2>1, <2>3, <2>4, ShapeStays
<1>8. \A m \in Lists : Shape(m, new[m])'
  BY <1>3, <1>6, <1>7
<1>9. ASSUME NEW m \in Lists, NEW i \in 1..Len(new[m])
      PROVE  /\ From(m, i) \in 1..Len(list[m])
             /\ new[m][i] = list[m][From(m, i)]
             /\ ~(m = l /\ From(m, i) = k)
  <2>1. CASE m # l
    BY <2>1, <1>3
  <2>2. CASE m = l
    <3>1. i \in 1..n - 1 /\ new[m][i] = u[i]
      BY <2>2, <1>2, <1>3
    <3>2. From(m, i) \in 1..n /\ From(m, i) # k
      BY <3>1, <2>2, <1>1
    <3>3. u[i] = s[From(m, i)]
      BY <3>1, <2>2, <1>2
    <3> QED BY <2>2, <3>1, <3>2, <3>3
  <2> QED BY <2>1, <2>2
<1>10. ASSUME NEW m \in Lists, NEW i \in 1..Len(list[m]), ~(m = l /\ i = k)
       PROVE  /\ To(m, i) \in 1..Len(new[m])
              /\ new[m][To(m, i)] = list[m][i]
  <2>1. CASE m # l
    BY <2>1, <1>3
  <2>2. CASE m = l /\ i < k
    <3>1. i \in 1..n - 1
      BY <2>2, <1>1
    <3> QED BY <3>1, <2>2, <1>2, <1>3
  <2>3. CASE m = l /\ ~(i < k)
    <3>1. i - 1 \in 1..n - 1 /\ ~(i - 1 < k) /\ (i - 1) + 1 = i
      BY <2>3, <1>10, <1>1
    <3>2. u[i - 1] = s[i]
      BY <3>1, <1>2
    <3> QED BY <3>1, <3>2, <2>3, <1>2, <1>3
  <2> QED BY <2>1, <2>2, <2>3
<1>11. Apart(new)
  <2> SUFFICES ASSUME NEW m \in Lists, NEW o \in Lists,
                      NEW i \in 1..Len(new[m]), NEW j \in 1..Len(new[o]),
                      new[m][i] = new[o][j]
               PROVE  m = o /\ i = j
    BY DEF Apart
  <2>1. m = o /\ From(m, i) = From(o, j)
    <3> HIDE DEF From
    <3>1. /\ From(m, i) \in 1..Len(list[m]) /\ new[m][i] = list[m][From(m, i)]
          /\ From(o, j) \in 1..Len(list[o]) /\ new[o][j] = list[o][From(o, j)]
      BY <1>9
    <3> QED BY <3>1 DEF Represents, Apart
  <2>2. i \in Int /\ j \in Int
    BY <1>3
  <2> QED BY <2>1, <2>2, <1>1
<1>12. \A x : (\E m \in Lists : Has(new, m, x))
              <=> x # t /\ \E m \in Lists : Has(list, m, x)
  <2>1. ASSUME NEW m \in Lists, NEW i \in 1..Len(new[m])
        PROVE  new[m][i] # t /\ Has(list, m, new[m][i])
    <3> HIDE DEF From
    <3>1. /\ From(m, i) \in 1..Len(list[m]) /\ new[m][i] = list[m][From(m, i)]
          /\ ~(m = l /\ From(m, i) = k)
      BY <1>9
    <3>2. list[m][From(m, i)] # t
      BY <3>1, <1>5 DEF Represents, Apart
    <3> QED BY <3>1, <3>2 DEF Has
  <2>2. ASSUME NEW m \in Lists, NEW i \in 1..Len(list[m]), list[m][i] # t
        PROVE  Has(new, m, list[m][i])
    <3> HIDE DEF To
    <3>1. ~(m = l /\ i = k)
      BY <2>2, <1>5
    <3> QED BY <3>1, <1>10 DEF Has
  <2>3. ASSUME NEW x, NEW m \in Lists, Has(new, m, x)
        PROVE  x # t /\ Has(list, m, x)
    <3>1. PICK i \in 1..Len(new[m]) : new[m][i] = x
      BY <2>3 DEF Has
    <3> QED BY <3>1, <2>1
  <2>4. ASSUME NEW x, NEW m \in Lists, x # t, Has(list, m, x)
        PROVE  Has(new, m, x)
    <3>1. PICK i \in 1..Len(list[m]) : list[m][i] = x
      BY <2>4 DEF Has
    <3> QED BY <3>1, <2>2, <2>4
  <2> QED BY <2>3, <2>4, Zenon
<1>13. HavePending(new)'
  <2>1. \A x \in Tasks : pending'[x] <=> pending[x] /\ x # t
    BY <1>5 DEF TypeOK
  <2>2. \A x \in Tasks : pending[x] <=> \E m \in Lists : Has(list, m, x)
    BY DEF Represents, HavePending, Has
  <2>3. \A x \in Tasks : pending'[x] <=> \E m \in Lists : Has(new, m, x)
    BY <2>1, <2>2, <1>12
  <2> QED BY <2>3 DEF HavePending, Has
<1>14. ASSUME NEW x, NEW y, Precedes(list, x, y), x # t, y # t
       PROVE  Precedes(new, x, y)
  <2>1. PICK m \in Lists : \E i, j \in 1..Len(list[m]) :
            i < j /\ list[m][i] = x /\ list[m][j] = y
    BY <1>14 DEF Precedes
  <2>2. PICK i \in 1..Len(list[m]), j \in 1..Len(list[m]) :
            i < j /\ list[m][i] = x /\ list[m][j] = y
    BY <2>1
  <2>3. ~(m = l /\ i = k) /\ ~(m = l /\ j = k)
    BY <2>2, <1>5, <1>14
  <2>4. To(m, i) < To(m, j)
    BY <2>2, <2>3, <1>1
  <2> HIDE DEF To
  <2>5. /\ To(m, i) \in 1..Len(new[m]) /\ new[m][To(m, i)] = x
        /\ To(m, j) \in 1..Len(new[m]) /\ new[m][To(m, j)] = y
    BY <2>2, <2>3, <1>10
  <2> QED BY <2>4, <2>5 DEF Precedes
<1>15. KeepsOrder(list, new, {t})
  BY <1>14 DEF KeepsOrder
<1> QED BY <1>3, <1>8, <1>11, <1>13, <1>15 DEF Represents, Apart

\* pop_front of a list that is not empty removes its first task.
LEMMA PopFrontRemoves ==
    ASSUME TypeOK,
           NEW CONSTANT l \in Lists, NEW CONSTANT s \in Seq(Tasks),
           Shape(l, s), Once(s), head[l] # Null, PopFront(l)
    PROVE  1 \in 1..Len(s) /\ s[1] = head[l] /\ Remove(l, s[1])
<1>1. 1 \in 1..Len(s) /\ s[1] = head[l] /\ s[1] \in Tasks /\ Len(s) \in Nat
  BY DEF Shape
<1>2. prev[s[1]] = Null
  BY <1>1 DEF Shape
<1>3. next[s[1]] = Null \/ next[s[1]] \in Tasks
  BY <1>1 DEF TypeOK, Pointers
<1>4. next[s[1]] # s[1]
  <2>1. CASE Len(s) = 1
    BY <2>1, <1>1 DEF Shape
  <2>2. CASE Len(s) # 1
    <3>1. 2 \in 1..Len(s) /\ 1 # Len(s) /\ 1 + 1 = 2
      <4> DEFINE n == Len(s)
      <4>1. n \in Nat /\ 1 \in 1..n /\ n # 1
        BY <2>2, <1>1
      <4> HIDE DEF n
      <4>2. 2 \in 1..n /\ 1 # n
        BY <4>1
      <4> QED BY <4>2 DEF n
    <3>2. next[s[1]] = s[2]
      <4>1. next[s[1]] = IF 1 = Len(s) THEN Null ELSE s[1 + 1]
        BY <1>1 DEF Shape
      <4> QED BY <4>1, <3>1
    <3>3. s[2] # s[1]
      BY <3>1, <1>1 DEF Once
    <3> QED BY <3>2, <3>3
  <2> QED BY <2>1, <2>2
<1>5. /\ head' = [head EXCEPT ![l] = next[s[1]]]
      /\ tail' = IF next[s[1]] = Null THEN [tail EXCEPT ![l] = Null] ELSE tail
      /\ next' = [next EXCEPT ![s[1]] = Null]
      /\ prev' = IF next[s[1]] = Null THEN prev
                 ELSE [prev EXCEPT ![next[s[1]]] = Null]
  BY <1>1 DEF PopFront
<1>6. next' = [u \in Tasks |-> IF u = s[1] THEN Null
                               ELSE IF u = prev[s[1]] THEN next[s[1]] ELSE next[u]]
  BY <1>1, <1>2, <1>5 DEF TypeOK
<1>7. prev' = [u \in Tasks |-> IF u = s[1] THEN Null
                               ELSE IF u = next[s[1]] THEN prev[s[1]] ELSE prev[u]]
  BY <1>1, <1>2, <1>3, <1>4, <1>5 DEF TypeOK
<1> QED BY <1>1, <1>2, <1>5, <1>6, <1>7 DEF Remove

\* The deferred policy moves the manager's sequence to the runner, whose own is
\* empty.
LEMMA ExchangeMoves ==
    ASSUME TypeOK,
           NEW CONSTANT list \in [Lists -> Seq(Tasks)], Represents(list),
           NEW CONSTANT r \in Runners, head[r] = Null,
           head' = [head EXCEPT ![r] = head[Shared], ![Shared] = Null],
           tail' = [tail EXCEPT ![r] = tail[Shared], ![Shared] = Null],
           UNCHANGED <<prev, next, pending>>,
           NEW CONSTANT new,
           new = [list EXCEPT ![r] = list[Shared], ![Shared] = <<>>]
    PROVE  /\ new \in [Lists -> Seq(Tasks)]
           /\ Represents(new)'
           /\ KeepsOrder(list, new, {})
<1>1. Shared \in Lists /\ r \in Lists /\ r # Shared
  BY DEF Lists
<1>2. <<>> \in Seq(Tasks) /\ Len(<<>>) = 0
  OBVIOUS
<1>3. /\ new \in [Lists -> Seq(Tasks)]
      /\ new[r] = list[Shared] /\ new[Shared] = <<>>
      /\ \A l \in Lists : l # r /\ l # Shared => new[l] = list[l]
  BY <1>1, <1>2
<1>4. Len(list[r]) = 0
  <2>1. list[r] \in Seq(Tasks) /\ Shape(r, list[r])
    BY <1>1 DEF Represents
  <2>2. Len(list[r]) # 0 => list[r][1] \in Tasks
    BY <2>1
  <2> QED BY <2>1, <2>2 DEF Shape
<1>5. /\ head'[r] = head[Shared] /\ tail'[r] = tail[Shared]
      /\ head'[Shared] = Null /\ tail'[Shared] = Null
      /\ \A l \in Lists : l # r /\ l # Shared =>
            head'[l] = head[l] /\ tail'[l] = tail[l]
  BY <1>1 DEF TypeOK
<1>6. Shape(r, new[r])'
  <2>1. Shape(Shared, list[Shared])
    BY <1>1 DEF Represents
  <2>2. Shape(r, list[Shared])'
    BY <2>1, <1>5 DEF Shape
  <2> QED BY <2>2, <1>3
<1>7. Shape(Shared, new[Shared])'
  BY <1>2, <1>3, <1>5 DEF Shape
<1>8. ASSUME NEW CONSTANT l \in Lists, l # r, l # Shared PROVE Shape(l, new[l])'
  <2>1. Shape(l, list[l])
    BY DEF Represents
  <2> QED BY <2>1, <1>3, <1>5, <1>8 DEF Shape
<1>9. \A l \in Lists : Shape(l, new[l])'
  BY <1>6, <1>7, <1>8
<1> DEFINE From(l) == IF l = r THEN Shared ELSE l
           To(l) == IF l = Shared THEN r ELSE l
<1>10. \A l \in Lists : \A i \in 1..Len(new[l]) :
          l # Shared /\ From(l) \in Lists /\ i \in 1..Len(list[From(l)])
          /\ new[l][i] = list[From(l)][i]
  BY <1>1, <1>2, <1>3
<1>11. \A l \in Lists : \A i \in 1..Len(list[l]) :
          l # r /\ To(l) \in Lists /\ i \in 1..Len(new[To(l)])
          /\ new[To(l)][i] = list[l][i]
  BY <1>1, <1>3, <1>4
<1>12. Apart(new)
  <2> SUFFICES ASSUME NEW l \in Lists, NEW m \in Lists,
                      NEW i \in 1..Len(new[l]), NEW j \in 1..Len(new[m]),
                      new[l][i] = new[m][j]
               PROVE  l = m /\ i = j
    BY DEF Apart
  <2>1. From(l) = From(m) /\ i = j /\ l # Shared /\ m # Shared
    <3> HIDE DEF From
    <3>1. /\ From(l) \in Lists /\ i \in 1..Len(list[From(l)])
          /\ From(m) \in Lists /\ j \in 1..Len(list[From(m)])
          /\ list[From(l)][i] = list[From(m)][j] /\ l # Shared /\ m # Shared
      <4>1. /\ From(l) \in Lists /\ i \in 1..Len(list[From(l)])
            /\ new[l][i] = list[From(l)][i] /\ l # Shared
        BY <1>10, SMTT(30)
      <4>2. /\ From(m) \in Lists /\ j \in 1..Len(list[From(m)])
            /\ new[m][j] = list[From(m)][j] /\ m # Shared
        BY <1>10
      <4> QED BY <4>1, <4>2
    <3> QED BY <3>1 DEF Represents, Apart
  <2> QED BY <2>1
<1> HIDE DEF From, To
<1>13. \A x : (\E l \in Lists : Has(new, l, x)) <=> \E l \in Lists : Has(list, l, x)
  <2>1. ASSUME NEW x, NEW l \in Lists, Has(new, l, x)
        PROVE  \E m \in Lists : Has(list, m, x)
    BY <2>1, <1>10 DEF Has
  <2>2. ASSUME NEW x, NEW l \in Lists, Has(list, l, x)
        PROVE  \E m \in Lists : Has(new, m, x)
    BY <2>2, <1>11 DEF Has
  <2> QED BY <2>1, <2>2
<1>14. HavePending(new)'
  <2>1. \A x \in Tasks : pending[x] <=> \E m \in Lists : Has(list, m, x)
    BY DEF Represents, HavePending, Has
  <2>2. \A x \in Tasks : pending'[x] <=> \E m \in Lists : Has(new, m, x)
    BY <2>1, <1>13
  <2> QED BY <2>2 DEF HavePending, Has
<1>15. KeepsOrder(list, new, {})
  <2> SUFFICES ASSUME NEW x, NEW y, Precedes(list, x, y)
               PROVE  Precedes(new, x, y)
    BY DEF KeepsOrder
  <2>0. PICK l \in Lists : \E i, j \in 1..Len(list[l]) :
            i < j /\ list[l][i] = x /\ list[l][j] = y
    BY DEF Precedes
  <2> PICK i \in 1..Len(list[l]), j \in 1..Len(list[l]) :
            i < j /\ list[l][i] = x /\ list[l][j] = y
    BY <2>0
  <2>1. /\ To(l) \in Lists
        /\ i \in 1..Len(new[To(l)]) /\ new[To(l)][i] = list[l][i]
        /\ j \in 1..Len(new[To(l)]) /\ new[To(l)][j] = list[l][j]
    BY <1>11
  <2> QED BY <2>1 DEF Precedes
<1> QED BY <1>3, <1>9, <1>12, <1>14, <1>15 DEF Represents, Apart

-----------------------------------------------------------------------------
(* What the actions do to the sequences. *)

\* The tasks that still wait keep their order, and those that begin to wait
\* come behind the manager's.
InOrder(list, new) ==
    /\ \A x, y \in Tasks : Precedes(list, x, y) /\ pending'[x] /\ pending'[y]
                           => Precedes(new, x, y)
    /\ \A x, y \in Tasks : Has(list, Shared, x) /\ ~pending[y] /\ pending'[y]
                           => Precedes(new, x, y)

\* enqueue(): the task becomes the last of the manager's sequence.
LEMMA EnqueueSequences ==
    ASSUME TypeOK,
           NEW CONSTANT list \in [Lists -> Seq(Tasks)], Represents(list),
           NEW CONSTANT t \in Tasks, Enqueue(t)
    PROVE  \E new \in [Lists -> Seq(Tasks)] : Represents(new)' /\ InOrder(list, new)
<1>1. PICK new : new = [list EXCEPT ![Shared] = Append(list[Shared], t)]
  OBVIOUS
<1>2. /\ ~pending[t] /\ PushBack(Shared, t)
      /\ pending' = [pending EXCEPT ![t] = TRUE]
  BY DEF Enqueue
<1>3. /\ new \in [Lists -> Seq(Tasks)]
      /\ Represents(new)'
      /\ KeepsOrder(list, new, {})
      /\ \A x : Has(list, Shared, x) => Precedes(new, x, t)
  <2>1. new \in [Lists -> Seq(Tasks)]
    BY <1>1, <1>2, PushBackAppends
  <2>2. Represents(new)'
    BY <1>1, <1>2, PushBackAppends
  <2>3. KeepsOrder(list, new, {})
    BY <1>1, <1>2, PushBackAppends
  <2>4. \A x : Has(list, Shared, x) => Precedes(new, x, t)
    BY <1>1, <1>2, PushBackAppends
  <2> QED BY <2>1, <2>2, <2>3, <2>4, Zenon
<1>4. \A y \in Tasks : ~pending[y] /\ pending'[y] => y = t
  BY <1>2 DEF TypeOK
<1> QED BY <1>3, <1>4 DEF InOrder, KeepsOrder

\* remove() is told the manager's list, but what it does to a task inside of
\* another one is right for that one: only the ends of lists are at stake.
LEMMA InnerRemove ==
    ASSUME TypeOK,
           NEW CONSTANT l \in Lists, NEW CONSTANT s \in Seq(Tasks), Shape(l, s),
           NEW CONSTANT k \in 1..Len(s),
           l # Shared => s[k] \notin {head[l], tail[l]},
           Remove(Shared, s[k])
    PROVE  Remove(l, s[k])
<1>1. CASE l = Shared
  BY <1>1
<1>2. CASE l # Shared
  <2>1. Len(s) \in Nat /\ Len(s) # 0
    OBVIOUS
  <2>2. s[k] # s[1] /\ s[k] # s[Len(s)]
    BY <1>2, <2>1 DEF Shape
  <2>3. k # 1 /\ k # Len(s)
    BY <2>2
  <2>4. prev[s[k]] = s[k - 1] /\ next[s[k]] = s[k + 1]
    BY <2>3 DEF Shape
  <2>5. s[k - 1] \in Tasks /\ s[k + 1] \in Tasks
    <3>1. k - 1 \in 1..Len(s) /\ k + 1 \in 1..Len(s)
      BY <2>1, <2>3
    <3> QED BY <3>1
  <2>6. prev[s[k]] # Null /\ next[s[k]] # Null
    BY <2>4, <2>5
  <2> QED BY <2>6 DEF Remove
<1> QED BY <1>1, <1>2

\* A task that is dequeued without going astray leaves its sequence.
LEMMA DequeueSequences ==
    ASSUME TypeOK, ~astray',
           NEW CONSTANT list \in [Lists -> Seq(Tasks)], Represents(list),
           NEW CONSTANT t \in Tasks, Dequeue(t)
    PROVE  \E new \in [Lists -> Seq(Tasks)] : Represents(new)' /\ InOrder(list, new)
<1>1. /\ pending[t] /\ Remove(Shared, t)
      /\ pending' = [pending EXCEPT ![t] = FALSE]
      /\ \A r \in Runners : t \notin {head[r], tail[r]}
  BY DEF Dequeue, Misses
<1>2. PICK l \in Lists : Has(list, l, t)
  BY <1>1 DEF Represents, HavePending, Has
<1>3. PICK k \in 1..Len(list[l]) : list[l][k] = t
  BY <1>2 DEF Has
<1>4. Remove(l, t)
  <2>1. PICK s \in Seq(Tasks) : s = list[l]
    OBVIOUS
  <2>2. Shape(l, s)
    BY <2>1 DEF Represents
  <2>3. l # Shared => s[k] \notin {head[l], tail[l]}
    BY <1>1, <1>3, <2>1 DEF Lists
  <2> QED BY <1>1, <1>3, <2>1, <2>2, <2>3, InnerRemove
<1>6. PICK new : new = [list EXCEPT ![l] = Without(list[l], k)]
  OBVIOUS
<1>7. /\ new \in [Lists -> Seq(Tasks)]
      /\ Represents(new)'
      /\ KeepsOrder(list, new, {t})
  <2>1. new \in [Lists -> Seq(Tasks)]
    BY <1>1, <1>3, <1>4, <1>6, RemoveTakesOut
  <2>2. Represents(new)'
    BY <1>1, <1>3, <1>4, <1>6, RemoveTakesOut
  <2>3. KeepsOrder(list, new, {t})
    BY <1>1, <1>3, <1>4, <1>6, RemoveTakesOut
  <2> QED BY <2>1, <2>2, <2>3, Zenon
<1>8. \A y \in Tasks : pending'[y] <=> pending[y] /\ y # t
  BY <1>1 DEF TypeOK
<1> QED BY <1>7, <1>8 DEF InOrder, KeepsOrder

\* run() of the deferred policy: the runner's sequence becomes the manager's,
\* which becomes empty.
LEMMA BeginSequences ==
    ASSUME TypeOK, OwnListInUse,
           NEW CONSTANT list \in [Lists -> Seq(Tasks)], Represents(list),
           NEW CONSTANT r \in Runners, Begin(r)
    PROVE  \E new \in [Lists -> Seq(Tasks)] : Represents(new)' /\ InOrder(list, new)
<1>1. CASE r \in Deferred
  <2>1. PICK new : new = [list EXCEPT ![r] = list[Shared], ![Shared] = <<>>]
    OBVIOUS
  <2>2. /\ head[r] = Null
        /\ head' = [head EXCEPT ![r] = head[Shared], ![Shared] = Null]
        /\ tail' = [tail EXCEPT ![r] = tail[Shared], ![Shared] = Null]
        /\ UNCHANGED <<prev, next, pending>>
    BY <1>1 DEF Begin, OwnListInUse
  <2>3. /\ new \in [Lists -> Seq(Tasks)]
        /\ Represents(new)'
        /\ KeepsOrder(list, new, {})
    <3>1. new \in [Lists -> Seq(Tasks)]
      BY <2>1, <2>2, ExchangeMoves
    <3>2. Represents(new)'
      BY <2>1, <2>2, ExchangeMoves
    <3>3. KeepsOrder(list, new, {})
      BY <2>1, <2>2, ExchangeMoves
    <3> QED BY <3>1, <3>2, <3>3, Zenon
  <2> QED BY <2>2, <2>3 DEF InOrder, KeepsOrder
<1>2. CASE r \notin Deferred
  <2>1. UNCHANGED <<head, tail, prev, next, pending>>
    BY <1>2 DEF Begin
  <2>2. Represents(list)'
    BY <2>1 DEF Represents, Shape, Apart, HavePending
  <2>3. InOrder(list, list)
    BY <2>1 DEF InOrder, KeepsOrder
  <2> QED BY <2>2, <2>3
<1> QED BY <1>1, <1>2

\* Pop takes the task that was seen, because it is still the first.
LEMMA PopSequences ==
    ASSUME TypeOK, RefersToFirst,
           NEW CONSTANT list \in [Lists -> Seq(Tasks)], Represents(list),
           NEW CONSTANT r \in Runners, Pop(r)
    PROVE  \E new \in [Lists -> Seq(Tasks)] : Represents(new)' /\ InOrder(list, new)
<1>1. PICK l \in Lists : l = Walked(r)
  BY DEF Walked, Lists
<1>2. /\ head[l] # Null /\ PopFront(l) /\ head[l] = cur[r] /\ cur[r] \in Tasks
      /\ pending' = [pending EXCEPT ![cur[r]] = FALSE]
  BY <1>1 DEF Pop, RefersToFirst
<1>3. PICK s \in Seq(Tasks) : s = list[l]
  OBVIOUS
<1>4. Shape(l, s) /\ Once(s)
  BY <1>3 DEF Represents, Apart, Once
<1>5. 1 \in 1..Len(s) /\ s[1] = cur[r] /\ Remove(l, s[1])
  BY <1>2, <1>4, PopFrontRemoves
<1>6. PICK new : new = [list EXCEPT ![l] = Without(list[l], 1)]
  OBVIOUS
<1>7. PICK t : t = s[1]
  OBVIOUS
<1>8. /\ new \in [Lists -> Seq(Tasks)]
      /\ Represents(new)'
      /\ KeepsOrder(list, new, {t})
  <2>1. new \in [Lists -> Seq(Tasks)]
    BY <1>2, <1>3, <1>5, <1>6, <1>7, RemoveTakesOut
  <2>2. Represents(new)'
    BY <1>2, <1>3, <1>5, <1>6, <1>7, RemoveTakesOut
  <2>3. KeepsOrder(list, new, {t})
    BY <1>2, <1>3, <1>5, <1>6, <1>7, RemoveTakesOut
  <2> QED BY <2>1, <2>2, <2>3, Zenon
<1>9. \A y \in Tasks : pending'[y] <=> pending[y] /\ y # t
  BY <1>2, <1>5, <1>7 DEF TypeOK
<1> QED BY <1>8, <1>9 DEF InOrder, KeepsOrder

\* The other actions leave the lists alone.
LEMMA OtherSequences ==
    ASSUME NEW CONSTANT list \in [Lists -> Seq(Tasks)], Represents(list),
           \/ \E r \in Runners :
                Test(r) \/ Front(r) \/ Run(r) \/ Finish(r) \/ Leave(r)
           \/ UNCHANGED vars
    PROVE  \E new \in [Lists -> Seq(Tasks)] : Represents(new)' /\ InOrder(list, new)
<1>1. UNCHANGED <<head, tail, prev, next, pending>>
  BY DEF Test, Front, Run, Finish, Leave, listVars, vars
<1>2. Represents(list)'
  BY <1>1 DEF Represents, Shape, Apart, HavePending
<1>3. InOrder(list, list)
  BY <1>1 DEF InOrder, KeepsOrder
<1> QED BY <1>2, <1>3

\* A step that does not go astray keeps the links representing sequences, and
\* their order.
LEMMA StepKeepsSequences ==
    ASSUME ~astray', TypeOK, RefersToFirst, OwnListInUse,
           NEW CONSTANT list \in [Lists -> Seq(Tasks)], Represents(list),
           [Next]_vars
    PROVE  \E new \in [Lists -> Seq(Tasks)] : Represents(new)' /\ InOrder(list, new)
<1>1. CASE \E t \in Tasks : Enqueue(t)
  BY <1>1, EnqueueSequences
<1>2. CASE \E t \in Tasks : Dequeue(t)
  BY <1>2, DequeueSequences
<1>3. CASE \E r \in Runners : Begin(r)
  BY <1>3, BeginSequences
<1>4. CASE \E r \in Runners : Pop(r)
  BY <1>4, PopSequences
<1>5. CASE \/ \E r \in Runners :
                Test(r) \/ Front(r) \/ Run(r) \/ Finish(r) \/ Leave(r)
           \/ UNCHANGED vars
  BY <1>5, OtherSequences
<1> QED BY <1>1, <1>2, <1>3, <1>4, <1>5 DEF Next

-----------------------------------------------------------------------------
(* The inductive invariant. *)

\* The sets that task_count counts are finite.
LEMMA Countable ==
    /\ IsFiniteSet(Waiting) /\ Cardinality(Waiting) \in Nat
    /\ IsFiniteSet(Busy) /\ Cardinality(Busy) \in Nat
    /\ \A t : IsFiniteSet(TakenBy(t)) /\ Cardinality(TakenBy(t)) \in Nat
<1>1. Waiting \in SUBSET Tasks /\ Busy \in SUBSET Runners
  BY DEF Waiting, Busy
<1>2. \A t : TakenBy(t) \in SUBSET Runners
  BY DEF TakenBy
<1>3. IsFiniteSet(Waiting) /\ IsFiniteSet(Busy)
  BY <1>1, FS_Subset
<1>4. \A t : IsFiniteSet(TakenBy(t))
  BY <1>2, FS_Subset
<1> QED BY <1>3, <1>4, FS_CardinalityType

\* Every step keeps the types, also one that goes astray.
LEMMA StepKeepsType ==
    ASSUME TypeOK, [Next]_vars
    PROVE  TypeOK'
<1>0. /\ Shared \in Lists /\ Null \in Pointers /\ Tasks \subseteq Pointers
      /\ \A r \in Runners : r \in Lists /\ Walked(r) \in Lists
  BY DEF Lists, Pointers, Walked
<1>1. ASSUME NEW t \in Tasks, Enqueue(t) PROVE TypeOK'
  <2>1. tail[Shared] = Null \/ tail[Shared] \in Tasks
    BY <1>0 DEF TypeOK, Pointers
  <2>2. /\ head' \in [Lists -> Pointers] /\ tail' \in [Lists -> Pointers]
        /\ next' \in [Tasks -> Pointers] /\ prev' \in [Tasks -> Pointers]
    BY <1>0, <1>1, <2>1 DEF Enqueue, PushBack, TypeOK
  <2>3. pending' \in [Tasks -> BOOLEAN] /\ owed' \in [Tasks -> Int]
    BY <1>1 DEF Enqueue, TypeOK
  <2>4. taskCount' \in Int
    BY <1>1 DEF Enqueue, TypeOK
  <2>5. UNCHANGED <<pc, cur, astray>>
    BY <1>1 DEF Enqueue
  <2> QED BY <2>2, <2>3, <2>4, <2>5 DEF TypeOK
<1>2. ASSUME NEW t \in Tasks, Dequeue(t) PROVE TypeOK'
  <2>1. prev[t] \in Pointers /\ next[t] \in Pointers
    BY DEF TypeOK
  <2>2. /\ head' \in [Lists -> Pointers] /\ tail' \in [Lists -> Pointers]
        /\ next' \in [Tasks -> Pointers] /\ prev' \in [Tasks -> Pointers]
    BY <1>0, <1>2, <2>1 DEF Dequeue, Remove, TypeOK
  <2>3. pending' \in [Tasks -> BOOLEAN] /\ owed' \in [Tasks -> Int]
    BY <1>2 DEF Dequeue, TypeOK
  <2>4. taskCount' \in Int
    BY <1>2 DEF Dequeue, TypeOK
  <2>5. astray' = (astray \/ Misses(t)) /\ UNCHANGED <<pc, cur>>
    BY <1>2 DEF Dequeue
  <2>6. astray' \in BOOLEAN
    BY <2>5
  <2> QED BY <2>2, <2>3, <2>4, <2>5, <2>6 DEF TypeOK
<1>3. ASSUME NEW r \in Runners, Begin(r) PROVE TypeOK'
  <2>1. head' \in [Lists -> Pointers]
    BY <1>0, <1>3 DEF Begin, TypeOK
  <2>2. tail' \in [Lists -> Pointers]
    BY <1>0, <1>3 DEF Begin, TypeOK
  <2>3. pc' \in [Runners -> Phases] /\ astray' \in BOOLEAN
    BY <1>3 DEF Begin, TypeOK, Phases
  <2> QED BY <1>3, <2>1, <2>2, <2>3 DEF Begin, TypeOK
<1>4. ASSUME NEW r \in Runners, Test(r) PROVE TypeOK'
  BY <1>4 DEF Test, listVars, TypeOK, Phases
<1>5. ASSUME NEW r \in Runners, Front(r) PROVE TypeOK'
  <2>1. head[Walked(r)] \in Pointers
    BY <1>0 DEF TypeOK
  <2>2. cur' \in [Runners -> Pointers] /\ astray' \in BOOLEAN
    BY <1>5, <2>1 DEF Front, TypeOK
  <2> QED BY <1>5, <2>2 DEF Front, listVars, TypeOK, Phases
<1>6. ASSUME NEW r \in Runners, Pop(r) PROVE TypeOK'
  <2>1. PICK l \in Lists : l = Walked(r)
    BY <1>0
  <2>2. head[l] \in Tasks /\ PopFront(l)
    BY <1>6, <2>1 DEF Pop, TypeOK, Pointers
  <2>3. next[head[l]] = Null \/ next[head[l]] \in Tasks
    BY <2>2 DEF TypeOK, Pointers
  <2>4. /\ head' \in [Lists -> Pointers] /\ tail' \in [Lists -> Pointers]
        /\ next' \in [Tasks -> Pointers] /\ prev' \in [Tasks -> Pointers]
    BY <1>0, <2>2, <2>3 DEF PopFront, TypeOK
  <2>5. pending' \in [Tasks -> BOOLEAN] /\ astray' \in BOOLEAN
    BY <1>6 DEF Pop, TypeOK
  <2>6. pc' \in [Runners -> Phases]
    BY <1>6 DEF Pop, TypeOK, Phases
  <2> QED BY <1>6, <2>4, <2>5, <2>6 DEF Pop, TypeOK
<1>7. ASSUME NEW r \in Runners, Run(r) PROVE TypeOK'
  <2>1. owed' = [owed EXCEPT ![cur[r]] = @ - 1] /\ owed \in [Tasks -> Int]
    BY <1>7 DEF Run, TypeOK
  <2>2. owed' \in [Tasks -> Int]
    <3>1. PICK c \in Pointers : c = cur[r]
      BY DEF TypeOK
    <3>2. owed' = [owed EXCEPT ![c] = owed[c] - 1]
      BY <2>1, <3>1
    <3>3. CASE c \in Tasks
      BY <2>1, <3>2, <3>3
    <3>4. CASE c \notin Tasks
      BY <2>1, <3>2, <3>4
    <3> QED BY <3>3, <3>4
  <2>3. pc' \in [Runners -> Phases]
    BY <1>7 DEF Run, TypeOK, Phases
  <2> QED BY <1>7, <2>2, <2>3 DEF Run, listVars, TypeOK
<1>8. ASSUME NEW r \in Runners, Finish(r) PROVE TypeOK'
  BY <1>0, <1>8 DEF Finish, listVars, TypeOK, Phases
<1>9. ASSUME NEW r \in Runners, Leave(r) PROVE TypeOK'
  BY <1>9 DEF Leave, listVars, TypeOK, Phases
<1>10. CASE UNCHANGED vars
  BY <1>10 DEF vars, TypeOK
<1> QED BY <1>1, <1>2, <1>3, <1>4, <1>5, <1>6, <1>7, <1>8, <1>9, <1>10 DEF Next

\* What went astray stays so.
LEMMA AstrayStays ==
    ASSUME astray, [Next]_vars
    PROVE  astray'
BY DEF Next, Enqueue, Dequeue, Begin, Test, Front, Pop, Run, Finish, Leave, vars

\* At the start every list is the empty sequence.
LEMMA InitEstablishesInvariant ==
    ASSUME Init
    PROVE  IInv
<1>1. TypeOK
  <2>1. taskCount \in Int
    BY DEF Init
  <2>1a. astray \in BOOLEAN
    BY Zenon DEF Init
  <2>2. pending \in [Tasks -> BOOLEAN]
    BY DEF Init
  <2>2a. owed \in [Tasks -> Int]
    BY DEF Init
  <2>3. /\ head \in [Lists -> Pointers] /\ tail \in [Lists -> Pointers]
        /\ prev \in [Tasks -> Pointers] /\ next \in [Tasks -> Pointers]
        /\ pc \in [Runners -> Phases] /\ cur \in [Runners -> Pointers]
    BY DEF Init, Pointers, Phases
  <2> QED BY <2>1, <2>1a, <2>2, <2>2a, <2>3 DEF TypeOK
<1>2. \E list \in [Lists -> Seq(Tasks)] : Represents(list)
  <2> DEFINE list == [l \in Lists |-> <<>>]
  <2>1. list \in [Lists -> Seq(Tasks)] /\ \A l \in Lists : list[l] = <<>> /\ Len(list[l]) = 0
    OBVIOUS
  <2> HIDE DEF list
  <2>2. \A l \in Lists : Shape(l, list[l])
    BY <2>1 DEF Init, Shape
  <2>3. Apart(list)
    BY <2>1 DEF Apart
  <2>4. HavePending(list)
    BY <2>1 DEF Init, HavePending
  <2> QED BY <2>1, <2>2, <2>3, <2>4 DEF Represents
<1>3. CountIsWork
  <2>1. {t \in Tasks : pending[t]} = {} /\ Busy = {} /\ taskCount = 0
    BY DEF Init, Busy
  <2> QED BY <2>1, FS_EmptySet DEF CountIsWork
<1>4. Answers
  <2>1. \A t \in Tasks : {r \in Runners : pc[r] = "taken" /\ cur[r] = t} = {}
    BY DEF Init
  <2>2. \A t \in Tasks : owed[t] = 0 /\ ~pending[t]
    BY DEF Init
  <2>3. \A t \in Tasks : TakenBy(t) = {}
    BY <2>1 DEF TakenBy
  <2> QED BY <2>2, <2>3, FS_EmptySet DEF Answers
<1>5. RefersToFirst
  BY DEF Init, RefersToFirst
<1>6. OwnListInUse
  BY DEF Init, OwnListInUse, Lists
<1> QED BY <1>1, <1>2, <1>3, <1>4, <1>5, <1>6 DEF IInv, Sound

\* enqueue(): one task more is pending, counted and owed.
LEMMA EnqueueKeepsInvariant ==
    ASSUME TypeOK, Sound, ~astray', NEW t \in Tasks, Enqueue(t)
    PROVE  CountIsWork' /\ Answers' /\ RefersToFirst' /\ OwnListInUse'
<1> USE DEF Sound
<1>1. /\ ~pending[t] /\ pending' = [pending EXCEPT ![t] = TRUE]
      /\ taskCount' = taskCount + 1 /\ PushBack(Shared, t)
      /\ owed' = [owed EXCEPT ![t] = @ + 1]
      /\ pc' = pc /\ cur' = cur
  BY DEF Enqueue
<1>2. Shared \in Lists /\ t \in Pointers /\ Null \in Pointers
  BY DEF Lists, Pointers
<1>4. CountIsWork'
  <2>1. Waiting' = Waiting \cup {t} /\ t \notin Waiting /\ Busy' = Busy
    BY <1>1 DEF Waiting, Busy, TypeOK
  <2>2. Cardinality(Waiting') = Cardinality(Waiting) + 1
    BY <2>1, Countable, FS_AddElement
  <2>3. taskCount = Cardinality(Waiting) + Cardinality(Busy)
    BY DEF CountIsWork, Waiting
  <2>4. taskCount' = Cardinality(Waiting') + Cardinality(Busy')
    BY <2>1, <2>2, <2>3, <1>1, Countable
  <2> QED BY <2>4 DEF CountIsWork, Waiting
<1>5. Answers'
  <2>1. \A u \in Tasks : owed[u] = (IF pending[u] THEN 1 ELSE 0) + Cardinality(TakenBy(u))
    BY DEF Answers
  <2>2. \A u \in Tasks : TakenBy(u)' = TakenBy(u)
    BY <1>1 DEF TakenBy
  <2>3. \A u \in Tasks :
            owed'[u] = (IF pending'[u] THEN 1 ELSE 0) + Cardinality(TakenBy(u))
    BY <2>1, <1>1, Countable DEF TypeOK
  <2> QED BY <2>2, <2>3 DEF Answers
<1>6. \A l \in Lists : head[l] # Null \/ l # Shared => head'[l] = head[l]
  BY <1>1, <1>2 DEF TypeOK, PushBack
<1>7. RefersToFirst'
  <2>1. \A r \in Runners : Walked(r) \in Lists /\ Walked(r)' = Walked(r)
    BY DEF Walked, Lists
  <2> QED BY <2>1, <1>1, <1>6 DEF RefersToFirst
<1>8. OwnListInUse'
  BY <1>1, <1>6 DEF OwnListInUse, Lists
<1> QED BY <1>4, <1>5, <1>7, <1>8

\* dequeue(): the task leaves the manager's list, from wherever in it; a task
\* that another runner refers to is not among those that are dequeued.
LEMMA DequeueKeepsInvariant ==
    ASSUME TypeOK, Sound, ~astray', NEW t \in Tasks, Dequeue(t)
    PROVE  CountIsWork' /\ Answers' /\ RefersToFirst' /\ OwnListInUse'
<1> USE DEF Sound
<1>1. /\ pending[t] /\ pending' = [pending EXCEPT ![t] = FALSE]
      /\ taskCount' = taskCount - 1 /\ Remove(Shared, t)
      /\ owed' = [owed EXCEPT ![t] = @ - 1]
      /\ pc' = pc /\ cur' = cur
      /\ \A r \in Runners : t \notin {head[r], tail[r]}
      /\ \A r \in Runners : pc[r] = "seen" => cur[r] # t
  BY DEF Dequeue, Misses
<1>2. /\ Shared \in Lists /\ Null \in Pointers
      /\ prev[t] \in Pointers /\ next[t] \in Pointers
  BY DEF Lists, Pointers, TypeOK
<1>4. CountIsWork'
  <2>1. Waiting' = Waiting \ {t} /\ t \in Waiting /\ Busy' = Busy
    BY <1>1 DEF Waiting, Busy, TypeOK
  <2>2. Cardinality(Waiting') = Cardinality(Waiting) - 1
    BY <2>1, Countable, FS_RemoveElement
  <2>3. taskCount = Cardinality(Waiting) + Cardinality(Busy)
    BY DEF CountIsWork, Waiting
  <2>4. taskCount' = Cardinality(Waiting') + Cardinality(Busy')
    BY <2>1, <2>2, <2>3, <1>1, Countable
  <2> QED BY <2>4 DEF CountIsWork, Waiting
<1>5. Answers'
  <2>1. \A u \in Tasks : owed[u] = (IF pending[u] THEN 1 ELSE 0) + Cardinality(TakenBy(u))
    BY DEF Answers
  <2>2. \A u \in Tasks : TakenBy(u)' = TakenBy(u)
    BY <1>1 DEF TakenBy
  <2>3. \A u \in Tasks :
            owed'[u] = (IF pending'[u] THEN 1 ELSE 0) + Cardinality(TakenBy(u))
    BY <2>1, <1>1, Countable DEF TypeOK
  <2> QED BY <2>2, <2>3 DEF Answers
<1>6. \A l \in Lists : l # Shared => head'[l] = head[l]
  BY <1>1, <1>2 DEF TypeOK, Remove
<1>6a. prev[t] # Null \/ head[Shared] = t
  <2>1. PICK list \in [Lists -> Seq(Tasks)] : Represents(list)
    OBVIOUS
  <2>2. PICK l \in Lists : Has(list, l, t)
    BY <1>1, <2>1 DEF Represents, HavePending, Has
  <2>3. PICK k \in 1..Len(list[l]) : list[l][k] = t
    BY <2>2 DEF Has
  <2>4. Shape(l, list[l]) /\ list[l] \in Seq(Tasks)
    BY <2>1 DEF Represents
  <2>5. CASE k = 1
    <3>1. head[l] = t
      BY <2>3, <2>4, <2>5 DEF Shape
    <3> QED BY <3>1, <1>1 DEF Lists
  <2>6. CASE k # 1
    <3>1. prev[t] = list[l][k - 1] /\ k - 1 \in 1..Len(list[l])
      BY <2>3, <2>4, <2>6 DEF Shape
    <3>2. list[l][k - 1] \in Tasks
      BY <3>1, <2>4
    <3> QED BY <3>1, <3>2
  <2> QED BY <2>5, <2>6
<1>7. RefersToFirst'
  <2> SUFFICES ASSUME NEW q \in Runners
               PROVE  /\ pc'[q] \in {"seen", "taken", "running"} => cur'[q] \in Tasks
                      /\ pc'[q] = "seen" => head'[Walked(q)] = cur'[q]
    BY DEF RefersToFirst, Walked
  <2>1. pc[q] \in {"seen", "taken", "running"} => cur[q] \in Tasks
    BY DEF RefersToFirst
  <2>2. ASSUME pc[q] = "seen" PROVE head'[Walked(q)] = cur[q]
    <3>1. head[Walked(q)] = cur[q] /\ cur[q] # t
      BY <2>2, <1>1 DEF RefersToFirst
    <3>2. CASE Walked(q) = Shared
      <4>1. head' = head
        BY <3>1, <3>2, <1>1, <1>6a DEF Remove
      <4> QED BY <3>1, <4>1
    <3>3. CASE Walked(q) # Shared
      BY <3>1, <3>3, <1>6 DEF Walked, Lists
    <3> QED BY <3>2, <3>3
  <2> QED BY <2>1, <2>2, <1>1
<1>8. OwnListInUse'
  BY <1>1, <1>6 DEF OwnListInUse, Lists
<1> QED BY <1>4, <1>5, <1>7, <1>8

\* The counter and the answers are as before if the waiting tasks, the busy
\* runners and what they took are.
LEMMA AnswersStay ==
    ASSUME CountIsWork, Answers,
           UNCHANGED <<pending, taskCount, owed>>, Busy' = Busy,
           \A u \in Tasks : TakenBy(u)' = TakenBy(u)
    PROVE  CountIsWork' /\ Answers'
<1>1. CountIsWork'
  BY DEF CountIsWork
<1>2. Answers'
  BY DEF Answers
<1> QED BY <1>1, <1>2

\* run() begins: the deferred policy moves the list, the immediate one does not.
LEMMA BeginKeepsInvariant ==
    ASSUME TypeOK, Sound, ~astray', NEW r \in Runners, Begin(r)
    PROVE  CountIsWork' /\ Answers' /\ RefersToFirst' /\ OwnListInUse'
<1> USE DEF Sound
<1>1. /\ pc[r] = "idle" /\ pc' = [pc EXCEPT ![r] = "looking"]
      /\ UNCHANGED <<prev, next, pending, taskCount, cur, owed>>
  BY DEF Begin
<1>2. Shared \in Lists /\ r \in Lists /\ r # Shared /\ Null \in Pointers
  BY DEF Lists, Pointers
<1>3. \/ /\ r \in Deferred
         /\ \A q \in Runners \ Deferred : pc[q] # "seen"
         /\ head' = [head EXCEPT ![r] = head[Shared], ![Shared] = Null]
         /\ tail' = [tail EXCEPT ![r] = tail[Shared], ![Shared] = Null]
      \/ r \notin Deferred /\ head' = head /\ tail' = tail
  BY DEF Begin, Refers
<1>5. CountIsWork' /\ Answers'
  <2>1. Busy' = Busy
    BY <1>1 DEF Busy, TypeOK
  <2>2. \A u \in Tasks : TakenBy(u)' = TakenBy(u)
    BY <1>1 DEF TakenBy, TypeOK
  <2> QED BY <2>1, <2>2, <1>1, AnswersStay
<1>6. RefersToFirst'
  <2> SUFFICES ASSUME NEW q \in Runners
               PROVE  /\ pc'[q] \in {"seen", "taken", "running"} => cur'[q] \in Tasks
                      /\ pc'[q] = "seen" => head'[Walked(q)] = cur'[q]
    BY DEF RefersToFirst, Walked
  <2>1. pc'[q] \in {"seen", "taken", "running"} => q # r /\ pc'[q] = pc[q]
    BY <1>1 DEF TypeOK
  <2>2. ASSUME pc[q] = "seen", q # r PROVE head'[Walked(q)] = head[Walked(q)]
    BY <2>2, <1>2, <1>3 DEF Walked, TypeOK, Lists
  <2> QED BY <2>1, <2>2, <1>1 DEF RefersToFirst
<1>7. OwnListInUse'
  BY <1>1, <1>2, <1>3 DEF OwnListInUse, TypeOK, Lists
<1> QED BY <1>5, <1>6, <1>7

\* empty() is false: the runner goes on.
LEMMA TestKeepsInvariant ==
    ASSUME TypeOK, Sound, ~astray', NEW r \in Runners, Test(r)
    PROVE  CountIsWork' /\ Answers' /\ RefersToFirst' /\ OwnListInUse'
<1> USE DEF Sound
<1>1. /\ pc[r] = "looking" /\ pc' = [pc EXCEPT ![r] = "found"]
      /\ UNCHANGED <<head, tail, prev, next, pending, taskCount, cur, owed>>
  BY DEF Test, listVars
<1>2. CountIsWork' /\ Answers'
  <2>1. Busy' = Busy
    BY <1>1 DEF Busy, TypeOK
  <2>2. \A u \in Tasks : TakenBy(u)' = TakenBy(u)
    BY <1>1 DEF TakenBy, TypeOK
  <2> QED BY <2>1, <2>2, <1>1, AnswersStay
<1>3. RefersToFirst'
  <2>1. \A q \in Runners : Walked(q)' = Walked(q)
    BY DEF Walked
  <2> QED BY <2>1, <1>1 DEF RefersToFirst, TypeOK
<1>4. OwnListInUse'
  BY <1>1 DEF OwnListInUse, TypeOK
<1> QED BY <1>2, <1>3, <1>4

\* front(), of a list that was not emptied since: the runner refers to the
\* first of its list.
LEMMA FrontKeepsInvariant ==
    ASSUME TypeOK, Sound, ~astray', NEW r \in Runners, Front(r)
    PROVE  CountIsWork' /\ Answers' /\ RefersToFirst' /\ OwnListInUse'
<1> USE DEF Sound
<1>1. /\ pc[r] = "found" /\ pc' = [pc EXCEPT ![r] = "seen"]
      /\ head[Walked(r)] # Null
      /\ cur' = [cur EXCEPT ![r] = head[Walked(r)]]
      /\ UNCHANGED <<head, tail, prev, next, pending, taskCount, owed>>
  BY DEF Front, listVars
<1>2. Walked(r) \in Lists /\ head[Walked(r)] \in Tasks
  BY <1>1 DEF Walked, Lists, Pointers, TypeOK
<1>3. CountIsWork' /\ Answers'
  <2>1. Busy' = Busy
    BY <1>1 DEF Busy, TypeOK
  <2>2. \A u \in Tasks : TakenBy(u)' = TakenBy(u)
    BY <1>1 DEF TakenBy, TypeOK
  <2> QED BY <2>1, <2>2, <1>1, AnswersStay
<1>4. RefersToFirst'
  <2>1. \A q \in Runners : Walked(q)' = Walked(q)
    BY DEF Walked
  <2> QED BY <2>1, <1>1, <1>2 DEF RefersToFirst, TypeOK
<1>5. OwnListInUse'
  BY <1>1 DEF OwnListInUse, TypeOK
<1> QED BY <1>3, <1>4, <1>5

\* The critical section of run(): what is popped is what front() referred to.
LEMMA PopKeepsInvariant ==
    ASSUME TypeOK, Sound, ~astray', NEW r \in Runners, Pop(r)
    PROVE  CountIsWork' /\ Answers' /\ RefersToFirst' /\ OwnListInUse'
<1> USE DEF Sound
<1>0. Walked(r) \in Lists /\ (pc[r] = "seen" => cur[r] \in Tasks)
  BY DEF Walked, Lists, RefersToFirst
<1>0a. PICK l \in Lists : l = Walked(r)
  BY <1>0
<1>0b. PICK t \in Tasks : t = cur[r]
  BY <1>0 DEF Pop
<1>1. /\ pc[r] = "seen" /\ pc' = [pc EXCEPT ![r] = "taken"]
      /\ head[l] # Null /\ PopFront(l)
      /\ pending' = [pending EXCEPT ![t] = FALSE]
      /\ UNCHANGED <<taskCount, cur, owed>> /\ ~Overtaken(r)
  BY <1>0a, <1>0b DEF Pop
<1>2. l \in Lists /\ t \in Tasks /\ head[l] = t
  BY <1>1, <1>0a, <1>0b DEF RefersToFirst
<1>3. pending[t]
  <2>1. PICK list \in [Lists -> Seq(Tasks)] : Represents(list)
    OBVIOUS
  <2>2. Shape(l, list[l]) /\ list[l] \in Seq(Tasks)
    BY <2>1, <1>2 DEF Represents
  <2>3. 1 \in 1..Len(list[l]) /\ list[l][1] = t
    BY <2>2, <1>1, <1>2 DEF Shape
  <2> QED BY <2>1, <2>3, <1>2 DEF Represents, HavePending
<1>4. /\ next[t] \in Pointers /\ Null \in Pointers
      /\ head' = [head EXCEPT ![l] = next[t]]
      /\ tail' = IF next[t] = Null THEN [tail EXCEPT ![l] = Null] ELSE tail
      /\ next' = [next EXCEPT ![t] = Null]
      /\ prev' = IF next[t] = Null THEN prev ELSE [prev EXCEPT ![next[t]] = Null]
  BY <1>1, <1>2 DEF PopFront, TypeOK, Pointers
<1>6. CountIsWork'
  <2>1. Waiting' = Waiting \ {t} /\ t \in Waiting
    BY <1>1, <1>2, <1>3 DEF Waiting, TypeOK
  <2>2. Busy' = Busy \cup {r} /\ r \notin Busy
    BY <1>1 DEF Busy, TypeOK
  <2>3. Cardinality(Waiting') = Cardinality(Waiting) - 1
    BY <2>1, Countable, FS_RemoveElement
  <2>4. Cardinality(Busy') = Cardinality(Busy) + 1
    BY <2>2, Countable, FS_AddElement
  <2>5. taskCount = Cardinality(Waiting) + Cardinality(Busy)
    BY DEF CountIsWork, Waiting
  <2>6. taskCount' = Cardinality(Waiting') + Cardinality(Busy')
    BY <2>3, <2>4, <2>5, <1>1, Countable
  <2> QED BY <2>6 DEF CountIsWork, Waiting
<1>7. Answers'
  <2>1. \A u \in Tasks : owed[u] = (IF pending[u] THEN 1 ELSE 0) + Cardinality(TakenBy(u))
    BY DEF Answers
  <2>2. TakenBy(t)' = TakenBy(t) \cup {r} /\ r \notin TakenBy(t)
    BY <1>1, <1>0b DEF TakenBy, TypeOK
  <2>3. Cardinality(TakenBy(t)') = Cardinality(TakenBy(t)) + 1
    BY <2>2, Countable, FS_AddElement
  <2>4. \A u \in Tasks : u # t => TakenBy(u)' = TakenBy(u)
    BY <1>1, <1>0b DEF TakenBy, TypeOK
  <2>5. ASSUME NEW u \in Tasks
        PROVE  owed'[u] = (IF pending'[u] THEN 1 ELSE 0) + Cardinality(TakenBy(u)')
    <3>1. CASE u = t
      <4>1. ~pending'[t] /\ owed'[t] = owed[t]
        BY <1>1, <1>2 DEF TypeOK
      <4>2. owed[t] = 1 + Cardinality(TakenBy(t))
        BY <2>1, <1>2, <1>3
      <4> QED BY <3>1, <4>1, <4>2, <2>3, Countable
    <3>2. CASE u # t
      <4>1. pending'[u] = pending[u] /\ owed'[u] = owed[u]
        BY <3>2, <1>1 DEF TypeOK
      <4>2. TakenBy(u)' = TakenBy(u)
        BY <3>2, <2>4
      <4> QED BY <4>1, <4>2, <2>1
    <3> QED BY <3>1, <3>2
  <2> QED BY <2>5 DEF Answers
<1>8. RefersToFirst'
  <2> SUFFICES ASSUME NEW q \in Runners
               PROVE  /\ pc'[q] \in {"seen", "taken", "running"} => cur'[q] \in Tasks
                      /\ pc'[q] = "seen" => head'[Walked(q)] = cur'[q]
    BY DEF RefersToFirst, Walked
  <2>1. CASE q = r
    BY <2>1, <1>1, <1>0b DEF TypeOK
  <2>2. CASE q # r
    <3>1. pc'[q] = pc[q] /\ cur'[q] = cur[q]
      BY <2>2, <1>1 DEF TypeOK
    <3>2. Walked(q) # l \/ pc[q] # "seen"
      BY <2>2, <1>0a, <1>1 DEF Walked, Lists, Overtaken, Refers
    <3>3. Walked(q) # l => head'[Walked(q)] = head[Walked(q)]
      BY <1>2, <1>4 DEF Walked, Lists, TypeOK
    <3> QED BY <3>1, <3>2, <3>3 DEF RefersToFirst
  <2> QED BY <2>1, <2>2
<1>9. OwnListInUse'
  <2> SUFFICES ASSUME NEW q \in Runners, pc'[q] = "idle" \/ q \notin Deferred
               PROVE  head'[q] = Null
    BY DEF OwnListInUse
  <2>1. q \in Lists /\ q # l /\ head[q] = Null
    BY <1>1, <1>0a DEF OwnListInUse, TypeOK, Walked, Lists
  <2> QED BY <2>1, <1>2, <1>4 DEF TypeOK
<1> QED BY <1>6, <1>7, <1>8, <1>9

\* The task is run, which answers the enqueue that it was popped for.
LEMMA RunKeepsInvariant ==
    ASSUME TypeOK, Sound, ~astray', NEW r \in Runners, Run(r)
    PROVE  CountIsWork' /\ Answers' /\ RefersToFirst' /\ OwnListInUse'
<1> USE DEF Sound
<1>1. pc[r] = "taken" /\ cur[r] \in Tasks
  BY DEF Run, RefersToFirst
<1>2. PICK t \in Tasks : t = cur[r]
  BY <1>1
<1>3. /\ pc' = [pc EXCEPT ![r] = "running"]
      /\ owed' = [owed EXCEPT ![t] = @ - 1]
      /\ UNCHANGED <<head, tail, prev, next, pending, taskCount, cur>>
  BY <1>2 DEF Run, listVars
<1>5. CountIsWork'
  <2>1. Busy' = Busy
    BY <1>1, <1>3 DEF Busy, TypeOK
  <2> QED BY <2>1, <1>3 DEF CountIsWork
<1>6. Answers'
  <2>1. \A u \in Tasks : owed[u] = (IF pending[u] THEN 1 ELSE 0) + Cardinality(TakenBy(u))
    BY DEF Answers
  <2>2. TakenBy(t)' = TakenBy(t) \ {r} /\ r \in TakenBy(t)
    BY <1>1, <1>2, <1>3 DEF TakenBy, TypeOK
  <2>3. Cardinality(TakenBy(t)') = Cardinality(TakenBy(t)) - 1
    BY <2>2, Countable, FS_RemoveElement
  <2>4. \A u \in Tasks : u # t => TakenBy(u)' = TakenBy(u)
    BY <1>2, <1>3 DEF TakenBy, TypeOK
  <2>5. ASSUME NEW u \in Tasks
        PROVE  owed'[u] = (IF pending'[u] THEN 1 ELSE 0) + Cardinality(TakenBy(u)')
    <3>1. CASE u = t
      <4>1. owed'[t] = owed[t] - 1 /\ pending'[t] = pending[t]
        BY <1>3 DEF TypeOK
      <4>2. owed[t] = (IF pending[t] THEN 1 ELSE 0) + Cardinality(TakenBy(t))
        BY <2>1
      <4> DEFINE n == Cardinality(TakenBy(t))
      <4>3. n \in Nat
        BY Countable
      <4>4. owed[t] = (IF pending[t] THEN 1 ELSE 0) + n
        BY <4>2
      <4>5. Cardinality(TakenBy(t)') = n - 1
        BY <2>3
      <4> HIDE DEF n
      <4>6. owed[t] - 1 = (IF pending[t] THEN 1 ELSE 0) + (n - 1)
        BY <4>3, <4>4
      <4>7. owed'[t] = (IF pending'[t] THEN 1 ELSE 0) + Cardinality(TakenBy(t)')
        BY <4>1, <4>5, <4>6
      <4> QED BY <3>1, <4>7, Zenon
    <3>2. CASE u # t
      <4>1. pending'[u] = pending[u] /\ owed'[u] = owed[u]
        BY <3>2, <1>3 DEF TypeOK
      <4>2. TakenBy(u)' = TakenBy(u)
        BY <3>2, <2>4
      <4> QED BY <4>1, <4>2, <2>1
    <3> QED BY <3>1, <3>2
  <2> QED BY <2>5 DEF Answers
<1>7. RefersToFirst'
  <2>1. \A q \in Runners : Walked(q)' = Walked(q)
    BY DEF Walked
  <2> QED BY <2>1, <1>1, <1>3 DEF RefersToFirst, TypeOK
<1>8. OwnListInUse'
  BY <1>3 DEF OwnListInUse, TypeOK
<1> QED BY <1>5, <1>6, <1>7, <1>8

\* After the task has run, it is no longer counted.
LEMMA FinishKeepsInvariant ==
    ASSUME TypeOK, Sound, ~astray', NEW r \in Runners, Finish(r)
    PROVE  CountIsWork' /\ Answers' /\ RefersToFirst' /\ OwnListInUse'
<1> USE DEF Sound
<1>1. /\ pc[r] = "running" /\ pc' = [pc EXCEPT ![r] = "looking"]
      /\ cur' = [cur EXCEPT ![r] = Null]
      /\ taskCount' = taskCount - 1
      /\ UNCHANGED <<head, tail, prev, next, pending, owed>>
  BY DEF Finish, listVars
<1>3. CountIsWork'
  <2>1. Busy' = Busy \ {r} /\ r \in Busy
    BY <1>1 DEF Busy, TypeOK
  <2>2. Cardinality(Busy') = Cardinality(Busy) - 1
    BY <2>1, Countable, FS_RemoveElement
  <2>3. taskCount = Cardinality(Waiting) + Cardinality(Busy) /\ Waiting' = Waiting
    BY <1>1 DEF CountIsWork, Waiting
  <2>4. taskCount' = Cardinality(Waiting') + Cardinality(Busy')
    BY <2>2, <2>3, <1>1, Countable
  <2> QED BY <2>4 DEF CountIsWork, Waiting
<1>4. Answers'
  <2>1. \A u \in Tasks : TakenBy(u)' = TakenBy(u)
    BY <1>1 DEF TakenBy, TypeOK
  <2> QED BY <2>1, <1>1 DEF Answers
<1>5. RefersToFirst'
  <2>1. \A q \in Runners : Walked(q)' = Walked(q)
    BY DEF Walked
  <2> QED BY <2>1, <1>1 DEF RefersToFirst, TypeOK
<1>6. OwnListInUse'
  BY <1>1 DEF OwnListInUse, TypeOK
<1> QED BY <1>3, <1>4, <1>5, <1>6

\* run() returns with its own list empty.
LEMMA LeaveKeepsInvariant ==
    ASSUME TypeOK, Sound, ~astray', NEW r \in Runners, Leave(r)
    PROVE  CountIsWork' /\ Answers' /\ RefersToFirst' /\ OwnListInUse'
<1> USE DEF Sound
<1>1. /\ pc[r] = "looking" /\ pc' = [pc EXCEPT ![r] = "idle"]
      /\ head[Walked(r)] = Null
      /\ UNCHANGED <<head, tail, prev, next, pending, taskCount, cur, owed>>
  BY DEF Leave, listVars
<1>3. CountIsWork' /\ Answers'
  <2>1. Busy' = Busy
    BY <1>1 DEF Busy, TypeOK
  <2>2. \A u \in Tasks : TakenBy(u)' = TakenBy(u)
    BY <1>1 DEF TakenBy, TypeOK
  <2> QED BY <2>1, <2>2, <1>1, AnswersStay
<1>4. RefersToFirst'
  <2>1. \A q \in Runners : Walked(q)' = Walked(q)
    BY DEF Walked
  <2> QED BY <2>1, <1>1 DEF RefersToFirst, TypeOK
<1>5. OwnListInUse'
  BY <1>1 DEF OwnListInUse, TypeOK, Walked
<1> QED BY <1>3, <1>4, <1>5

\* A step that does not go astray keeps what Sound says.
LEMMA StepKeepsSound ==
    ASSUME TypeOK, Sound, ~astray', [Next]_vars
    PROVE  Sound'
<1>1. PICK list \in [Lists -> Seq(Tasks)] : Represents(list)
  BY DEF Sound
<1>2. (\E new \in [Lists -> Seq(Tasks)] : Represents(new))'
  BY <1>1, StepKeepsSequences DEF Sound
<1>3. CountIsWork' /\ Answers' /\ RefersToFirst' /\ OwnListInUse'
  <2>1. CASE \E t \in Tasks : Enqueue(t)
    BY <2>1, EnqueueKeepsInvariant
  <2>2. CASE \E t \in Tasks : Dequeue(t)
    BY <2>2, DequeueKeepsInvariant
  <2>3. CASE \E r \in Runners : Begin(r)
    BY <2>3, BeginKeepsInvariant
  <2>4. CASE \E r \in Runners : Test(r)
    BY <2>4, TestKeepsInvariant
  <2>5. CASE \E r \in Runners : Front(r)
    BY <2>5, FrontKeepsInvariant
  <2>6. CASE \E r \in Runners : Pop(r)
    BY <2>6, PopKeepsInvariant
  <2>7. CASE \E r \in Runners : Run(r)
    BY <2>7, RunKeepsInvariant
  <2>8. CASE \E r \in Runners : Finish(r)
    BY <2>8, FinishKeepsInvariant
  <2>9. CASE \E r \in Runners : Leave(r)
    BY <2>9, LeaveKeepsInvariant
  <2>10. CASE UNCHANGED vars
    BY <2>10 DEF vars, Sound, CountIsWork, Busy, Answers, TakenBy,
                 RefersToFirst, Walked, OwnListInUse
  <2> QED BY <2>1, <2>2, <2>3, <2>4, <2>5, <2>6, <2>7, <2>8, <2>9, <2>10 DEF Next
<1> QED BY <1>2, <1>3 DEF Sound

-----------------------------------------------------------------------------
(* Theorems. *)

\* The invariant that the others follow from: until a step goes astray, the
\* links are sequences, and the counter, the answers and the runners'
\* references agree with them.
THEOREM TriggerManagerInvariant == Spec => []IInv
<1>1. Init => IInv
  BY InitEstablishesInvariant
<1>2. IInv /\ [Next]_vars => IInv'
  <2> SUFFICES ASSUME IInv, [Next]_vars PROVE IInv'
    OBVIOUS
  <2>1. TypeOK'
    BY StepKeepsType DEF IInv
  <2>2. ~astray' => Sound'
    BY AstrayStays, StepKeepsSound DEF IInv
  <2> QED BY <2>1, <2>2 DEF IInv
<1> QED BY <1>1, <1>2, PTL DEF Spec

\* Until a step goes astray, the links of the lists, the flags and the counter
\* agree, although tasks leave the lists that run() walks.
THEOREM TriggerManagerConsistent == Spec => []Consistent
<1>1. IInv => Consistent
  BY RepresentedIsWhole DEF IInv, Sound, Consistent
<1> QED BY <1>1, TriggerManagerInvariant, PTL

\* Until a step goes astray, each accepted enqueue is answered by one run or
\* one dequeue.
THEOREM TriggerManagerAnsweredOnce == Spec => []AnsweredOnce
<1>1. IInv => AnsweredOnce
  BY DEF IInv, Sound, Answers, TakenBy, AnsweredOnce
<1> QED BY <1>1, TriggerManagerInvariant, PTL

\* Until a step goes astray, tasks never change places, whatever is moved,
\* dequeued or popped around them.
THEOREM TriggerManagerInQueuedOrder == Spec => InQueuedOrder
<1>1. (\A list \in [Lists -> Seq(Tasks)] : Represents(list) =>
        /\ \A l \in Lists : Chain(l) = list[l]
        /\ \A l \in Lists : \A t : t \in Linked(l) <=> Has(list, l, t)
        /\ \A t, u : Ahead(t, u) <=> Precedes(list, t, u))'
  BY ChainsAreSequences, PTL
<1>2. IInv /\ [Next]_vars => astray' \/ QueuedOrder
  <2> SUFFICES ASSUME IInv, [Next]_vars, ~astray' PROVE QueuedOrder
    OBVIOUS
  <2>0. TypeOK /\ Sound
    BY AstrayStays DEF IInv
  <2>1. PICK list \in [Lists -> Seq(Tasks)] : Represents(list)
    BY <2>0 DEF Sound
  <2>2. PICK new \in [Lists -> Seq(Tasks)] : Represents(new)' /\ InOrder(list, new)
    BY <2>0, <2>1, StepKeepsSequences DEF Sound
  <2>3. \A t, u : Ahead(t, u) <=> Precedes(list, t, u)
    BY <2>1, ChainsAreSequences
  <2>4. \A t : t \in Linked(Shared) <=> Has(list, Shared, t)
    BY <2>1, ChainsAreSequences DEF Lists
  <2>5. \A t, u : Ahead(t, u)' <=> Precedes(new, t, u)
    BY <2>2, <1>1
  <2> QED BY <2>2, <2>3, <2>4, <2>5 DEF QueuedOrder, InOrder
<1>3. IInv /\ [Next]_vars => [astray' \/ QueuedOrder]_vars
  BY <1>2
<1> QED BY <1>3, TriggerManagerInvariant, PTL DEF Spec, InQueuedOrder
=============================================================================
