---------------------------- MODULE SyncWaitProofs ----------------------------
(***************************************************************************)
(* Theorems about SyncWait, for every set of receivers, however many of    *)
(* them wait on a run loop, and however often the sender is split.         *)
(***************************************************************************)
EXTENDS SyncWait, TLAPS

USE LoopsAssumption, DynamicAssumption, NobodyAssumption, RoundsAssumption

\* The linked operations whose receivers notify() has yet to complete.
ToNotify ==
    {r \in Receivers :
        \E j \in DOMAIN linked :
            /\ linked[j] = r
            /\ \/ single = "started"
               \/ \E i \in DOMAIN linked :
                      /\ linked[i] = cursor.at
                      /\ i < j \/ (i = j /\ cursor.phase = "complete")}

\* Nothing has reached the receiver: its context has nothing to do but sleep.
Untouched(r) ==
    /\ tasks[r] = <<>> /\ ~done[r] /\ answers[r] = 0
    /\ runner[r] \in {"idle", "waiting", "asleep"}

\* The rest of its work waits on its loop, and its context is awake.
Scheduled(r) ==
    /\ tasks[r] = <<r>> /\ ~done[r] /\ answers[r] = 0 /\ values = "value"
    /\ runner[r] \in {"idle", "waiting", "popping", "emptying"}

Executing(r) ==
    /\ tasks[r] = <<>> /\ ~done[r] /\ answers[r] = 0 /\ values = "value"
    /\ runner[r] = "executing" /\ task[r] = r

\* It is completed, and its context finds out.
Answered(r) ==
    /\ tasks[r] = <<>> /\ done[r] /\ answers[r] = 1
    /\ runner[r] \in {"idle", "waiting", "popping", "ended"}

\* An operation is linked once, by a receiver that has started.
LinkedOnce ==
    /\ \A i, j \in DOMAIN linked : linked[i] = linked[j] => i = j
    /\ \A i \in DOMAIN linked : pc[linked[i]] \in {"run", "returned"}

\* The shared operation is started with the first receiver that is linked, and
\* notify() begins when it has completed.
StartedOnce ==
    /\ linked = <<>> <=> single \in {"none", "connected"}
    /\ starts = IF linked = <<>> THEN 0 ELSE 1
    /\ cursor # Idle =>
           single = "completed" /\ cursor.phase # "none"
    /\ \A r \in Receivers : pc[r] # "connect" => single # "none"

\* Between the two steps of start(), the shared operation completes only after
\* it was asked to stop.
DecidesOnSource ==
    \A r \in Receivers : pc[r] = "decide" =>
        /\ registered[r]
        /\ asked[r] => source
        /\ values # "none" => source

\* A receiver is requested to stop in this round, or was in an earlier one.
Requested == stale \/ \E q \in Receivers : asked[q]

\* Where each receiver stands: it is before its start, to be notified, on its
\* loop, completed, or lost.
Stands(r) ==
    /\ pc[r] \in {"connect", "start", "decide"} => Untouched(r) /\ runner[r] = "idle"
    /\ pc[r] = "run" /\ r \in ToNotify => Untouched(r)
    /\ pc[r] = "run" /\ r \notin ToNotify =>
           (astray /\ Untouched(r)) \/ Scheduled(r) \/ Executing(r) \/ Answered(r)
    /\ pc[r] = "returned" => r \notin ToNotify /\ Answered(r) /\ runner[r] = "ended"

\* What a receiver was completed with.
AnsweredTruly(r) ==
    answers[r] = 1 =>
        /\ result[r] # "none"
        /\ result[r] = values \/ (result[r] = "stopped" /\ Requested)

IInv ==
    /\ TypeOK
    /\ tasks \in [Loops -> Seq(Loops)]
    /\ LinkedOnce
    /\ StartedOnce
    /\ DecidesOnSource
    /\ source => Requested
    /\ \A r \in Receivers : Stands(r) /\ AnsweredTruly(r)

-----------------------------------------------------------------------------
(* The list of operations and what is left of it to notify. *)

\* An operation that is linked becomes the first of the list.
LEMMA Prepend ==
    ASSUME NEW S, NEW s \in Seq(S), NEW x \in S
    PROVE  /\ <<x>> \o s \in Seq(S) /\ <<x>> \o s # <<>>
           /\ DOMAIN s = 1..Len(s) /\ DOMAIN (<<x>> \o s) = 1..(Len(s) + 1)
           /\ (<<x>> \o s)[1] = x
           /\ \A i \in 1..Len(s) : (<<x>> \o s)[i + 1] = s[i]
<1>1. <<x>> \in Seq(S) /\ Len(<<x>>) = 1 /\ <<x>>[1] = x
  OBVIOUS
<1>2. /\ <<x>> \o s \in Seq(S) /\ Len(<<x>> \o s) = Len(s) + 1
      /\ \A i \in 1..(Len(s) + 1) :
             (<<x>> \o s)[i] = IF i <= 1 THEN <<x>>[i] ELSE s[i - 1]
  BY <1>1
<1>3. Len(s) \in Nat
  OBVIOUS
<1>4. \A i \in 1..Len(s) : (<<x>> \o s)[i + 1] = s[i]
  <2> TAKE i \in 1..Len(s)
  <2>1. i + 1 \in 1..(Len(s) + 1) /\ ~(i + 1 <= 1) /\ (i + 1) - 1 = i
    BY <1>3
  <2> QED BY <1>2, <2>1
<1>5. (<<x>> \o s)[1] = x
  BY <1>1, <1>2, <1>3
<1> QED BY <1>2, <1>3, <1>4, <1>5

LEMMA ListParts ==
    ASSUME IInv
    PROVE  /\ linked \in Seq(Receivers) /\ Len(linked) \in Nat
           /\ DOMAIN linked = 1..Len(linked)
           /\ \A i \in DOMAIN linked : linked[i] \in Receivers
           /\ linked = <<>> <=> Len(linked) = 0
  BY DEF IInv, TypeOK, SplitTypeOK

\* notify() stands at a linked operation.
LEMMA CursorIndex ==
    ASSUME IInv, cursor # Idle
    PROVE  /\ cursor.at \in Receivers /\ cursor.phase \in {"complete", "next"}
           /\ single = "completed" /\ values # "none"
           /\ \E i \in DOMAIN linked : linked[i] = cursor.at
<1>1. cursor.at \in Range(linked)
  BY DEF IInv, TypeOK, SplitTypeOK
<1>2. /\ cursor.phase \in {"complete", "next"} /\ single = "completed" /\ values # "none"
  BY DEF IInv, TypeOK, SplitTypeOK, StartedOnce
<1> QED BY <1>1, <1>2, ListParts DEF Range

\* Before notify() begins, it has all linked operations to notify; when it has
\* ended, none.
LEMMA IdleToNotify ==
    ASSUME IInv, cursor = Idle
    PROVE  ToNotify = IF single = "started" THEN Range(linked) ELSE {}
<1>1. \A i \in DOMAIN linked : linked[i] # cursor.at
  BY ListParts DEF Idle, At
<1> QED BY <1>1, ListParts DEF ToNotify, Range

\* Who is to be notified waits in sync_wait.
LEMMA ToNotifyWaits ==
    ASSUME IInv, NEW r \in ToNotify
    PROVE  r \in Receivers /\ pc[r] = "run" /\ Untouched(r)
<1>1. r \in Receivers /\ \E i \in DOMAIN linked : linked[i] = r
  BY DEF ToNotify
<1>2. pc[r] \in {"run", "returned"}
  BY <1>1 DEF IInv, LinkedOnce
<1> QED BY <1>1, <1>2 DEF IInv, Stands

-----------------------------------------------------------------------------
(* What steps do to the receivers. *)

\* The loops and the answers keep their types.
LoopsTyped ==
    /\ LoopTypeOK
    /\ tasks \in [Loops -> Seq(Loops)]
    /\ result \in [Receivers -> SplitChannels \cup {"none"}]
    /\ answers \in [Receivers -> Nat]

\* The step leaves alone the loop of r, and what r was completed with.
Kept(r) ==
    /\ tasks'[r] = tasks[r] /\ done'[r] = done[r] /\ runner'[r] = runner[r]
    /\ task'[r] = task[r] /\ result'[r] = result[r] /\ answers'[r] = answers[r]

\* A receiver to which nothing happens stands where it stood.  What the shared
\* operation sent does not change once it is there.
LEMMA KeptStands ==
    ASSUME IInv, NEW r \in Receivers, Kept(r), pc'[r] = pc[r],
           astray => astray', Requested => Requested', values \in {"none", values'},
           r \in ToNotify <=> r \in ToNotify'
    PROVE  Stands(r)' /\ AnsweredTruly(r)'
<1>1. Untouched(r) => Untouched(r)'
  BY DEF Kept, Untouched
<1>2. /\ Scheduled(r) => Scheduled(r)'
      /\ Executing(r) => Executing(r)'
      /\ Answered(r) => Answered(r)'
  BY DEF Kept, Scheduled, Executing, Answered
<1>3. Stands(r)'
  BY <1>1, <1>2 DEF IInv, Stands, Kept
<1>4. AnsweredTruly(r)'
  BY DEF IInv, AnsweredTruly, Kept
<1> QED BY <1>3, <1>4

\* A receiver that is completed is on its loop or done with, and awake.
LEMMA ReceiveReaches ==
    ASSUME IInv, NEW r \in Receivers, Untouched(r), NEW c \in SplitChannels,
           Receive(r, c), values' = values, c = "value" => values = "value",
           c = values \/ (c = "stopped" /\ Requested')
    PROVE  /\ LoopsTyped'
           /\ Scheduled(r)' \/ Answered(r)'
           /\ AnsweredTruly(r)'
           /\ \A q \in Receivers : q # r => Kept(q)
<1>0. /\ tasks[r] = <<>> /\ ~done[r] /\ answers[r] = 0
      /\ runner[r] \in {"idle", "waiting", "asleep"}
      /\ runner \in [Receivers -> RunnerPhases] /\ done \in [Receivers -> BOOLEAN]
      /\ tasks \in [Receivers -> Seq(Receivers)]
      /\ result \in [Receivers -> SplitChannels \cup {"none"}]
      /\ answers \in [Receivers -> Nat]
      /\ cv \in BOOLEAN /\ task \in [Receivers -> Receivers \cup {NoTask}]
      /\ \A l \in Receivers : task[l] # NoTask <=> runner[l] = "executing"
  BY DEF IInv, TypeOK, LoopTypeOK, Untouched
<1>1. /\ UNCHANGED <<cv, task>>
      /\ \E x \in {"idle", "waiting"} : runner' = [runner EXCEPT ![r] = x]
  <2>1. NotifyOne(r) /\ UNCHANGED <<cv, task>>
    BY DEF Receive, push_back, finish
  <2>2. CASE runner[r] = "asleep"
    BY <2>1, <2>2 DEF NotifyOne
  <2>3. CASE runner[r] # "asleep"
    BY <1>0, <2>1, <2>3 DEF NotifyOne
  <2> QED BY <2>1, <2>2, <2>3
<1>2. CASE r \in Dynamic /\ c = "value"
  <2>1. /\ tasks' = [tasks EXCEPT ![r] = <<r>>]
        /\ UNCHANGED <<done, result, answers>>
    BY <1>0, <1>2 DEF Receive, push_back
  <2>2. LoopsTyped'
    BY <1>0, <1>1, <2>1 DEF LoopsTyped, LoopTypeOK, RunnerPhases
  <2>3. Scheduled(r)' /\ AnsweredTruly(r)'
    BY <1>0, <1>1, <1>2, <2>1 DEF Scheduled, AnsweredTruly
  <2>4. \A q \in Receivers : q # r => Kept(q)
    BY <1>0, <1>1, <2>1 DEF Kept
  <2> QED BY <2>2, <2>3, <2>4
<1>3. CASE ~(r \in Dynamic /\ c = "value")
  <2>1. /\ done' = [done EXCEPT ![r] = TRUE] /\ tasks' = tasks
        /\ result' = [result EXCEPT ![r] = c]
        /\ answers' = [answers EXCEPT ![r] = 1]
    BY <1>0, <1>3 DEF Receive, finish, Complete
  <2>2. LoopsTyped'
    BY <1>0, <1>1, <2>1 DEF LoopsTyped, LoopTypeOK, RunnerPhases
  <2>3. Answered(r)' /\ AnsweredTruly(r)'
    BY <1>0, <1>1, <2>1 DEF Answered, AnsweredTruly, SplitChannels
  <2>4. \A q \in Receivers : q # r => Kept(q)
    BY <1>0, <1>1, <2>1 DEF Kept
  <2> QED BY <2>2, <2>3, <2>4
<1> QED BY <1>2, <1>3

\* A step that does nothing to the loops.
LEMMA LoopsUnchanged ==
    ASSUME IInv, UNCHANGED <<loopVars, result, answers>>
    PROVE  LoopsTyped' /\ \A r \in Receivers : Kept(r)
  BY DEF IInv, TypeOK, LoopsTyped, LoopTypeOK, Kept, loopVars

-----------------------------------------------------------------------------
(* Each action preserves the invariant. *)

LEMMA ConnectKeepsInvariant ==
    ASSUME IInv, NEW r \in Receivers, Connect(r)
    PROVE  IInv'
<1>1. /\ pc[r] = "connect" /\ pc' = [pc EXCEPT ![r] = "start"]
      /\ single' = IF single = "none" THEN "connected" ELSE single
      /\ UNCHANGED <<values, linked, cursor, source, registered, asked, starts>>
      /\ UNCHANGED <<loopVars, result, answers, round, stale, astray>>
  BY DEF Connect, connect, Goes
<1>2. LoopsTyped' /\ \A q \in Receivers : Kept(q)
  BY <1>1, LoopsUnchanged
<1>3. TypeOK' /\ (tasks \in [Loops -> Seq(Loops)])'
  BY <1>1, <1>2 DEF IInv, TypeOK, LoopsTyped, SplitTypeOK, Idle
<1>4. LinkedOnce'
  BY <1>1, ListParts DEF IInv, TypeOK, LinkedOnce
<1>5. StartedOnce' /\ DecidesOnSource'
  BY <1>1 DEF IInv, TypeOK, SplitTypeOK, StartedOnce, DecidesOnSource, Idle
<1>6. ToNotify' = ToNotify /\ Requested' = Requested
  BY <1>1 DEF ToNotify, Requested
<1>7. Stands(r)' /\ AnsweredTruly(r)'
  BY <1>1, <1>2, <1>6 DEF IInv, TypeOK, Stands, Untouched, AnsweredTruly, Kept
<1>8. ASSUME NEW q \in Receivers, q # r PROVE Stands(q)' /\ AnsweredTruly(q)'
  <2>1. pc'[q] = pc[q]
    BY <1>1, <1>8 DEF IInv, TypeOK
  <2> QED BY <1>1, <1>2, <1>6, <2>1, KeptStands
<1> QED BY <1>1, <1>3, <1>4, <1>5, <1>6, <1>7, <1>8 DEF IInv

\* start() after the completion, and start() of a receiver whose registration
\* stops the shared operation: both complete the receiver.
LEMMA StartCompletesKeepsInvariant ==
    ASSUME IInv, NEW r \in Receivers, StartLate(r) \/ StartStop(r)
    PROVE  IInv'
<1>1. /\ pc[r] \in {"start", "decide"} /\ pc' = [pc EXCEPT ![r] = "run"]
      /\ registered' \in {registered, [registered EXCEPT ![r] = FALSE]}
      /\ UNCHANGED <<single, values, linked, cursor, source, asked, starts>>
      /\ UNCHANGED <<round, stale, astray>>
      /\ \E c \in SplitChannels : /\ Receive(r, c)
                                  /\ c = values \/ (c = "stopped" /\ source)
  <2>1. CASE StartLate(r)
    <3>1. values \in SplitChannels
      BY <2>1 DEF StartLate, StartCompleted, complete, IInv, TypeOK, SplitTypeOK
    <3> QED BY <2>1, <3>1 DEF StartLate, StartCompleted, complete, Goes
  <2>2. CASE StartStop(r)
    BY <2>2 DEF StartStop, StartStopped, splitVars, Goes, SplitChannels
  <2> QED BY <2>1, <2>2
<1>2. PICK c \in SplitChannels : /\ Receive(r, c)
                                 /\ c = values \/ (c = "stopped" /\ Requested)
  BY <1>1 DEF IInv
<1>3. Untouched(r) /\ Requested' = Requested
  BY <1>1 DEF IInv, Stands, Requested
<1>4. /\ LoopsTyped'
      /\ Scheduled(r)' \/ Answered(r)'
      /\ AnsweredTruly(r)'
      /\ \A q \in Receivers : q # r => Kept(q)
  BY <1>1, <1>2, <1>3, ReceiveReaches
<1>5. TypeOK' /\ (tasks \in [Loops -> Seq(Loops)])'
  BY <1>1, <1>4 DEF IInv, TypeOK, LoopsTyped, SplitTypeOK, Idle
<1>6. LinkedOnce'
  BY <1>1, ListParts DEF IInv, TypeOK, LinkedOnce
<1>7. StartedOnce' /\ DecidesOnSource'
  BY <1>1 DEF IInv, TypeOK, SplitTypeOK, StartedOnce, DecidesOnSource, Idle
<1>8. ToNotify' = ToNotify /\ r \notin ToNotify
  BY <1>1, ToNotifyWaits DEF ToNotify
<1>9. Stands(r)' /\ AnsweredTruly(r)'
  <2>1. pc'[r] = "run" /\ r \notin ToNotify'
    BY <1>1, <1>8 DEF IInv, TypeOK
  <2> QED BY <1>4, <2>1 DEF Stands
<1>10. ASSUME NEW q \in Receivers, q # r PROVE Stands(q)' /\ AnsweredTruly(q)'
  <2>1. pc'[q] = pc[q] /\ Kept(q)
    BY <1>1, <1>4, <1>10 DEF IInv, TypeOK
  <2> QED BY <1>1, <1>3, <1>8, <2>1, KeptStands
<1> QED BY <1>1, <1>3, <1>5, <1>6, <1>7, <1>9, <1>10 DEF IInv

LEMMA RegisterKeepsInvariant ==
    ASSUME IInv, NEW r \in Receivers, StartRegister(r)
    PROVE  IInv'
<1>1. /\ pc[r] = "start" /\ pc' = [pc EXCEPT ![r] = "decide"] /\ values = "none"
      /\ registered' = [registered EXCEPT ![r] = TRUE]
      /\ source' = (source \/ asked[r])
      /\ UNCHANGED <<single, values, linked, cursor, asked, starts>>
      /\ UNCHANGED <<loopVars, result, answers, round, stale, astray>>
  BY DEF StartRegister, StartRegisters, Goes
<1>2. LoopsTyped' /\ \A q \in Receivers : Kept(q)
  BY <1>1, LoopsUnchanged
<1>3. TypeOK' /\ (tasks \in [Loops -> Seq(Loops)])'
  BY <1>1, <1>2 DEF IInv, TypeOK, LoopsTyped, SplitTypeOK, Idle
<1>4. LinkedOnce'
  BY <1>1, ListParts DEF IInv, TypeOK, LinkedOnce
<1>5. StartedOnce' /\ DecidesOnSource'
  BY <1>1 DEF IInv, TypeOK, SplitTypeOK, StartedOnce, DecidesOnSource, Idle
<1>6. ToNotify' = ToNotify /\ Requested' = Requested
  BY <1>1 DEF ToNotify, Requested
<1>7. Stands(r)' /\ AnsweredTruly(r)'
  BY <1>1, <1>2, <1>6 DEF IInv, TypeOK, Stands, Untouched, AnsweredTruly, Kept
<1>8. ASSUME NEW q \in Receivers, q # r PROVE Stands(q)' /\ AnsweredTruly(q)'
  <2>1. pc'[q] = pc[q]
    BY <1>1, <1>8 DEF IInv, TypeOK
  <2> QED BY <1>1, <1>2, <1>6, <2>1, KeptStands
<1>9. source' => Requested'
  BY <1>1 DEF IInv, Requested
<1> QED BY <1>3, <1>4, <1>5, <1>7, <1>8, <1>9 DEF IInv

\* The first operation that is linked starts the shared one.
LEMMA LinkKeepsInvariant ==
    ASSUME IInv, Serialised, NEW r \in Receivers, StartLink(r)
    PROVE  IInv'
<1>1. /\ pc[r] = "decide" /\ pc' = [pc EXCEPT ![r] = "run"]
      /\ cursor = Idle /\ ~source
      /\ linked' = <<r>> \o linked
      /\ single' = IF linked = <<>> THEN "started" ELSE single
      /\ starts' = IF linked = <<>> THEN starts + 1 ELSE starts
      /\ UNCHANGED <<values, cursor, source, registered, asked>>
      /\ UNCHANGED <<loopVars, result, answers, round, stale, astray>>
  BY DEF StartLink, StartLinks, Goes, Unnotified
<1>2. LoopsTyped' /\ \A q \in Receivers : Kept(q)
  BY <1>1, LoopsUnchanged
<1>3. /\ linked' \in Seq(Receivers) /\ linked' # <<>>
      /\ DOMAIN linked = 1..Len(linked) /\ DOMAIN linked' = 1..(Len(linked) + 1)
      /\ linked'[1] = r /\ \A i \in 1..Len(linked) : linked'[i + 1] = linked[i]
      /\ Len(linked) \in Nat
  BY <1>1, ListParts, Prepend
<1>4. single' = "started" /\ values = "none" /\ values' = "none" /\ starts' = 1
  <2>1. values = "none" /\ single # "completed" /\ single # "none"
    BY <1>1 DEF IInv, TypeOK, SplitTypeOK, DecidesOnSource, StartedOnce
  <2>2. linked # <<>> => single = "started"
    BY <2>1 DEF IInv, TypeOK, SplitTypeOK, StartedOnce
  <2> QED BY <1>1, <2>1, <2>2 DEF IInv, StartedOnce
<1>5. TypeOK' /\ (tasks \in [Loops -> Seq(Loops)])'
  <2>1. SplitTypeOK'
    <3>1. UNCHANGED <<cursor, source, registered, asked>> /\ cursor = Idle
      BY <1>1
    <3>2. linked' \in Seq(Receivers)
      BY <1>3
    <3> QED BY <1>4, <3>1, <3>2 DEF IInv, TypeOK, SplitTypeOK, Idle
  <2>2. UNCHANGED <<round, stale, astray>> /\ pc' = [pc EXCEPT ![r] = "run"]
    BY <1>1
  <2> QED BY <1>2, <2>1, <2>2 DEF IInv, TypeOK, LoopsTyped
<1>6. \A i \in DOMAIN linked : linked[i] \in Receivers /\ linked[i] # r
  BY <1>1, ListParts DEF IInv, LinkedOnce
<1>7. \A i \in DOMAIN linked' : i = 1 \/ (i - 1 \in DOMAIN linked /\ linked'[i] = linked[i - 1])
  <2> TAKE i \in DOMAIN linked'
  <2>1. i # 1 => i - 1 \in 1..Len(linked) /\ (i - 1) + 1 = i
    BY <1>3
  <2> QED BY <1>3, <2>1
<1>8. LinkedOnce'
  <2>1. ASSUME NEW i \in DOMAIN linked', NEW j \in DOMAIN linked', linked'[i] = linked'[j]
        PROVE  i = j
    <3>1. CASE i = 1 \/ j = 1
      BY <1>3, <1>6, <1>7, <2>1, <3>1
    <3>2. CASE i # 1 /\ j # 1
      <4>1. i - 1 \in DOMAIN linked /\ j - 1 \in DOMAIN linked /\ linked[i - 1] = linked[j - 1]
        BY <1>7, <2>1, <3>2
      <4>2. i - 1 = j - 1
        BY <4>1 DEF IInv, LinkedOnce
      <4> QED BY <1>3, <4>2
    <3> QED BY <3>1, <3>2
  <2>2. ASSUME NEW i \in DOMAIN linked' PROVE pc'[linked'[i]] \in {"run", "returned"}
    <3>1. CASE i = 1
      BY <1>1, <1>3, <3>1 DEF IInv, TypeOK
    <3>2. CASE i # 1
      <4>1. i - 1 \in DOMAIN linked /\ linked'[i] = linked[i - 1]
        BY <1>7, <3>2
      <4> QED BY <1>1, <1>6, <4>1 DEF IInv, TypeOK, LinkedOnce
    <3> QED BY <3>1, <3>2
  <2> QED BY <2>1, <2>2 DEF LinkedOnce
<1>9. StartedOnce' /\ DecidesOnSource'
  BY <1>1, <1>3, <1>4 DEF IInv, TypeOK, SplitTypeOK, StartedOnce, DecidesOnSource, Idle
<1>10. ToNotify' = ToNotify \cup {r}
  <2>1. ToNotify' = {q \in Receivers : \E j \in DOMAIN linked' : linked'[j] = q}
    BY <1>4 DEF ToNotify
  <2>2. ToNotify = {q \in Receivers : \E j \in DOMAIN linked : linked[j] = q}
    <3>1. CASE single = "started"
      BY <3>1 DEF ToNotify
    <3>2. CASE single # "started"
      <4>1. linked = <<>>
        BY <1>1, <1>4, <3>2
      <4> QED BY <1>3, <4>1 DEF ToNotify
    <3> QED BY <3>1, <3>2
  <2>3. \A q : (\E j \in DOMAIN linked' : linked'[j] = q)
               <=> q = r \/ \E j \in DOMAIN linked : linked[j] = q
    <3> TAKE q
    <3>1. ASSUME NEW j \in DOMAIN linked PROVE j + 1 \in DOMAIN linked' /\ linked'[j + 1] = linked[j]
      BY <1>3
    <3>2. 1 \in DOMAIN linked'
      BY <1>3
    <3> QED BY <1>3, <1>7, <3>1, <3>2
  <2> QED BY <2>1, <2>2, <2>3
<1>0. Requested' = Requested
  BY <1>1 DEF Requested
<1>11. Stands(r)' /\ AnsweredTruly(r)'
  <2>1. pc'[r] = "run" /\ r \in ToNotify' /\ Kept(r)
    BY <1>1, <1>2, <1>10 DEF IInv, TypeOK
  <2> QED BY <1>0, <1>1, <2>1 DEF IInv, Stands, Untouched, AnsweredTruly, Kept
<1>12. ASSUME NEW q \in Receivers, q # r PROVE Stands(q)' /\ AnsweredTruly(q)'
  <2>1. pc'[q] = pc[q] /\ Kept(q) /\ (q \in ToNotify' <=> q \in ToNotify)
    BY <1>1, <1>2, <1>10, <1>12 DEF IInv, TypeOK
  <2> QED BY <1>0, <1>1, <2>1, KeptStands
<1> QED BY <1>0, <1>1, <1>5, <1>8, <1>9, <1>11, <1>12 DEF IInv

\* run(): the context of an untouched receiver sleeps, of a scheduled one takes
\* its task in one step or two, and of a completed one finds nothing more to do.
LEMMA RunKeepsInvariant ==
    ASSUME IInv, NEW r \in Receivers, Run(r)
    PROVE  IInv'
<1>1. /\ pc[r] = "run" /\ (run(r) \/ Wait(r) \/ pop_front(r))
      /\ UNCHANGED <<splitVars, waitVars>>
  BY DEF Run
<1>2. UNCHANGED <<single, values, linked, cursor, source, registered, asked, starts,
                  pc, result, answers, round, stale, astray>>
  BY <1>1 DEF splitVars, waitVars
<1>3. /\ runner \in [Receivers -> RunnerPhases] /\ done \in [Receivers -> BOOLEAN]
      /\ tasks \in [Receivers -> Seq(Receivers)]
      /\ result \in [Receivers -> SplitChannels \cup {"none"}]
      /\ answers \in [Receivers -> Nat]
      /\ cv \in BOOLEAN /\ task \in [Receivers -> Receivers \cup {NoTask}]
      /\ \A l \in Receivers : task[l] # NoTask <=> runner[l] = "executing"
  BY DEF IInv, TypeOK, LoopTypeOK
<1>4. ToNotify' = ToNotify /\ Requested' = Requested
  BY <1>2 DEF ToNotify, Requested
<1>5. tasks[r] = <<>> \/ tasks[r] = <<r>>
  BY <1>1 DEF IInv, Stands, Untouched, Scheduled, Executing, Answered
<1> DEFINE Moves(x) == /\ runner' = [runner EXCEPT ![r] = x]
                       /\ UNCHANGED <<cv, done, tasks, task>>
           Pops == /\ runner[r] \in {"popping", "emptying"} /\ tasks[r] = <<r>>
                   /\ runner' = [runner EXCEPT ![r] = "executing"]
                   /\ tasks' = [tasks EXCEPT ![r] = <<>>]
                   /\ task' = [task EXCEPT ![r] = r]
                   /\ UNCHANGED <<cv, done>>
<1>6. \/ runner[r] = "idle" /\ Moves("waiting")
      \/ runner[r] = "waiting" /\ tasks[r] = <<>> /\ ~done[r] /\ Moves("asleep")
      \/ runner[r] = "waiting" /\ (tasks[r] # <<>> \/ done[r]) /\ Moves("popping")
      \/ runner[r] = "popping" /\ tasks[r] = <<>> /\ Moves("ended")
      \/ runner[r] = "popping" /\ tasks[r] = <<r>> /\ Moves("emptying")
      \/ Pops
  <2>1. CASE run(r)
    BY <2>1 DEF run
  <2>2. CASE Wait(r)
    BY <2>2 DEF Wait
  <2>3. CASE pop_front(r)
    <3>1. Head(<<r>>) = r /\ <<r>> # <<>> /\ Len(<<r>>) = 1
      OBVIOUS
    <3>2. CASE PopNothing(r)
      BY <3>2 DEF PopNothing
    <3>3. CASE PopAlone(r)
      <4>1. tasks[r] = <<r>>
        BY <1>5, <3>3 DEF PopAlone
      <4>2. Takes(r, TRUE) /\ runner[r] = "popping"
        BY <3>1, <3>3, <4>1 DEF PopAlone
      <4> QED BY <3>1, <4>1, <4>2 DEF Takes
    <3>4. CASE PopReads(r)
      BY <1>5, <3>1, <3>4 DEF PopReads
    <3>5. CASE PopWrites(r)
      <4>1. tasks[r] = <<r>> /\ runner[r] = "emptying"
        <5>1. runner[r] \in {"unlinking", "emptying"}
          BY <3>5 DEF PopWrites
        <5> QED BY <1>1, <5>1 DEF IInv, Stands, Untouched, Scheduled, Executing, Answered
      <4>2. Takes(r, TRUE)
        BY <3>5, <4>1 DEF PopWrites
      <4> QED BY <3>1, <4>1, <4>2 DEF Takes
    <3> QED BY <2>3, <3>2, <3>3, <3>4, <3>5 DEF pop_front
  <2> QED BY <1>1, <2>1, <2>2, <2>3
<1>7. LoopsTyped' /\ (\A q \in Receivers : q # r => Kept(q)) /\ Stands(r)' /\ AnsweredTruly(r)'
  <2>1. AnsweredTruly(r)'
    BY <1>2, <1>4 DEF IInv, AnsweredTruly
  <2>2. /\ r \in ToNotify => Untouched(r)
        /\ r \notin ToNotify =>
               (astray /\ Untouched(r)) \/ Scheduled(r) \/ Executing(r) \/ Answered(r)
    BY <1>1 DEF IInv, Stands
  <2>3. ASSUME NEW x \in {"waiting", "asleep", "popping", "emptying", "ended"}, Moves(x),
               runner[r] # "executing",
               x = "asleep" => tasks[r] = <<>> /\ ~done[r],
               x = "popping" => tasks[r] # <<>> \/ done[r],
               x = "emptying" => runner[r] = "popping" /\ tasks[r] # <<>>,
               x = "ended" => runner[r] = "popping" /\ tasks[r] = <<>>
        PROVE  LoopsTyped' /\ (\A q \in Receivers : q # r => Kept(q)) /\ Stands(r)'
    <3>1. LoopsTyped'
      BY <1>2, <1>3, <2>3 DEF LoopsTyped, LoopTypeOK, RunnerPhases
    <3>2. \A q \in Receivers : q # r => Kept(q)
      BY <1>2, <1>3, <2>3 DEF Kept
    <3>3. runner'[r] = x /\ tasks'[r] = tasks[r] /\ done'[r] = done[r]
      BY <1>3, <2>3
    <3>4. /\ Untouched(r) => Untouched(r)'
          /\ Scheduled(r) => Scheduled(r)'
          /\ Answered(r) => Answered(r)'
          /\ ~Executing(r)
      BY <1>2, <2>3, <3>3 DEF Untouched, Scheduled, Answered, Executing
    <3> QED BY <1>1, <1>2, <1>4, <2>2, <3>1, <3>2, <3>4 DEF Stands
  <2>4. CASE Pops
    <3>1. LoopsTyped'
      <4>1. <<>> \in Seq(Receivers)
        OBVIOUS
      <4> QED BY <1>2, <1>3, <2>4, <4>1 DEF LoopsTyped, LoopTypeOK, RunnerPhases
    <3>2. \A q \in Receivers : q # r => Kept(q)
      BY <1>2, <1>3, <2>4 DEF Kept
    <3>3. <<r>> # <<>>
      OBVIOUS
    <3>4. Scheduled(r) /\ r \notin ToNotify
      BY <2>2, <2>4, <3>3 DEF Untouched, Scheduled, Executing, Answered
    <3>5. Executing(r)'
      BY <1>2, <1>3, <2>4, <3>4 DEF Scheduled, Executing
    <3> QED BY <1>1, <1>2, <1>4, <3>1, <3>2, <3>4, <3>5, <2>1 DEF Stands
  <2>5. CASE ~Pops
    <3>1. \E x \in {"waiting", "asleep", "popping", "emptying", "ended"} :
              /\ Moves(x) /\ runner[r] # "executing"
              /\ x = "asleep" => tasks[r] = <<>> /\ ~done[r]
              /\ x = "popping" => tasks[r] # <<>> \/ done[r]
              /\ x = "emptying" => runner[r] = "popping" /\ tasks[r] # <<>>
              /\ x = "ended" => runner[r] = "popping" /\ tasks[r] = <<>>
      <4>1. <<r>> # <<>>
        OBVIOUS
      <4> HIDE DEF Moves, Pops
      <4> QED BY <1>6, <2>5, <4>1
    <3> QED BY <2>1, <2>3, <3>1
  <2> QED BY <2>4, <2>5
<1>8. TypeOK' /\ (tasks \in [Loops -> Seq(Loops)])'
  BY <1>2, <1>7 DEF IInv, TypeOK, LoopsTyped, SplitTypeOK, Idle
<1>9. LinkedOnce' /\ StartedOnce' /\ DecidesOnSource'
  BY <1>2 DEF IInv, LinkedOnce, StartedOnce, DecidesOnSource, Idle
<1>10. ASSUME NEW q \in Receivers, q # r PROVE Stands(q)' /\ AnsweredTruly(q)'
  BY <1>2, <1>4, <1>7, <1>10, KeptStands
<1> QED BY <1>2, <1>4, <1>7, <1>8, <1>9, <1>10 DEF IInv

LEMMA ExecuteKeepsInvariant ==
    ASSUME IInv, NEW r \in Receivers, Execute(r)
    PROVE  IInv'
<1>1. UNCHANGED <<single, values, linked, cursor, source, registered, asked, starts,
                  pc, round, stale, astray, cv, tasks>>
  BY DEF Execute, Executed, splitVars
<1>2. /\ pc[r] = "run" /\ r \notin ToNotify
      /\ tasks[r] = <<>> /\ answers[r] = 0 /\ values = "value" /\ task[r] = r
  <2>1. runner[r] = "executing" /\ pc[r] \in {"connect", "start", "decide", "run", "returned"}
    BY DEF Execute, IInv, TypeOK
  <2> QED BY <2>1 DEF IInv, Stands, Untouched, Scheduled, Executing, Answered
<1>3. /\ runner' = [runner EXCEPT ![r] = "waiting"]
      /\ task' = [task EXCEPT ![r] = NoTask]
      /\ done' = [done EXCEPT ![r] = TRUE]
      /\ answers' = [answers EXCEPT ![r] = 1]
      /\ result' = [result EXCEPT ![r] = IF asked[r] THEN "stopped" ELSE "value"]
  BY <1>2 DEF Execute, Executed, Complete, IInv, TypeOK
<1>4. /\ runner \in [Receivers -> RunnerPhases] /\ done \in [Receivers -> BOOLEAN]
      /\ tasks \in [Receivers -> Seq(Receivers)]
      /\ result \in [Receivers -> SplitChannels \cup {"none"}]
      /\ answers \in [Receivers -> Nat]
      /\ cv \in BOOLEAN /\ task \in [Receivers -> Receivers \cup {NoTask}]
      /\ \A l \in Receivers : task[l] # NoTask <=> runner[l] = "executing"
  BY DEF IInv, TypeOK, LoopTypeOK
<1>5. LoopsTyped'
  BY <1>1, <1>3, <1>4 DEF LoopsTyped, LoopTypeOK, RunnerPhases, SplitChannels
<1>6. \A q \in Receivers : q # r => Kept(q)
  BY <1>1, <1>3, <1>4 DEF Kept
<1>7. ToNotify' = ToNotify /\ Requested' = Requested /\ (asked[r] => Requested)
  BY <1>1 DEF ToNotify, Requested
<1>8. Stands(r)' /\ AnsweredTruly(r)'
  <2>1. Answered(r)' /\ AnsweredTruly(r)'
    BY <1>1, <1>2, <1>3, <1>4, <1>7 DEF Answered, AnsweredTruly
  <2> QED BY <1>1, <1>2, <1>7, <2>1 DEF Stands
<1>9. TypeOK' /\ (tasks \in [Loops -> Seq(Loops)])'
  BY <1>1, <1>5 DEF IInv, TypeOK, LoopsTyped, SplitTypeOK, Idle
<1>10. LinkedOnce' /\ StartedOnce' /\ DecidesOnSource'
  BY <1>1 DEF IInv, LinkedOnce, StartedOnce, DecidesOnSource, Idle
<1>11. ASSUME NEW q \in Receivers, q # r PROVE Stands(q)' /\ AnsweredTruly(q)'
  BY <1>1, <1>6, <1>7, <1>11, KeptStands
<1> QED BY <1>1, <1>7, <1>8, <1>9, <1>10, <1>11 DEF IInv

\* A wait that returns is not to be notified, though notify() may be at it.
LEMMA ReturnKeepsInvariant ==
    ASSUME IInv, NEW r \in Receivers, Return(r)
    PROVE  IInv'
<1>1. /\ pc[r] = "run" /\ runner[r] = "ended"
      /\ pc' = [pc EXCEPT ![r] = "returned"]
      /\ registered' = [registered EXCEPT ![r] = FALSE]
      /\ UNCHANGED <<single, values, linked, cursor, source, asked, starts>>
      /\ UNCHANGED <<loopVars, result, answers, round, stale, astray>>
  BY DEF Return, destroy, Goes
<1>2. LoopsTyped' /\ \A q \in Receivers : Kept(q)
  BY <1>1, LoopsUnchanged
<1>3. TypeOK' /\ (tasks \in [Loops -> Seq(Loops)])'
  BY <1>1, <1>2 DEF IInv, TypeOK, LoopsTyped, SplitTypeOK, Idle
<1>4. LinkedOnce'
  BY <1>1, ListParts DEF IInv, TypeOK, LinkedOnce
<1>5. StartedOnce' /\ DecidesOnSource'
  BY <1>1 DEF IInv, TypeOK, SplitTypeOK, StartedOnce, DecidesOnSource, Idle
<1>6. ToNotify' = ToNotify /\ Requested' = Requested
  BY <1>1 DEF ToNotify, Requested
<1>7. Stands(r)' /\ AnsweredTruly(r)'
  <2>1. r \notin ToNotify /\ Answered(r)
    BY <1>1 DEF IInv, Stands, Untouched, Scheduled, Executing
  <2>2. Answered(r)' /\ runner'[r] = "ended"
    BY <1>1, <1>2, <2>1 DEF Answered, Kept
  <2>3. pc'[r] = "returned"
    BY <1>1 DEF IInv, TypeOK
  <2>4. AnsweredTruly(r)'
    BY <1>1, <1>2, <1>6 DEF IInv, AnsweredTruly, Kept
  <2> QED BY <1>6, <2>1, <2>2, <2>3, <2>4 DEF Stands
<1>8. ASSUME NEW q \in Receivers, q # r PROVE Stands(q)' /\ AnsweredTruly(q)'
  <2>1. pc'[q] = pc[q]
    BY <1>1, <1>8 DEF IInv, TypeOK
  <2> QED BY <1>1, <1>2, <1>6, <2>1, KeptStands
<1> QED BY <1>1, <1>3, <1>4, <1>5, <1>6, <1>7, <1>8 DEF IInv

\* The shared operation completes: notify() begins with the newest of the list.
LEMMA SharedCompletesKeepsInvariant ==
    ASSUME IInv, Serialised, SharedCompletes
    PROVE  IInv'
<1>1. PICK c \in SplitChannels : values' = c
  BY DEF SharedCompletes, SingleCompletes
<1>2. /\ \A r \in Receivers : pc[r] = "decide" => asked[r]
      /\ single = "started" /\ single' = "completed"
      /\ cursor' = At(Head(linked), "complete")
      /\ UNCHANGED <<linked, source, registered, asked, starts>>
      /\ UNCHANGED <<pc, round, stale, astray>>
      /\ UNCHANGED <<loopVars, result, answers>>
  BY DEF SharedCompletes, SingleCompletes, waitVars
<1>3. values = "none" /\ cursor = Idle /\ linked # <<>> /\ values' # "none"
  <2>1. values = "none" /\ linked # <<>>
    BY <1>2 DEF IInv, TypeOK, SplitTypeOK, StartedOnce
  <2>2. cursor = Idle
    BY <1>2, CursorIndex
  <2> QED BY <1>1, <2>1, <2>2 DEF SplitChannels
<1>4. /\ 1 \in DOMAIN linked /\ linked[1] \in Receivers /\ Head(linked) = linked[1]
      /\ DOMAIN linked = 1..Len(linked)
  BY <1>3, ListParts
<1>5. /\ cursor' # Idle /\ cursor'.at = linked[1] /\ cursor'.phase = "complete"
      /\ cursor' \in [at : Receivers \cup {Nobody}, phase : {"none", "complete", "next"}]
  BY <1>2, <1>4 DEF At, Idle
<1>6. LoopsTyped' /\ \A q \in Receivers : Kept(q)
  BY <1>2, LoopsUnchanged
<1>7. TypeOK' /\ (tasks \in [Loops -> Seq(Loops)])'
  <2>1. linked[1] \in Range(linked)
    BY <1>4 DEF Range
  <2> QED BY <1>1, <1>2, <1>3, <1>5, <1>6, <2>1 DEF IInv, TypeOK, LoopsTyped, SplitTypeOK
<1>8. ToNotify' = ToNotify
  <2>1. ToNotify = {r \in Receivers : \E j \in DOMAIN linked : linked[j] = r}
    BY <1>2 DEF ToNotify
  <2>2. \A j \in DOMAIN linked : 1 < j \/ (1 = j /\ cursor'.phase = "complete")
    BY <1>4, <1>5, ListParts
  <2>3. \A r \in Receivers : (\E j \in DOMAIN linked : linked[j] = r) => r \in ToNotify'
    BY <1>2, <1>4, <1>5, <2>2 DEF ToNotify
  <2>4. \A r \in ToNotify' : r \in Receivers /\ \E j \in DOMAIN linked : linked[j] = r
    BY <1>2 DEF ToNotify
  <2> QED BY <2>1, <2>3, <2>4
<1>9. LinkedOnce' /\ DecidesOnSource'
  BY <1>2 DEF IInv, LinkedOnce, DecidesOnSource
<1>10. StartedOnce'
  BY <1>2, <1>3, <1>5 DEF IInv, StartedOnce
<1>11. Requested' = Requested
  BY <1>2 DEF Requested
<1>12. ASSUME NEW q \in Receivers PROVE Stands(q)' /\ AnsweredTruly(q)'
  BY <1>2, <1>3, <1>6, <1>8, <1>11, KeptStands
<1> QED BY <1>2, <1>7, <1>9, <1>10, <1>11, <1>12 DEF IInv

LEMMA NotifyKeepsInvariant ==
    ASSUME IInv, NEW r \in Receivers, Notify(r)
    PROVE  IInv'
<1>1. /\ cursor = At(r, "complete") /\ cursor' = At(r, "next") /\ values # "none"
      /\ registered' = [registered EXCEPT ![r] = FALSE]
      /\ Receive(r, values)
      /\ UNCHANGED <<single, values, linked, source, asked, starts, pc>>
      /\ UNCHANGED <<round, stale, astray>>
  BY DEF Notify, NotifyCompletes, complete
<1>2. /\ cursor # Idle /\ cursor.at = r /\ cursor.phase = "complete"
      /\ cursor' # Idle /\ cursor'.at = r /\ cursor'.phase = "next"
      /\ cursor' \in [at : Receivers \cup {Nobody}, phase : {"none", "complete", "next"}]
  BY <1>1 DEF At, Idle
<1>3. PICK k \in DOMAIN linked : linked[k] = r
  BY <1>2, CursorIndex
<1>4. single = "completed" /\ single' = "completed"
  BY <1>1, <1>2, CursorIndex
<1>5. \A i \in DOMAIN linked : linked[i] = r => i = k
  BY <1>3 DEF IInv, LinkedOnce
<1>6. DOMAIN linked \subseteq Nat
  BY ListParts
<1>7. /\ ToNotify = {q \in Receivers : \E j \in DOMAIN linked : linked[j] = q /\ k <= j}
      /\ ToNotify' = {q \in Receivers : \E j \in DOMAIN linked : linked[j] = q /\ k < j}
  <2>1. \A j \in DOMAIN linked :
            /\ (\E i \in DOMAIN linked : linked[i] = cursor.at
                       /\ (i < j \/ (i = j /\ cursor.phase = "complete"))) <=> k <= j
            /\ (\E i \in DOMAIN linked : linked[i] = cursor'.at
                       /\ (i < j \/ (i = j /\ cursor'.phase = "complete"))) <=> k < j
    BY <1>2, <1>3, <1>5, <1>6
  <2> QED BY <1>1, <1>4, <2>1 DEF ToNotify
<1>8. ToNotify' = ToNotify \ {r} /\ r \in ToNotify
  <2>1. \A j \in DOMAIN linked : k < j <=> k <= j /\ linked[j] # r
    BY <1>3, <1>5, <1>6
  <2> QED BY <1>3, <1>6, <1>7, <2>1
<1>9. Untouched(r) /\ pc[r] = "run" /\ Requested' = Requested
  BY <1>1, <1>8, ToNotifyWaits DEF Requested
<1>10. /\ LoopsTyped'
       /\ Scheduled(r)' \/ Answered(r)'
       /\ AnsweredTruly(r)'
       /\ \A q \in Receivers : q # r => Kept(q)
  <2>1. values \in SplitChannels
    BY <1>1 DEF IInv, TypeOK, SplitTypeOK
  <2> QED BY <1>1, <1>9, <2>1, ReceiveReaches
<1>11. TypeOK' /\ (tasks \in [Loops -> Seq(Loops)])'
  <2>1. r \in Range(linked)
    BY <1>3 DEF Range
  <2> QED BY <1>1, <1>2, <1>10, <2>1 DEF IInv, TypeOK, LoopsTyped, SplitTypeOK
<1>12. LinkedOnce' /\ StartedOnce' /\ DecidesOnSource'
  <2>1. \A q \in Receivers : pc[q] = "decide" => registered'[q] = registered[q]
    BY <1>1, <1>9 DEF IInv, TypeOK, SplitTypeOK
  <2> QED BY <1>1, <1>2, <1>4, <2>1 DEF IInv, LinkedOnce, StartedOnce, DecidesOnSource
<1>13. Stands(r)' /\ AnsweredTruly(r)'
  BY <1>1, <1>8, <1>9, <1>10 DEF Stands
<1>14. ASSUME NEW q \in Receivers, q # r PROVE Stands(q)' /\ AnsweredTruly(q)'
  BY <1>1, <1>8, <1>9, <1>10, <1>14, KeptStands
<1> QED BY <1>1, <1>9, <1>11, <1>12, <1>13, <1>14 DEF IInv

\* notify() goes on to the next operation, or ends behind the last, or at one
\* that is gone.
LEMMA NextOpsKeepsInvariant ==
    ASSUME IInv, Next_ops
    PROVE  IInv'
<1>1. /\ cursor.phase = "next"
      /\ UNCHANGED <<single, values, linked, source, registered, asked, starts>>
      /\ UNCHANGED <<pc, round, stale>>
      /\ UNCHANGED <<loopVars, result, answers>>
      /\ astray' = (astray \/ Gone)
      /\ \/ cursor' = IF next_ops(cursor.at) = Nobody THEN Idle
                       ELSE At(next_ops(cursor.at), "complete")
         \/ cursor' = Idle /\ Gone
  BY DEF Next_ops, NotifyNext, NotifyLost, Gone
<1>0. (astray => astray') /\ astray' \in BOOLEAN
  BY <1>1 DEF IInv, TypeOK, Gone
<1>2. cursor # Idle
  BY <1>1 DEF Idle, At
<1>3. PICK k \in DOMAIN linked : linked[k] = cursor.at
  BY <1>2, CursorIndex
<1>4. single = "completed" /\ single' = "completed"
  BY <1>1, <1>2, CursorIndex
<1>5. \A i \in DOMAIN linked : linked[i] = cursor.at => i = k
  BY <1>3 DEF IInv, LinkedOnce
<1>6. /\ DOMAIN linked = 1..Len(linked) /\ Len(linked) \in Nat
      /\ \A i \in DOMAIN linked : linked[i] \in Receivers
  BY ListParts
<1>7. next_ops(cursor.at) = IF k = Len(linked) THEN Nobody ELSE linked[k + 1]
  <2>1. k = CHOOSE n \in DOMAIN linked : linked[n] = cursor.at
    BY <1>3, <1>5
  <2> QED BY <2>1 DEF next_ops
<1>8. ToNotify = {q \in Receivers : \E j \in DOMAIN linked : linked[j] = q /\ k < j}
  <2>1. \A j \in DOMAIN linked :
            (\E i \in DOMAIN linked : linked[i] = cursor.at
                  /\ (i < j \/ (i = j /\ cursor.phase = "complete"))) <=> k < j
    BY <1>1, <1>3, <1>5, <1>6
  <2> QED BY <1>4, <2>1 DEF ToNotify
<1>9. /\ ToNotify' = ToNotify \/ (ToNotify' = {} /\ astray')
      /\ cursor' \in [at : Receivers \cup {Nobody}, phase : {"none", "complete", "next"}]
      /\ cursor' # Idle => /\ cursor'.phase # "none" /\ cursor'.at \in Range(linked)
  <2>1. CASE cursor' = Idle /\ (astray' \/ k = Len(linked))
    <3>1. \A i \in DOMAIN linked : linked[i] # Nobody
      BY <1>6
    <3>2. k = Len(linked) => ToNotify = {}
      BY <1>6, <1>8
    <3>3. ToNotify' = {}
      BY <1>1, <1>4, <2>1, <3>1 DEF ToNotify, Idle, At
    <3> QED BY <2>1, <3>2, <3>3 DEF Idle, At
  <2>2. CASE k # Len(linked) /\ cursor' # Idle
    <3>1. k + 1 \in DOMAIN linked /\ linked[k + 1] \in Receivers
      BY <1>3, <1>6, <2>2
    <3>2. cursor' = At(linked[k + 1], "complete")
      BY <1>1, <1>7, <2>2, <3>1
    <3>3. cursor'.at = linked[k + 1] /\ cursor'.phase = "complete"
      BY <3>2 DEF At
    <3>4. \A i \in DOMAIN linked : linked[i] = cursor'.at => i = k + 1
      BY <3>1, <3>3 DEF IInv, LinkedOnce
    <3>5. \A j \in DOMAIN linked :
              (\E i \in DOMAIN linked : linked[i] = cursor'.at
                    /\ (i < j \/ (i = j /\ cursor'.phase = "complete"))) <=> k < j
      <4>1. \A j \in DOMAIN linked : k < j <=> k + 1 < j \/ k + 1 = j
        BY <1>6
      <4> QED BY <3>1, <3>3, <3>4, <4>1
    <3>6. ToNotify' = ToNotify
      BY <1>1, <1>4, <1>8, <3>5 DEF ToNotify
    <3>7. linked[k + 1] \in Range(linked)
      BY <3>1 DEF Range
    <3> QED BY <3>1, <3>2, <3>3, <3>6, <3>7 DEF At
  <2>3. CASE k # Len(linked) /\ cursor' = Idle
    <3>1. linked[k + 1] # Nobody /\ next_ops(cursor.at) = linked[k + 1]
      BY <1>3, <1>6, <1>7, <2>3
    <3>2. At(linked[k + 1], "complete") # Idle
      BY DEF At, Idle
    <3>3. Gone
      BY <1>1, <2>3, <3>1, <3>2
    <3> QED BY <1>1, <2>1, <2>3, <3>3
  <2>4. CASE k = Len(linked)
    <3>1. cursor' = Idle
      BY <1>1, <1>7, <2>4
    <3> QED BY <2>1, <2>4, <3>1
  <2> QED BY <2>2, <2>3, <2>4
<1>10. LoopsTyped' /\ \A q \in Receivers : Kept(q)
  BY <1>1, LoopsUnchanged
<1>11. TypeOK' /\ (tasks \in [Loops -> Seq(Loops)])'
  BY <1>0, <1>1, <1>9, <1>10 DEF IInv, TypeOK, LoopsTyped, SplitTypeOK, Idle
<1>12. LinkedOnce' /\ StartedOnce' /\ DecidesOnSource'
  BY <1>1, <1>4, <1>9 DEF IInv, LinkedOnce, StartedOnce, DecidesOnSource, Idle
<1>13. Requested' = Requested
  BY <1>1 DEF Requested
<1>14. ASSUME NEW q \in Receivers PROVE Stands(q)' /\ AnsweredTruly(q)'
  <2>1. CASE ToNotify' = ToNotify
    BY <1>0, <1>1, <1>10, <1>13, <2>1, KeptStands
  <2>2. CASE ToNotify' = {} /\ astray'
    <3>1. /\ Untouched(q) => Untouched(q)'
          /\ Scheduled(q) => Scheduled(q)'
          /\ Executing(q) => Executing(q)'
          /\ Answered(q) => Answered(q)'
      BY <1>1, <1>10 DEF Kept, Untouched, Scheduled, Executing, Answered
    <3>2. Stands(q)'
      BY <1>1, <1>10, <2>2, <3>1 DEF IInv, Stands, Kept
    <3>3. AnsweredTruly(q)'
      BY <1>1, <1>10, <1>13 DEF IInv, AnsweredTruly, Kept
    <3> QED BY <3>2, <3>3
  <2> QED BY <1>9, <2>1, <2>2
<1> QED BY <1>1, <1>11, <1>12, <1>13, <1>14 DEF IInv

LEMMA RequestStopKeepsInvariant ==
    ASSUME IInv, NEW r \in Receivers, RequestStop(r)
    PROVE  IInv'
<1>1. /\ pc[r] \in {"start", "decide", "run"}
      /\ asked' = [asked EXCEPT ![r] = TRUE]
      /\ source' = (source \/ registered[r])
      /\ UNCHANGED <<single, values, linked, cursor, registered, starts>>
      /\ UNCHANGED <<pc, round, stale, astray>>
      /\ UNCHANGED <<loopVars, result, answers>>
  BY DEF RequestStop, request_stop, waitVars
<1>2. LoopsTyped' /\ \A q \in Receivers : Kept(q)
  BY <1>1, LoopsUnchanged
<1>3. source' \in BOOLEAN /\ asked' \in [Receivers -> BOOLEAN]
  BY <1>1 DEF IInv, TypeOK, SplitTypeOK
<1>4. TypeOK' /\ (tasks \in [Loops -> Seq(Loops)])'
  BY <1>1, <1>2, <1>3 DEF IInv, TypeOK, LoopsTyped, SplitTypeOK, Idle
<1>5. LinkedOnce' /\ StartedOnce'
  BY <1>1 DEF IInv, LinkedOnce, StartedOnce, Idle
<1>6. DecidesOnSource'
  BY <1>1 DEF IInv, TypeOK, SplitTypeOK, DecidesOnSource
<1>7. ToNotify' = ToNotify
  BY <1>1 DEF ToNotify
<1>8. Requested'
  BY <1>1 DEF IInv, TypeOK, SplitTypeOK, Requested
<1>9. ASSUME NEW q \in Receivers PROVE Stands(q)' /\ AnsweredTruly(q)'
  BY <1>1, <1>2, <1>7, <1>8, KeptStands
<1> QED BY <1>4, <1>5, <1>6, <1>8, <1>9 DEF IInv

\* What a round leaves behind is only the flag of the stop source: when all have
\* returned, nobody is to be notified.
LEMMA SplitAgainKeepsInvariant ==
    ASSUME IInv, SplitAgain
    PROVE  IInv'
<1>1. /\ round < Rounds /\ round' = round + 1
      /\ \A r \in Receivers : pc[r] = "returned"
      /\ single' = "none" /\ values' = "none" /\ linked' = <<>>
      /\ asked' = [r \in Receivers |-> FALSE] /\ starts' = 0
      /\ cursor' = Idle /\ stale' = source /\ astray' \in BOOLEAN
      /\ UNCHANGED <<cv, source, registered>>
      /\ tasks' = [l \in Loops |-> <<>>] /\ done' = [l \in Loops |-> FALSE]
      /\ runner' = [l \in Loops |-> "idle"] /\ task' = [l \in Loops |-> NoTask]
      /\ pc' = [r \in Receivers |-> "connect"]
      /\ result' = [r \in Receivers |-> "none"]
      /\ answers' = [r \in Receivers |-> 0]
  BY DEF SplitAgain, reset, Fresh, WaitStart, IInv, TypeOK
<1>2. source' => Requested'
  BY <1>1 DEF Requested
<1>3. LoopTypeOK' /\ (tasks \in [Loops -> Seq(Loops)])'
  <2>1. <<>> \in Seq(Loops)
    OBVIOUS
  <2> QED BY <1>1, <2>1 DEF IInv, TypeOK, LoopTypeOK, RunnerPhases
<1>4. SplitTypeOK'
  <2>1. <<>> \in Seq(Receivers)
    OBVIOUS
  <2>2. cursor' \in [at : Receivers \cup {Nobody}, phase : {"none", "complete", "next"}]
    BY <1>1 DEF Idle, At
  <2> QED BY <1>1, <2>1, <2>2 DEF IInv, TypeOK, SplitTypeOK
<1>5. TypeOK'
  <2>1. round' \in 1..Rounds
    BY <1>1 DEF IInv, TypeOK
  <2>2. stale' \in BOOLEAN /\ astray' \in BOOLEAN
    BY <1>1 DEF IInv, TypeOK, SplitTypeOK
  <2> QED BY <1>1, <1>3, <1>4, <2>1, <2>2 DEF TypeOK
<1>6. LinkedOnce' /\ StartedOnce' /\ DecidesOnSource'
  <2>1. DOMAIN linked' = {}
    BY <1>1
  <2> QED BY <1>1, <2>1 DEF LinkedOnce, StartedOnce, DecidesOnSource, Idle
<1>7. ASSUME NEW r \in Receivers PROVE Stands(r)' /\ AnsweredTruly(r)'
  BY <1>1 DEF Stands, Untouched, AnsweredTruly
<1> QED BY <1>2, <1>3, <1>5, <1>6, <1>7 DEF IInv

-----------------------------------------------------------------------------

LEMMA InitInvariant == Init => IInv
<1> SUFFICES ASSUME Init PROVE IInv
  OBVIOUS
<1> USE DEF Init, LoopInit, SplitInit, WaitStart, Fresh
<1>1. <<>> \in Seq(Loops) /\ DOMAIN <<>> = {}
  OBVIOUS
<1>2. TypeOK /\ tasks \in [Loops -> Seq(Loops)]
  <2>1. LoopTypeOK /\ tasks \in [Loops -> Seq(Loops)]
    BY <1>1 DEF LoopTypeOK, RunnerPhases
  <2>2. SplitTypeOK
    <3>1. Idle \in [at : Receivers \cup {Nobody}, phase : {"none", "complete", "next"}]
      BY DEF Idle, At
    <3>2. linked \in Seq(Receivers)
      OBVIOUS
    <3> QED BY <3>1, <3>2 DEF SplitTypeOK, SplitChannels
  <2>3. round \in 1..Rounds
    OBVIOUS
  <2>4. stale \in BOOLEAN /\ astray \in BOOLEAN
    OBVIOUS
  <2> QED BY <2>1, <2>2, <2>3, <2>4 DEF TypeOK, SplitChannels
<1>3. LinkedOnce /\ StartedOnce /\ DecidesOnSource
  BY <1>1 DEF LinkedOnce, StartedOnce, DecidesOnSource
<1>4. ASSUME NEW r \in Receivers PROVE Stands(r) /\ AnsweredTruly(r)
  BY DEF Stands, Untouched, AnsweredTruly
<1> QED BY <1>2, <1>3, <1>4 DEF IInv

LEMMA NextKeepsInvariant ==
    ASSUME IInv, Serialised, [Next]_vars
    PROVE  IInv'
<1>1. CASE \E r \in Receivers : Waiting(r) \/ RequestStop(r)
  <2> SUFFICES ASSUME NEW r \in Receivers, Waiting(r) \/ RequestStop(r) PROVE IInv'
    BY <1>1
  <2> QED BY ConnectKeepsInvariant, StartCompletesKeepsInvariant, RegisterKeepsInvariant,
             LinkKeepsInvariant, RunKeepsInvariant, ExecuteKeepsInvariant,
             ReturnKeepsInvariant, RequestStopKeepsInvariant DEF Waiting
<1>2. CASE Shared
  BY <1>2, SharedCompletesKeepsInvariant, NotifyKeepsInvariant, NextOpsKeepsInvariant
     DEF Shared
<1>3. CASE SplitAgain
  BY <1>3, SplitAgainKeepsInvariant
<1>4. CASE UNCHANGED vars
  <2>1. /\ UNCHANGED <<single, values, linked, cursor, source, registered, asked, starts>>
        /\ UNCHANGED <<pc, round, stale, astray>>
        /\ UNCHANGED <<loopVars, result, answers>>
    BY <1>4 DEF vars, splitVars, waitVars
  <2>2. LoopsTyped' /\ \A r \in Receivers : Kept(r)
    BY <2>1, LoopsUnchanged
  <2>3. TypeOK' /\ (tasks \in [Loops -> Seq(Loops)])'
    BY <2>1, <2>2 DEF IInv, TypeOK, LoopsTyped, SplitTypeOK, Idle
  <2>4. LinkedOnce' /\ StartedOnce' /\ DecidesOnSource'
    BY <2>1 DEF IInv, LinkedOnce, StartedOnce, DecidesOnSource, Idle
  <2>5. ToNotify' = ToNotify /\ Requested' = Requested
    BY <2>1 DEF ToNotify, Requested
  <2>6. ASSUME NEW r \in Receivers PROVE Stands(r)' /\ AnsweredTruly(r)'
    BY <2>1, <2>2, <2>5, KeptStands
  <2> QED BY <2>1, <2>3, <2>4, <2>5, <2>6 DEF IInv
<1> QED BY <1>1, <1>2, <1>3, <1>4 DEF Next

LEMMA InvariantHolds ==
    ASSUME Serialised
    PROVE  Spec => []IInv
<1>1. IInv /\ [Next]_vars => IInv'
  BY NextKeepsInvariant
<1> QED BY InitInvariant, <1>1, PTL DEF Spec

\* The loops, the synchronizers and the shared operation are in step: a loop has
\* a task exactly while it executes one, and what the shared operation sent is
\* there exactly when it has completed.  It takes start() to be serialised with
\* the completion of the shared operation.
THEOREM WaitsAreTyped ==
    ASSUME Serialised
    PROVE  Spec => []TypeOK
<1>1. IInv => TypeOK
  BY DEF IInv
<1> QED BY <1>1, InvariantHolds, PTL

\* The shared operation is started once, and every receiver is completed once,
\* with what it sent, or as stopped when somebody was requested to stop; no wait
\* returns before that.  It takes start() to be serialised with the completion
\* of the shared operation, and holds until notify() has looked at an operation
\* that is gone.
THEOREM EachIsAnsweredOnce ==
    ASSUME Serialised
    PROVE  Spec => []AnsweredOnce
<1>1. IInv => AnsweredOnce
  <2> SUFFICES ASSUME IInv, ~astray PROVE AnsweredOnce
    BY DEF AnsweredOnce
  <2>1. starts <= 1
    BY DEF IInv, StartedOnce
  <2>2. ASSUME NEW r \in Receivers PROVE answers[r] <= 1
    <3>1. pc[r] \in {"connect", "start", "decide", "run", "returned"}
      BY DEF IInv, TypeOK
    <3> QED BY <3>1 DEF IInv, Stands, Untouched, Scheduled, Executing, Answered
  <2>3. ASSUME NEW r \in Receivers, answers[r] = 1
        PROVE  \/ result[r] = values
               \/ result[r] = "stopped" /\ (stale \/ \E q \in Receivers : asked[q])
    BY <2>3 DEF IInv, AnsweredTruly, Requested
  <2>4. ASSUME NEW r \in Receivers, pc[r] = "returned"
        PROVE  answers[r] = 1 /\ tasks[r] = <<>> /\ task[r] = NoTask
    BY <2>4 DEF IInv, Stands, Answered, TypeOK, LoopTypeOK
  <2> QED BY <2>1, <2>2, <2>3, <2>4 DEF AnsweredOnce
<1> QED BY <1>1, InvariantHolds, PTL
=============================================================================
