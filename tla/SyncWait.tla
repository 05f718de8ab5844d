------------------------------- MODULE SyncWait -------------------------------
(***************************************************************************)
(* Several contexts wait for one split sender (sync_wait.hpp): each        *)
(* connects a receiver of its own, starts it, and blocks until it is       *)
(* completed.  A static wait blocks on a synchronizer.  A dynamic one has  *)
(* a run loop, on which what it waits for continues:                       *)
(* split_sender | continue_on(loop) | sync_wait_dynamic().                 *)
(*                                                                         *)
(* When a wait returns, its operation is gone, though notify() may have to *)
(* look at it once more: after that the program is astray.  The model goes *)
(* on as if the memory were intact, or empty, but nothing is claimed of it.*)
(***************************************************************************)
EXTENDS RunLoop, Split, FiniteSets

CONSTANTS
    Dynamic,       \* the receivers that use sync_wait_dynamic
    Rounds,        \* bound: how often the sender is split
    Serialised     \* does nothing but a stop come between the steps of start()

ASSUME LoopsAssumption == Loops = Receivers /\ Tasks = Receivers
ASSUME DynamicAssumption == Dynamic \subseteq Receivers
ASSUME NobodyAssumption == Nobody \notin Receivers /\ NoTask \notin Loops
ASSUME RoundsAssumption == Rounds \in Nat \ {0}
ASSUME SerialisedAssumption == Serialised \in BOOLEAN

VARIABLES
    pc,            \* per receiver: where its sync_wait stands
    result,        \* per receiver: what it was completed with; "value" is in
                   \* the optional that sync_wait returns
    answers,       \* per receiver: how often it was completed (history)
    round,         \* how often the sender was split
    stale,         \* reset() has left a stop request to this round (history)
    astray         \* notify() has looked at an operation that is gone (history)

waitVars == <<pc, result, answers, round, stale, astray>>
vars == <<loopVars, splitVars, waitVars>>

TypeOK ==
    /\ LoopTypeOK /\ SplitTypeOK
    /\ pc \in [Receivers -> {"connect", "start", "decide", "run", "returned"}]
    /\ result \in [Receivers -> SplitChannels \cup {"none"}]
    /\ answers \in [Receivers -> Nat] /\ round \in 1..Rounds
    /\ stale \in BOOLEAN /\ astray \in BOOLEAN

WaitStart ==
    [pc |-> [r \in Receivers |-> "connect"], result |-> [r \in Receivers |-> "none"],
     answers |-> [r \in Receivers |-> 0]]

Init ==
    /\ LoopInit /\ SplitInit
    /\ pc = WaitStart.pc /\ result = WaitStart.result
    /\ answers = WaitStart.answers
    /\ round = 1 /\ stale = FALSE /\ astray = FALSE

Goes(r, to) == pc' = [pc EXCEPT ![r] = to]

\* The receiver of sync_wait: it stores the values, and then ends the wait.
Complete(r, c) ==
    /\ result' = [result EXCEPT ![r] = c]
    /\ answers' = [answers EXCEPT ![r] = @ + 1]

\* The receiver that split completes: that of sync_wait, or for a value of a
\* dynamic wait that of continue_on, which schedules the rest on the loop.
Receive(r, c) ==
    IF r \in Dynamic /\ c = "value"
    THEN push_back(r, r) /\ UNCHANGED <<result, answers>>
    ELSE finish(r) /\ Complete(r, c)

-----------------------------------------------------------------------------
(* sync_wait: connect, start, run, return *)

Connect(r) ==
    /\ pc[r] = "connect"
    /\ connect
    /\ Goes(r, "start")
    /\ UNCHANGED <<loopVars, result, answers, round, stale, astray>>

\* Neither another start() nor notify() is under way, where they are serialised.
Undisturbed == Serialised => cursor = Idle /\ \A r \in Receivers : pc[r] # "decide"

\* notify() is not under way, where it and start() are serialised.
Unnotified == Serialised => cursor = Idle

StartLate(r) ==
    /\ pc[r] = "start"
    /\ Undisturbed
    /\ StartCompleted(r)
    /\ Receive(r, values)
    /\ Goes(r, "run")
    /\ UNCHANGED <<round, stale, astray>>

StartRegister(r) ==
    /\ pc[r] = "start"
    /\ Undisturbed
    /\ StartRegisters(r)
    /\ Goes(r, "decide")
    /\ UNCHANGED <<loopVars, result, answers, round, stale, astray>>

StartStop(r) ==
    /\ pc[r] = "decide"
    /\ Unnotified
    /\ StartStopped(r)
    /\ Receive(r, "stopped")
    /\ Goes(r, "run")
    /\ UNCHANGED <<round, stale, astray>>

StartLink(r) ==
    /\ pc[r] = "decide"
    /\ Unnotified
    /\ StartLinks(r)
    /\ Goes(r, "run")
    /\ UNCHANGED <<loopVars, result, answers, round, stale, astray>>

Run(r) ==
    /\ pc[r] = "run"
    /\ run(r) \/ Wait(r) \/ pop_front(r)
    /\ UNCHANGED <<splitVars, waitVars>>

\* execute() looks at the stop token of the receiver.
Execute(r) ==
    /\ runner[r] = "executing"
    /\ Complete(task[r], IF asked[task[r]] THEN "stopped" ELSE "value")
    /\ done' = [done EXCEPT ![r] = TRUE]
    /\ Executed(r)
    /\ UNCHANGED <<splitVars, pc, round, stale, astray>>

\* The operation and the loop are destroyed, wherever notify() is.
Return(r) ==
    /\ pc[r] = "run"
    /\ runner[r] = "ended"
    /\ destroy(r)
    /\ Goes(r, "returned")
    /\ UNCHANGED <<loopVars, single, values, linked, cursor, source, asked, starts,
                   result, answers, round, stale, astray>>

-----------------------------------------------------------------------------
(* The shared operation *)

\* A receiver between the two steps of start() is disturbed only by what its own
\* stop request, from before it registered or since, makes of the shared operation.
SharedCompletes ==
    /\ Serialised => \A r \in Receivers : pc[r] = "decide" => asked[r]
    /\ \E c \in SplitChannels : SingleCompletes(c)
    /\ UNCHANGED <<loopVars, waitVars>>

Notify(r) ==
    /\ NotifyCompletes(r)
    /\ Receive(r, values)
    /\ UNCHANGED <<pc, round, stale, astray>>

Gone == cursor.phase = "next" /\ pc[cursor.at] = "returned"

Next_ops ==
    /\ NotifyNext \/ (Gone /\ NotifyLost)
    /\ astray' = (astray \/ Gone)
    /\ UNCHANGED <<loopVars, pc, result, answers, round, stale>>

RequestStop(r) ==
    /\ pc[r] \in {"start", "decide", "run"}
    /\ request_stop(r)
    /\ UNCHANGED <<loopVars, waitVars>>

\* The function that splits and waits is called again.  If notify() has still to
\* look at an operation, that is gone.
SplitAgain ==
    /\ round < Rounds
    /\ \A r \in Receivers : pc[r] = "returned"
    /\ reset
    /\ cursor' = Idle
    /\ astray' = (astray \/ cursor # Idle)
    /\ stale' = source
    /\ tasks' = Fresh.tasks /\ done' = Fresh.done
    /\ runner' = Fresh.runner /\ task' = Fresh.task
    /\ pc' = WaitStart.pc /\ result' = WaitStart.result
    /\ answers' = WaitStart.answers
    /\ round' = round + 1
    /\ UNCHANGED cv

Waiting(r) ==
    \/ Connect(r)
    \/ StartLate(r) \/ StartRegister(r) \/ StartStop(r) \/ StartLink(r)
    \/ Run(r) \/ Execute(r) \/ Return(r)

Shared == SharedCompletes \/ Next_ops \/ \E r \in Receivers : Notify(r)

Next ==
    \/ \E r \in Receivers : Waiting(r) \/ RequestStop(r)
    \/ Shared
    \/ SplitAgain

Spec == Init /\ [][Next]_vars

\* A context that is not blocked goes on, and the shared operation, once
\* started, completes some day.
FairSpec == Spec /\ WF_vars(Shared) /\ \A r \in Receivers : WF_vars(Waiting(r))

-----------------------------------------------------------------------------
(* Properties *)

\* A receiver is completed once: with what the shared operation sent, or with
\* stopped when one of the receivers was requested to stop in this round, or
\* when reset() has left the request of an earlier one; and the shared operation
\* is started once, by whichever receiver comes first.  A wait does not return
\* before, and its loop is empty when it is destroyed.
AnsweredOnce ==
    astray \/
    /\ starts <= 1
    /\ \A r \in Receivers :
           /\ answers[r] <= 1
           /\ answers[r] = 1 =>
                  \/ result[r] = values
                  \/ result[r] = "stopped" /\ (stale \/ \E q \in Receivers : asked[q])
           /\ pc[r] = "returned" =>
                  answers[r] = 1 /\ tasks[r] = <<>> /\ task[r] = NoTask

\* No wait is left waiting: no notification is lost, and no receiver.
EveryoneReturns ==
    \A r \in Receivers : pc[r] = "start" ~> pc[r] = "returned" \/ astray

\* A split sender can be run again: nobody is stopped, in any round, unless the
\* shared operation stops or one of the receivers is requested to stop.
StoppedOnRequest ==
    \A r \in Receivers :
        result[r] = "stopped" => values = "stopped" \/ \E q \in Receivers : asked[q]

\* notify() goes through operations whose waits have not returned.
NotifiesTheLiving == cursor # Idle => pc[cursor.at] # "returned"
=============================================================================
