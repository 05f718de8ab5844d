------------------------------- MODULE Adaptor -------------------------------
(***************************************************************************)
(* The run time of one sender adaptor: then and its relatives,             *)
(* into_variant, variant senders, let_*, sequence, incite_on, repeat,      *)
(* retry and periodic.                                                     *)
(*                                                                         *)
(* The adapted sender is known by its type only (Senders): its operation,  *)
(* the child, completes once, with a completion its signatures list, and   *)
(* inside start() if it says so.  The child, the receiver and the user's   *)
(* functions run on some contexts, each with its stack; a frame stands for  *)
(* a function that is running and what it does next.                       *)
(*                                                                         *)
(* Storage: what a child sends may refer to storage in its own operation   *)
(* state, and the receiver may destroy the whole operation when it is      *)
(* completed.  alive and the frames' args record whether what a frame is   *)
(* about to use still exists.                                              *)
(***************************************************************************)
EXTENDS Senders, Integers, Sequences, SequencesExt

CONSTANTS
    Operations,    \* the operations to consider
    Contexts,      \* the contexts code runs on: "main" starts the operation
    Period,        \* the Duration of a periodic operation
    MaxLate,       \* bound: how late time lets a periodic operation be
    MaxDepth       \* bound: the frames on which a child that is not
                   \* synchronous may complete without unwinding them

ASSUME ContextsAssumption == "main" \in Contexts
ASSUME PeriodAssumption == Period \in Nat \ {0}
ASSUME BoundsAssumption == MaxLate \in Nat /\ MaxDepth \in Nat

Maps == {"then", "into_variant", "variant"}
Chains == {"let", "sequence", "incite_on"}
Loops == {"repeat", "retry", "periodic"}
Expiries == {"unsafe_expiry", "safe_immediate_expiry", "safe_quantized_expiry"}

\* first: the adapted sender.  any: a variant sender's alternatives; tests:
\* the outcomes of the predicates of its match options.  handle, complete, f: then.  tags, next: what a
\* chain handles, and the dependent sender for each completion.  pred: when a
\* loop ends; n: the argument of repeat_n and periodic_n.  stoppable: the
\* receiver has a stop token.  destroys: it destroys the operation when
\* completed.
Descriptions ==
    [kind : Maps \cup Chains \cup Loops,
     first : SenderTypes, any : Seq(SenderTypes), tests : Seq(BOOLEAN),
     handle : Channels, complete : {"value", "error"}, f : [Types -> Types],
     tags : SUBSET Channels, next : [Completions -> SenderTypes],
     pred : {"never", "until", "n"}, n : Nat, loopfn : BOOLEAN,
     expiry : Expiries, stoppable : BOOLEAN, destroys : BOOLEAN]

\* static_assert: repeat's loop function, incite_on's and periodic's senders.
\* The function of a sequence is given nothing.  Only loops have predicates that
\* count.
ASSUME OperationsAssumption ==
    \A o \in Operations :
        /\ o \in Descriptions
        /\ o.loopfn => o.kind = "repeat" /\ ~o.first.opsync
        /\ o.kind = "periodic" => ~o.first.opsync
        /\ o.kind = "incite_on" => \A c \in Completions : ~o.next[c].opsync
        /\ o.kind = "variant" => o.any # <<>> /\ Len(o.tests) = Len(o.any)
        /\ o.kind \in {"sequence", "incite_on"} =>
               o.tags = {"value"} /\ \A c \in Completions : o.next[c] = o.next[Stopped]
        /\ o.pred = "n" => o.kind \in Loops

VARIABLES
    op,            \* the operation
    slot,          \* the child operation in its state
    stack,         \* per context: the functions that are running
    stop,          \* the receiver's stop token is requested to stop
    sent,          \* the completions sent to the receiver (history)
    alive,         \* the operation state has not been destroyed
    count,         \* the counter in the predicate of repeat_n and periodic_n
    runs,          \* the times the child was started, for those (history)
    late           \* now - ops->tp of periodic

vars == <<op, slot, stack, stop, sent, alive, count, runs, late>>

\* of: the sender it was connected from.  ours: its receiver is the
\* adaptor's, not the one of the whole operation.  told: it was started with
\* the stop token requested.
Child(s, ours, phase, told) ==
    [of |-> s, ours |-> ours, phase |-> phase, told |-> told]
Empty == Child(just_stopped, TRUE, "none", FALSE)
Has(phase) == slot.phase = phase

\* "start": start().  "loop": the while loop of a synchronous loop.
\* "begin": begin_loop(), restart().  "child": the child's start(), which may
\* complete; "ret": it has.  "handle": the adaptor's receiver.  "pass":
\* passthrough().  "send": the receiver.  "clear": the end of periodic's
\* passthrough().  "loopfn", "incite": about to call the loop function, the
\* inciting function.  "user": inside it.
Labels == {"start", "loop", "begin", "child", "ret", "handle", "pass", "send",
           "clear", "loopfn", "incite", "user"}

\* args: "free", or "owned" by the child's operation state, or "dead".
Frame(at, c, args) == [at |-> at, with |-> c, args |-> args]
Bare(at) == Frame(at, Stopped, "free")
At(ctx, label) == stack[ctx] # <<>> /\ Last(stack[ctx]).at = label
Top(ctx) == Last(stack[ctx])

\* The top frame makes way for others.
Instead(ctx, frames) == [stack EXCEPT ![ctx] = Front(@) \o frames]
Returned(ctx) == Instead(ctx, <<>>)

\* The child is destroyed: what refers to its storage is dead.
Dangling(stk) ==
    [ctx \in Contexts |->
        [i \in DOMAIN stk[ctx] |->
            IF stk[ctx][i].args = "owned" THEN [stk[ctx][i] EXCEPT !.args = "dead"]
                                          ELSE stk[ctx][i]]]

\* The child completes: no start() completes it any more.
Completed(stk) ==
    [ctx \in Contexts |->
        [i \in DOMAIN stk[ctx] |->
            IF stk[ctx][i].at = "child" THEN Bare("ret") ELSE stk[ctx][i]]]

TypeOK ==
    /\ slot \in [of : SenderTypes, ours : BOOLEAN, told : BOOLEAN,
                 phase : {"none", "ready", "started", "done"}]
    /\ \A ctx \in Contexts : stack[ctx] \in
           Seq([at : Labels, with : Completions, args : {"free", "owned", "dead"}])
    /\ stop \in BOOLEAN /\ alive \in BOOLEAN
    /\ sent \in Seq(Completions)
    /\ count \in Nat /\ runs \in Nat /\ late \in Int

IsLoop == op.kind \in Loops
SyncLoop == op.kind \in {"repeat", "retry"} /\ op.first.opsync

\* Chains and maps connect the child in their constructor; the child of a
\* variant sender is connected to the receiver itself.
Init ==
    /\ op \in Operations
    /\ slot = IF op.kind \in Loops THEN Empty
              ELSE IF op.kind = "variant"
              THEN Child(op.any[first_matching_index(op.tests)], FALSE, "ready", FALSE)
              ELSE Child(op.first, TRUE, "ready", FALSE)
    /\ stack = [ctx \in Contexts |-> IF ctx = "main" THEN <<Bare("start")>> ELSE <<>>]
    /\ stop = FALSE
    /\ sent = <<>>
    /\ alive = TRUE
    /\ count = op.n
    /\ runs = 0
    /\ late = 0

-----------------------------------------------------------------------------
(* Starting *)

\* The child in the state is started.
StartChild(child) ==
    /\ slot' = [child EXCEPT !.phase = "started", !.told = stop]
    /\ runs' = IF op.pred = "n" THEN runs + 1 ELSE runs

start ==
    /\ ~IsLoop
    /\ At("main", "start")
    /\ StartChild(slot)
    /\ stack' = Instead("main", <<Bare("child")>>)
    /\ UNCHANGED <<op, stop, sent, alive, count, late>>

\* setup() of repeat and retry: a new operation replaces the last.
Setup == slot' = Child(op.first, TRUE, "ready", FALSE)

LoopStart ==
    /\ op.kind \in {"repeat", "retry"}
    /\ At("main", "start")
    /\ Setup
    /\ stack' = Instead("main", <<Bare(IF SyncLoop THEN "loop" ELSE "begin")>>)
    /\ UNCHANGED <<op, stop, sent, alive, count, runs, late>>

\* The first expiration is one period from now.
PeriodicStart ==
    /\ op.kind = "periodic"
    /\ At("main", "start")
    /\ StartChild(Child(op.first, TRUE, "ready", FALSE))
    /\ late' = -Period
    /\ stack' = Instead("main", <<Bare("child")>>)
    /\ UNCHANGED <<op, stop, sent, alive, count>>

\* while (state.has_value()) { begin_loop(); }
Loop ==
    /\ At("main", "loop")
    /\ stack' = IF Has("none") THEN Returned("main")
                ELSE Instead("main", <<Bare("loop"), Bare("begin")>>)
    /\ UNCHANGED <<op, slot, stop, sent, alive, count, runs, late>>

\* Faulty: the token is never checked.
NeverStopped == FALSE

\* Only a child that never sends stopped has the token checked for it.
StoppedBeforeChild == ~sends_stopped(op.first) /\ stop

\* A loop that is stopped does not call the loop function.
BeginStopped(ctx) ==
    /\ At(ctx, "begin")
    /\ StoppedBeforeChild
    /\ LET below == Returned(ctx)[ctx]
           rest == IF below # <<>> /\ Last(below).at = "loopfn" THEN Front(below)
                                                                ELSE below
       IN  stack' = [stack EXCEPT ![ctx] = Append(rest, Bare("pass"))]
    /\ UNCHANGED <<op, slot, stop, sent, alive, count, runs, late>>

Begin(ctx) ==
    /\ op.kind \in {"repeat", "retry"}
    /\ At(ctx, "begin")
    /\ ~StoppedBeforeChild
    /\ StartChild(slot)
    /\ stack' = Instead(ctx, <<Bare("child")>>)
    /\ UNCHANGED <<op, stop, sent, alive, count, late>>

-----------------------------------------------------------------------------
(* periodic's expirations, as how late they are *)

unsafe_nth_expiration(l) == l - Period

safe_immediate_nth_expiration(l) == IF l < Period THEN l - Period ELSE 0

\* Faulty: the tick of the present is skipped.
QuantizedPastNow(l) ==
    LET next == l - Period
    IN  IF next > 0 THEN next - Period * ((next \div Period) + 1) ELSE next

safe_quantized_nth_expiration(l) ==
    LET next == l - Period
        num_ticks == ((next - 1) \div Period) + 1
    IN  IF next > 0 THEN next - Period * num_ticks ELSE next

compute_expiration(l) ==
    CASE op.expiry = "unsafe_expiry" -> unsafe_nth_expiration(l)
      [] op.expiry = "safe_immediate_expiry" -> safe_immediate_nth_expiration(l)
      [] op.expiry = "safe_quantized_expiry" -> safe_quantized_nth_expiration(l)

\* restart(): the child replaces the last one only here.  The child is a time
\* scheduler's and asks for its expiration when it is started.
Restart(ctx) ==
    /\ op.kind = "periodic"
    /\ At(ctx, "begin")
    /\ ~StoppedBeforeChild
    /\ StartChild(Child(op.first, TRUE, "ready", FALSE))
    /\ late' = compute_expiration(late)
    /\ stack' = Dangling(Instead(ctx, <<Bare("child")>>))
    /\ UNCHANGED <<op, stop, sent, alive, count>>

\* Time passes while a periodic operation waits or is busy.
Tick ==
    /\ op.kind = "periodic"
    /\ ~At("main", "start")
    /\ late < MaxLate
    /\ late' = late + 1
    /\ UNCHANGED <<op, slot, stack, stop, sent, alive, count, runs>>

-----------------------------------------------------------------------------
(* The child *)

\* What the child may send.  An asynchronous child that sends stopped checks
\* the token when it is started; a periodic one waits for its expiration.
Offers(c) ==
    /\ Has("started")
    /\ c \in slot.of.sends
    /\ slot.told /\ sends_stopped(slot.of) /\ ~slot.of.opsync => c = Stopped
    /\ op.kind = "periodic" /\ c # Stopped => late >= 0

\* The receiver the child was connected to is called on ctx.
Answer(ctx, c) ==
    LET args == IF c[1] \in slot.of.owns THEN "owned" ELSE "free"
        called == Frame(IF slot.ours THEN "handle" ELSE "send", c, args)
    IN  /\ slot' = [slot EXCEPT !.phase = "done"]
        /\ stack' = [Completed(stack) EXCEPT ![ctx] = Append(@, called)]
        /\ UNCHANGED <<op, stop, sent, alive, count, runs, late>>

CompleteInStart(ctx, c) ==
    /\ At(ctx, "child")
    /\ Offers(c)
    /\ slot.of.opsync \/ slot.told \/ Len(stack[ctx]) <= MaxDepth
    /\ Answer(ctx, c)

\* From a context that does nothing else, or because the user's function
\* makes it happen.
CompleteLater(ctx, c) ==
    /\ stack[ctx] = <<>> \/ (At(ctx, "user") /\ Len(stack[ctx]) <= MaxDepth)
    /\ Offers(c)
    /\ ~slot.of.opsync
    /\ Answer(ctx, c)

ChildReturns(ctx) ==
    /\ At(ctx, "ret") \/ (At(ctx, "child") /\ ~slot.of.opsync)
    /\ stack' = Returned(ctx)
    /\ UNCHANGED <<op, slot, stop, sent, alive, count, runs, late>>

-----------------------------------------------------------------------------
(* The receivers of the adaptors *)

Handles(channel) ==
    CASE op.kind = "then" -> channel = op.handle
      [] op.kind = "into_variant" -> channel = "value"
      [] op.kind \in Chains -> channel \in op.tags
      [] op.kind = "retry" -> channel = "error"
      [] op.kind \in {"repeat", "periodic"} -> channel = "value"

\* A handler forwards what it does not handle.
Forward(ctx) ==
    /\ ~IsLoop
    /\ At(ctx, "handle")
    /\ ~Handles(Top(ctx).with[1])
    /\ stack' = Instead(ctx, <<Frame("send", Top(ctx).with, Top(ctx).args)>>)
    /\ UNCHANGED <<op, slot, stop, sent, alive, count, runs, late>>

\* then, into_variant: the receiver gets what the functions return.
Map(ctx) ==
    /\ op.kind \in Maps
    /\ At(ctx, "handle")
    /\ Handles(Top(ctx).with[1])
    /\ LET c == IF op.kind = "then" THEN <<op.complete, op.f[Top(ctx).with[2]]>>
                                    ELSE <<"value", "variant">>
       IN  stack' = Instead(ctx, <<Frame("send", c, "free")>>)
    /\ UNCHANGED <<op, slot, stop, sent, alive, count, runs, late>>

\* Faulty: the function is still where the first operation has it.
InciteByReference(ctx) ==
    IF op.kind = "incite_on"
    THEN <<Frame("incite", Top(ctx).with, Top(ctx).args)>> ELSE <<>>

\* What is left to do once the dependent operation is started: incite_on
\* calls the function it was sent, of which it has a copy.
Incite(ctx) ==
    IF op.kind = "incite_on" THEN <<Frame("incite", Top(ctx).with, "free")>>
                             ELSE <<>>

\* complete_first(): the dependent operation replaces the child.  let copies
\* what it was sent into its results first.
CompleteFirst(ctx) ==
    /\ op.kind \in Chains
    /\ At(ctx, "handle")
    /\ Handles(Top(ctx).with[1])
    /\ StartChild(Child(op.next[Top(ctx).with], FALSE, "ready", FALSE))
    /\ stack' = Dangling(Instead(ctx, Incite(ctx) \o <<Bare("child")>>))
    /\ UNCHANGED <<op, stop, sent, alive, count, late>>

\* Faulty: one iteration too few.
PredicateShort == CASE op.pred = "never" -> {FALSE}
                    [] op.pred = "until" -> BOOLEAN
                    [] op.pred = "n" -> {count <= 1}

\* The predicates of repeat, repeat_until and repeat_n: the outcomes.
Predicate == CASE op.pred = "never" -> {FALSE}
               [] op.pred = "until" -> BOOLEAN
               [] op.pred = "n" -> {count = 0}

\* Faulty: the counter is taken below zero.
DecrementBelow == count' = IF op.pred = "n" THEN count - 1 ELSE count

\* n-- == 0.  (Below zero the counter wraps and is not read again.)
Decrement == count' = IF op.pred = "n" /\ count > 0 THEN count - 1 ELSE count

\* The loops' receivers: what does not go round the loop is passed through.
EndLoop(ctx) ==
    /\ IsLoop
    /\ At(ctx, "handle")
    /\ IF Handles(Top(ctx).with[1]) THEN TRUE \in Predicate /\ Decrement
                                    ELSE UNCHANGED count
    /\ stack' = Instead(ctx, <<[Top(ctx) EXCEPT !.at = "pass"]>>)
    /\ UNCHANGED <<op, slot, stop, sent, alive, runs, late>>

\* Faulty: a synchronous loop goes round on the stack.
AfterSetupNested(ctx) == <<Bare("begin")>>

\* What runs after setup(): nothing in a synchronous loop, whose while loop
\* sees the new operation.  The loop function is called when begin_loop()
\* returns.
AfterSetup(ctx) ==
    IF SyncLoop THEN <<>>
    ELSE (IF op.loopfn THEN <<[Top(ctx) EXCEPT !.at = "loopfn"]>> ELSE <<>>)
         \o <<Bare("begin")>>

Again(ctx) ==
    /\ op.kind \in {"repeat", "retry"}
    /\ At(ctx, "handle")
    /\ Handles(Top(ctx).with[1])
    /\ FALSE \in Predicate
    /\ Decrement
    /\ Setup
    /\ stack' = Dangling(Instead(ctx, AfterSetup(ctx)))
    /\ UNCHANGED <<op, stop, sent, alive, runs, late>>

PeriodicAgain(ctx) ==
    /\ op.kind = "periodic"
    /\ At(ctx, "handle")
    /\ Handles(Top(ctx).with[1])
    /\ FALSE \in Predicate
    /\ Decrement
    /\ stack' = Instead(ctx, <<Bare("begin")>>)
    /\ UNCHANGED <<op, slot, stop, sent, alive, runs, late>>

\* Faulty: the state keeps the operation that has completed.
PassThroughFull(ctx) ==
    /\ op.kind \in {"repeat", "retry"}
    /\ At(ctx, "pass")
    /\ stack' = Instead(ctx, <<[Top(ctx) EXCEPT !.at = "send"]>>)
    /\ UNCHANGED <<op, slot, stop, sent, alive, count, runs, late>>

\* passthrough() of repeat and retry empties the state, then completes the
\* receiver.
PassThrough(ctx) ==
    /\ op.kind \in {"repeat", "retry"}
    /\ At(ctx, "pass")
    /\ slot' = Empty
    /\ stack' = Dangling(Instead(ctx, <<[Top(ctx) EXCEPT !.at = "send"]>>))
    /\ UNCHANGED <<op, stop, sent, alive, count, runs, late>>

\* periodic empties it afterwards.
PeriodicPassThrough(ctx) ==
    /\ op.kind = "periodic"
    /\ At(ctx, "pass")
    /\ stack' = Instead(ctx, <<Bare("clear"), [Top(ctx) EXCEPT !.at = "send"]>>)
    /\ UNCHANGED <<op, slot, stop, sent, alive, count, runs, late>>

PeriodicClear(ctx) ==
    /\ At(ctx, "clear")
    /\ slot' = Empty
    /\ stack' = Dangling(Returned(ctx))
    /\ UNCHANGED <<op, stop, sent, alive, count, runs, late>>

-----------------------------------------------------------------------------
(* The user's code *)

\* The receiver is completed, and may destroy the operation.
Send(ctx) ==
    /\ At(ctx, "send")
    /\ sent' = Append(sent, Top(ctx).with)
    /\ alive' = (alive /\ ~op.destroys)
    /\ slot' = IF op.destroys THEN Empty ELSE slot
    /\ stack' = IF op.destroys THEN Dangling(Returned(ctx)) ELSE Returned(ctx)
    /\ UNCHANGED <<op, stop, count, runs, late>>

\* The loop function and the inciting function may complete the child that
\* was just started (CompleteLater).
CallUser(ctx) ==
    /\ At(ctx, "loopfn") \/ At(ctx, "incite")
    /\ stack' = Instead(ctx, <<Bare("user")>>)
    /\ UNCHANGED <<op, slot, stop, sent, alive, count, runs, late>>

UserReturns(ctx) ==
    /\ At(ctx, "user")
    /\ stack' = Returned(ctx)
    /\ UNCHANGED <<op, slot, stop, sent, alive, count, runs, late>>

RequestStop ==
    /\ op.stoppable /\ ~stop
    /\ stop' = TRUE
    /\ UNCHANGED <<op, slot, stack, sent, alive, count, runs, late>>

Handle(ctx) ==
    \/ Forward(ctx) \/ Map(ctx) \/ CompleteFirst(ctx)
    \/ EndLoop(ctx) \/ Again(ctx) \/ PeriodicAgain(ctx)
    \/ PassThrough(ctx) \/ PeriodicPassThrough(ctx) \/ PeriodicClear(ctx)

Step(ctx) ==
    \/ BeginStopped(ctx) \/ Begin(ctx) \/ Restart(ctx)
    \/ \E c \in Completions : CompleteInStart(ctx, c)
    \/ ChildReturns(ctx)
    \/ Handle(ctx)
    \/ Send(ctx) \/ CallUser(ctx) \/ UserReturns(ctx)

Starting == start \/ LoopStart \/ PeriodicStart \/ Loop

Later(ctx) == \E c \in Completions : CompleteLater(ctx, c)

Next ==
    \/ Starting
    \/ \E ctx \in Contexts : Step(ctx) \/ Later(ctx)
    \/ RequestStop
    \/ Tick

Spec == Init /\ [][Next]_vars

\* Code that has begun to run goes on, time passes, and a child that was
\* started completes some day.
FairSpec ==
    /\ Spec
    /\ WF_vars(Starting \/ Step("main"))
    /\ \A ctx \in Contexts \ {"main"} : WF_vars(Step(ctx))
    /\ \A ctx \in Contexts : WF_vars(Later(ctx))
    /\ WF_vars(Tick)

-----------------------------------------------------------------------------
(* Properties *)

\* What the type of the whole sender says.
Declared ==
    CASE op.kind = "then" -> then(op.first, op.handle, op.complete, op.f)
      [] op.kind = "into_variant" -> into_variant(op.first)
      [] op.kind = "variant" -> variant_sender(Range(op.any))
      [] op.kind = "let" -> let(op.first, op.tags, op.next)
      [] op.kind = "sequence" -> sequence(op.first, op.next[Stopped])
      [] op.kind = "incite_on" -> incite_on(op.first, op.next[Stopped])
      [] op.kind = "repeat" -> repeat(op.first, op.pred = "never", op.stoppable)
      [] op.kind = "retry" -> retry(op.first, op.pred = "never", op.stoppable)
      [] op.kind = "periodic" -> periodic(op.first, op.pred = "never")

\* An operation sends only what the signatures of its sender list.
SendsWhatIsListed == \A i \in DOMAIN sent : sent[i] \in Declared.sends

\* What periodic sends though its signatures do not list it: restart() answers a
\* stop request on behalf of a child that never sends stopped.
Undeclared ==
    IF op.kind = "periodic" /\ stop /\ ~sends_stopped(op.first) THEN {Stopped} ELSE {}

\* But for that, the operation keeps what its type says, given that its child
\* does: it sends only what its signatures list, refers to storage of the
\* operation only where its type does, and if it claims to complete
\* synchronously, it has completed when start() returns; a sender makes that
\* claim only if its operation does.  The signatures and the claims are computed
\* by other code than the one that completes.
KeepsContract ==
    /\ \A i \in DOMAIN sent : sent[i] \in Declared.sends \cup Undeclared
    /\ \A ctx \in Contexts :
           At(ctx, "send") /\ Top(ctx).args # "free" =>
               Top(ctx).with[1] \in Declared.owns
    /\ Declared.sync => Declared.opsync
    /\ Declared.opsync /\ stack["main"] = <<>> => sent # <<>>

\* The receiver is completed once, and then no child is in the state that is
\* running, or that a loop would start.
CompletesLast ==
    /\ Len(sent) <= 1
    /\ sent # <<>> => slot.phase \in {"done", "none"}

UsesOperation == {"start", "loop", "begin", "handle", "pass", "send", "loopfn",
                  "clear"}
UsesArguments == {"handle", "pass", "send", "loopfn", "incite"}

\* No function goes on to use the operation once the receiver has destroyed
\* it, nor what it was sent once the child it refers to is destroyed.
UsesTheLiving ==
    \A ctx \in Contexts : stack[ctx] # <<>> =>
        /\ Top(ctx).at \in UsesOperation => alive
        /\ Top(ctx).at \in UsesArguments => Top(ctx).args # "dead"

\* A loop given n runs its child once and n times again, and no more often,
\* unless it ends before on another channel.
RepeatsExactly ==
    op.pred = "n" =>
        /\ runs <= op.n + 1
        /\ \A i \in DOMAIN sent : Handles(sent[i][1]) => runs = op.n + 1

\* A loop over a child that completes synchronously goes round on the while
\* loop, never on the stack.
SyncLoopsDontNest == SyncLoop => \A ctx \in Contexts : Len(stack[ctx]) <= 3

\* The expirations of a periodic operation stay on the grid of its period
\* unless the immediate policy gives the grid up for a late one; a quantized
\* one is the first tick that is not over.
OnTheGrid ==
    LET step == late - late'
    IN  CASE op.expiry = "unsafe_expiry" -> step = Period
          [] op.expiry = "safe_immediate_expiry" ->
               step = Period \/ (late > Period /\ late' = 0)
          [] op.expiry = "safe_quantized_expiry" ->
               /\ step % Period = 0 /\ step > 0 /\ late' <= 0
               /\ step > Period => late' + Period > 0
ExpiresOnTheGrid == [][(\E ctx \in Contexts : Restart(ctx)) => OnTheGrid]_vars

\* What only a stop request ends is not required to end without one, and a
\* synchronous child that sends stopped is not asked by anyone whether it
\* should.
MustEnd ==
    \/ ~IsLoop \/ op.pred = "n"
    \/ stop /\ ~(sends_stopped(op.first) /\ op.first.opsync)

\* An operation completes, and a loop completes once it is stopped.
EndsWhenItMust == MustEnd ~> sent # <<>>
=============================================================================
