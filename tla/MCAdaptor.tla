----------------------------- MODULE MCAdaptor -----------------------------
(* The instances of Adaptor that TLC checks. *)
EXTENDS Adaptor, TLC

MCTypes == {"none", "variant", "a", "b"}

A == <<"value", "a">>
B == <<"value", "b">>
E == <<"error", "a">>

\* Children that send some of four completions, inside start() or not, with
\* and without arguments in their own storage.
Children(sends, owned) ==
    {s \in {Sender(c, y, o, w) : c \in (SUBSET sends) \ {{}}, y \in BOOLEAN,
                                 o \in BOOLEAN, w \in SUBSET owned} :
        (s.sync => s.opsync) /\ (\A ch \in s.owns : OnChannel(s.sends, ch) # {})}
Async(senders) == {s \in senders : ~s.opsync}

\* Types of the functions passed to then.
Swap == [t \in MCTypes |-> IF t = "a" THEN "b" ELSE "a"]

Plain(kind, first) ==
    [kind |-> kind, first |-> first, any |-> <<>>, tests |-> <<>>, handle |-> "value",
     complete |-> "value", f |-> Swap, tags |-> {},
     next |-> [c \in Completions |-> first], pred |-> "never", n |-> 0,
     loopfn |-> FALSE, expiry |-> "unsafe_expiry", stoppable |-> FALSE,
     destroys |-> TRUE]

AnyChild == Children({A, B, E, Stopped}, {"value"})

Thens ==
    {[Plain("then", s) EXCEPT !.handle = h[1], !.complete = h[2]] :
        s \in AnyChild,
        h \in {<<"value", "value">>, <<"error", "value">>, <<"stopped", "value">>,
               <<"value", "error">>, <<"error", "error">>}}

IntoVariants == {Plain("into_variant", s) : s \in AnyChild}

Variants ==
    {[Plain("variant", s) EXCEPT !.any = <<s, just("a"), thread_schedule>>, !.tests = t] :
        s \in AnyChild,
        t \in {<<TRUE, FALSE, TRUE>>, <<FALSE, TRUE, TRUE>>, <<FALSE, FALSE, FALSE>>}}

Dependent == {just("b"), just_error("a"), thread_schedule, queue_schedule("b", TRUE)}

Lets ==
    {[Plain("let", s) EXCEPT !.tags = {tag}, !.stoppable = TRUE,
                             !.next = [c \in Completions |-> IF c = A THEN d ELSE just("b")]] :
        s \in AnyChild, tag \in Channels, d \in Dependent}

Sequences ==
    {[Plain("sequence", s) EXCEPT !.tags = {"value"}, !.next = [c \in Completions |-> d]] :
        s \in AnyChild, d \in Dependent}

Incites ==
    {[Plain("incite_on", s) EXCEPT !.tags = {"value"}, !.stoppable = TRUE,
                                   !.next = [c \in Completions |-> d]] :
        s \in AnyChild, d \in Async(Dependent)}

Preds == {<<"never", 0>>, <<"until", 0>>, <<"n", 0>>, <<"n", 2>>}

\* The receivers and children that the loops are safe for: nothing that is
\* passed through refers to the child, and a synchronous loop, one with a
\* loop function and a periodic one outlive the completion of the receiver.
Looping(kind, children) ==
    {[Plain(kind, s) EXCEPT !.pred = p[1], !.n = p[2], !.stoppable = st,
                            !.loopfn = lf, !.destroys = ~s.opsync /\ ~lf /\ kind # "periodic"] :
        s \in children, p \in Preds, st \in BOOLEAN,
        lf \in IF kind = "repeat" THEN BOOLEAN ELSE {FALSE}}

Repeats == {o \in Looping("repeat", Children({A, E, Stopped}, {})) :
                o.loopfn => ~o.first.opsync}
Retries == Looping("retry", Children({A, E, Stopped}, {}))
Periodics ==
    {[o EXCEPT !.expiry = x] :
        o \in Looping("periodic", Async(Children({A, Stopped}, {})) ), x \in Expiries}

SafeOperations ==
    Thens \cup IntoVariants \cup Variants \cup Lets \cup Sequences \cup Incites
    \cup Repeats \cup Retries \cup Periodics

\* A periodic operation whose child never sends stopped.
PeriodicValues ==
    {o \in Periodics : o.first.sends = {A} /\ o.stoppable /\ o.pred = "never"}

\* just sends what is in its operation state, and repeat_until passes it on.
RepeatedJust ==
    {[Plain("repeat", just("a")) EXCEPT !.pred = "until", !.destroys = FALSE]}
=============================================================================
