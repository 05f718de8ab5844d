------------------------------- MODULE Senders -------------------------------
(***************************************************************************)
(* What the type of a sender says about it: its completion signatures      *)
(* (type_traits.hpp), whether the sender and the operation state it        *)
(* connects to claim to complete synchronously                             *)
(* (completes_synchronously.hpp), and how every factory and adaptor        *)
(* computes these from the senders it is given.  Adaptor checks them       *)
(* against what the operations do.                                         *)
(*                                                                         *)
(* A completion is a channel and the type of what it carries; the list of  *)
(* types of one completion is one type here.                               *)
(***************************************************************************)
EXTENDS Naturals, Sequences, FiniteSets

CONSTANT Types

\* "none": nothing is carried.  "variant": std::variant over tuples.
ASSUME TypesAssumption == {"none", "variant"} \subseteq Types

Channels == {"value", "error", "stopped"}
Stopped == <<"stopped", "none">>
Completions == ({"value", "error"} \X Types) \cup {Stopped}

\* sends: completion_signatures_of_t.  sync: synchronous<Sndr>.  opsync:
\* synchronous<connect_result_t<Sndr, Rcvr>>.  owns: the channels on which
\* what is sent refers to storage inside the operation state.
SenderTypes == [sends : SUBSET Completions, sync : BOOLEAN, opsync : BOOLEAN,
                owns : SUBSET Channels]

Sender(sends, sync, opsync, owns) ==
    [sends |-> sends, sync |-> sync, opsync |-> opsync, owns |-> owns]

-----------------------------------------------------------------------------
(* type_traits.hpp *)

OnChannel(sends, channel) == {c \in sends : c[1] = channel}
value_signatures_of(s) == OnChannel(s.sends, "value")
error_signatures_of(s) == OnChannel(s.sends, "error")
stopped_signatures_of(s) == OnChannel(s.sends, "stopped")
\* The concept stoppable_sender, too: a sender that sends stopped is taken to
\* answer a stop request.
sends_stopped(s) == stopped_signatures_of(s) # {}

default_set_value == [t \in Types |-> {<<"value", t>>}]
default_set_error == [t \in Types |-> {<<"error", t>>}]
discard == [t \in Types |-> {}]

\* transform_completion_signatures_of: value and error give the signatures
\* that replace one carrying a type, stopped those that replace set_stopped.
Transform(sends, added, value, error, stopped) ==
    added \cup (UNION {value[c[2]] : c \in OnChannel(sends, "value")})
          \cup (UNION {error[c[2]] : c \in OnChannel(sends, "error")})
          \cup (IF OnChannel(sends, "stopped") = {} THEN {} ELSE stopped)

-----------------------------------------------------------------------------
(* Factories and schedulers *)

just(t) == Sender({<<"value", t>>}, TRUE, TRUE, {"value"})
just_error(t) == Sender({<<"error", t>>}, TRUE, TRUE, {"error"})
just_stopped == Sender({Stopped}, TRUE, TRUE, {})

\* Functions of the operation state are called: what they return is sent.
just_result_of(tag, t) == Sender({<<tag, t>>}, TRUE, TRUE, {})

read_env(t) == Sender({<<"value", t>>}, TRUE, TRUE, {})

inline_schedule == Sender({<<"value", "none">>}, TRUE, TRUE, {})
thread_schedule == Sender({<<"value", "none">>}, FALSE, FALSE, {})

\* The senders of the time, trigger and fixed priority schedulers.
queue_schedule(t, stoppable) ==
    Sender({<<"value", t>>} \cup (IF stoppable THEN {Stopped} ELSE {}),
           FALSE, FALSE, {})

-----------------------------------------------------------------------------
(* Adaptors *)

\* then: handle = complete = "value".  upon_error, upon_stopped: complete is
\* "value".  then_error, transform_error: complete is "error".  f: the type
\* the functions return for what they are given.
ThenSignatures(s, handle, complete, f) ==
    LET applied == [t \in Types |-> {<<complete, f[t]>>}]
    IN  CASE handle = "value" ->
               Transform(s.sends, {}, applied, default_set_error, {Stopped})
          [] handle = "error" ->
               Transform(s.sends, {}, default_set_value, applied, {Stopped})
          [] handle = "stopped" ->
               IF sends_stopped(s)
               THEN Transform(s.sends, applied["none"], default_set_value,
                              default_set_error, {})
               ELSE s.sends

\* The sender forwards the environment of the one it adapts; what connect
\* returns is that sender's operation state.
then(s, handle, complete, f) ==
    Sender(ThenSignatures(s, handle, complete, f), s.sync, s.opsync,
           s.owns \ {handle})

\* into_variant answers no query.
into_variant(s) ==
    Sender(Transform(s.sends, {<<"value", "variant">>}, discard,
                     default_set_error, {Stopped}),
           FALSE, s.opsync, s.owns \ {"value"})

Handled(s, tags) == {c \in s.sends : c[1] \in tags}
Dependents(s, tags, next) == {next[c] : c \in Handled(s, tags)}

\* let_value, let_error, let_stopped: next gives the sender the function
\* returns for a completion.
let(s, tags, next) ==
    LET dependents == Dependents(s, tags, next)
    IN  Sender((s.sends \ Handled(s, tags)) \cup UNION {d.sends : d \in dependents},
               FALSE,
               s.opsync /\ \A d \in dependents : d.opsync,
               (s.owns \ tags) \cup UNION {d.owns : d \in dependents})

\* Faulty: synchronous as soon as what is sequenced is.
SequenceLastSync(s, dependent) ==
    Sender(error_signatures_of(s) \cup stopped_signatures_of(s) \cup dependent.sends,
           dependent.sync, dependent.opsync,
           (s.owns \ {"value"}) \cup dependent.owns)

sequence(s, dependent) ==
    Sender(error_signatures_of(s) \cup stopped_signatures_of(s) \cup dependent.sends,
           s.sync /\ dependent.sync,
           s.opsync /\ dependent.opsync,
           (s.owns \ {"value"}) \cup dependent.owns)

start_on(scheduled, s) == sequence(scheduled, s)

continue_on(s, scheduled) ==
    let(s, {"value"}, [c \in Completions |-> start_on(scheduled, just(c[2]))])

\* scheduled may not be synchronous (static_assert).
incite_on(s, scheduled) ==
    Sender(error_signatures_of(s) \cup stopped_signatures_of(s)
               \cup (IF value_signatures_of(s) = {} THEN {} ELSE scheduled.sends),
           FALSE, FALSE, (s.owns \ {"value"}) \cup scheduled.owns)

\* The option of make_variant whose test passes first: tests are tried in
\* order, and when none passes it is the last one.
first_matching_index(tests) ==
    IF \E i \in DOMAIN tests : tests[i]
    THEN CHOOSE i \in DOMAIN tests : tests[i] /\ \A j \in 1..(i - 1) : ~tests[j]
    ELSE Len(tests)

\* make_variant_sender: one of several senders, chosen at run time.
variant_sender(ss) ==
    Sender(UNION {s.sends : s \in ss},
           \A s \in ss : s.sync, \A s \in ss : s.opsync,
           UNION {s.owns : s \in ss})

\* detail::stopped_signatures of repeat.hpp and retry.hpp.
loop_stopped_signatures(stoppable) == IF stoppable THEN {Stopped} ELSE {}

\* repeat (never) and repeat_until, repeat_n: the predicate may end the loop.
repeat(s, never, stoppable) ==
    Sender(Transform(s.sends, loop_stopped_signatures(stoppable),
                     IF never THEN discard ELSE default_set_value,
                     default_set_error, {Stopped}),
           s.sync, s.opsync, s.owns)

retry(s, never, stoppable) ==
    Sender(Transform(s.sends, loop_stopped_signatures(stoppable),
                     default_set_value,
                     IF never THEN discard ELSE default_set_error, {Stopped}),
           s.sync, s.opsync, s.owns)

\* No signature is added for the stop that restart() answers.
periodic(s, never) ==
    Sender(Transform(s.sends, {}, IF never THEN discard ELSE default_set_value,
                     default_set_error, {Stopped}),
           s.sync, FALSE, s.owns)
=============================================================================
