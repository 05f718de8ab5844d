----------------------------- MODULE StopSource -----------------------------
(***************************************************************************)
(* async::inplace_stop_source and inplace_stop_callback (stop_token.hpp):  *)
(* one source, the callbacks that are constructed and destroyed against    *)
(* it, and the contexts that request a stop.                               *)
(*                                                                         *)
(* request_stop exchanges the flag outside the critical section and then   *)
(* pops and runs one callback at a time, each pop in a critical section.   *)
(* register_callback reads the flag and links the callback inside one; the *)
(* two are separate actions because the exchange can fall between them     *)
(* where critical sections are mutexes.  A callback's body is whatever the *)
(* other actions do while its requester is "calling".                      *)
(***************************************************************************)
EXTENDS Integers, IntrusiveList

CONSTANTS
    Callbacks,     \* stop_callback_base objects
    Requesters,    \* contexts that call request_stop()
    None           \* no callback

ASSUME NoneAssumption == None \notin Callbacks

VARIABLES
    requested,     \* the source's flag
    callbacks,     \* the source's list
    pending,       \* stop_callback_base::pending
    lock,          \* the callback being registered in the critical section
    life,          \* per callback: where its lifetime stands
    calls,         \* per callback: how often its function was called (history)
    pc,            \* per requester: where request_stop stands
    cur            \* per requester: the callback it popped

vars == <<requested, callbacks, pending, lock, life, calls, pc, cur>>

\* "none": not constructed.  "linking", "refused": in the constructor, after
\* the flag was read as unset or set.  "alive": constructed.  "dead":
\* destroyed.
Lives == {"none", "linking", "refused", "alive", "dead"}

\* "draining": before the next get_next_cb.  "popped": holds a callback that
\* it has not called yet.  "calling": the callback's function is running.
Phases == {"idle", "draining", "popped", "calling"}

TypeOK ==
    /\ requested \in BOOLEAN
    /\ callbacks \in Seq(Callbacks)
    /\ pending \in [Callbacks -> BOOLEAN]
    /\ lock \in Callbacks \cup {None}
    /\ life \in [Callbacks -> Lives]
    /\ calls \in [Callbacks -> Nat]
    /\ pc \in [Requesters -> Phases]
    /\ cur \in [Requesters -> Callbacks \cup {None}]
    /\ \A c \in Callbacks : lock = c <=> life[c] = "linking"
    /\ \A r \in Requesters : cur[r] # None <=> pc[r] \in {"popped", "calling"}

Init ==
    /\ requested = FALSE
    /\ callbacks = <<>>
    /\ pending = [c \in Callbacks |-> FALSE]
    /\ lock = None
    /\ life = [c \in Callbacks |-> "none"]
    /\ calls = [c \in Callbacks |-> 0]
    /\ pc = [r \in Requesters |-> "idle"]
    /\ cur = [r \in Requesters |-> None]

-----------------------------------------------------------------------------
(* Constructing and destroying a callback. *)

\* register_callback enters its critical section and finds no request.
RegisterCheck(c) ==
    /\ lock = None
    /\ life[c] = "none"
    /\ ~requested
    /\ lock' = c
    /\ life' = [life EXCEPT ![c] = "linking"]
    /\ UNCHANGED <<requested, callbacks, pending, calls, pc, cur>>

\* register_callback links the callback and leaves the critical section.
RegisterLink(c) ==
    /\ lock = c
    /\ callbacks' = Append(callbacks, c)
    /\ pending' = [pending EXCEPT ![c] = TRUE]
    /\ lock' = None
    /\ life' = [life EXCEPT ![c] = "alive"]
    /\ UNCHANGED <<requested, calls, pc, cur>>

\* Faulty: the constructor ignores that register_callback refused.
RefusalIgnored(c) ==
    /\ lock = None
    /\ life[c] = "none"
    /\ requested
    /\ life' = [life EXCEPT ![c] = "alive"]
    /\ UNCHANGED <<requested, callbacks, pending, lock, calls, pc, cur>>

\* register_callback finds the request and refuses: nothing is linked.
RegisterRefused(c) ==
    /\ lock = None
    /\ life[c] = "none"
    /\ requested
    /\ life' = [life EXCEPT ![c] = "refused"]
    /\ UNCHANGED <<requested, callbacks, pending, lock, calls, pc, cur>>

\* A refused callback is called by its own constructor.
CallInConstructor(c) ==
    /\ life[c] = "refused"
    /\ calls' = [calls EXCEPT ![c] = @ + 1]
    /\ life' = [life EXCEPT ![c] = "alive"]
    /\ UNCHANGED <<requested, callbacks, pending, lock, pc, cur>>

\* Faulty: the destructor does not unregister.
DestroyKeepsLink(c) ==
    /\ lock = None
    /\ life[c] = "alive"
    /\ life' = [life EXCEPT ![c] = "dead"]
    /\ UNCHANGED <<requested, callbacks, pending, lock, calls, pc, cur>>

\* The destructor's unregister_callback.
Destroy(c) ==
    /\ lock = None
    /\ life[c] = "alive"
    /\ callbacks' = IF pending[c] THEN Unlink(callbacks, c) ELSE callbacks
    /\ pending' = [pending EXCEPT ![c] = FALSE]
    /\ life' = [life EXCEPT ![c] = "dead"]
    /\ UNCHANGED <<requested, lock, calls, pc, cur>>

-----------------------------------------------------------------------------
(* Requesting a stop. *)

\* The exchange finds the flag unset: this request runs the callbacks.  A
\* later request returns false and changes nothing.
Request(r) ==
    /\ pc[r] = "idle"
    /\ ~requested
    /\ requested' = TRUE
    /\ pc' = [pc EXCEPT ![r] = "draining"]
    /\ UNCHANGED <<callbacks, pending, lock, life, calls, cur>>

\* Faulty: the callback stays in the list.
PeekCallback(r) ==
    /\ pc[r] = "draining"
    /\ lock = None
    /\ callbacks # <<>>
    /\ pc' = [pc EXCEPT ![r] = "popped"]
    /\ cur' = [cur EXCEPT ![r] = Head(callbacks)]
    /\ UNCHANGED <<requested, callbacks, pending, lock, life, calls>>

\* get_next_cb pops the first callback.
PopCallback(r) ==
    /\ pc[r] = "draining"
    /\ lock = None
    /\ callbacks # <<>>
    /\ callbacks' = Tail(callbacks)
    /\ pending' = [pending EXCEPT ![Head(callbacks)] = FALSE]
    /\ pc' = [pc EXCEPT ![r] = "popped"]
    /\ cur' = [cur EXCEPT ![r] = Head(callbacks)]
    /\ UNCHANGED <<requested, lock, life, calls>>

\* cb->run(): the function is entered.
CallCallback(r) ==
    /\ pc[r] = "popped"
    /\ calls' = [calls EXCEPT ![cur[r]] = @ + 1]
    /\ pc' = [pc EXCEPT ![r] = "calling"]
    /\ UNCHANGED <<requested, callbacks, pending, lock, life, cur>>

\* Faulty: one callback is called and no other.
CallReturnsOnce(r) ==
    /\ pc[r] = "calling"
    /\ pc' = [pc EXCEPT ![r] = "idle"]
    /\ cur' = [cur EXCEPT ![r] = None]
    /\ UNCHANGED <<requested, callbacks, pending, lock, life, calls>>

\* The function returns; the loop looks for the next callback.
CallReturns(r) ==
    /\ pc[r] = "calling"
    /\ pc' = [pc EXCEPT ![r] = "draining"]
    /\ cur' = [cur EXCEPT ![r] = None]
    /\ UNCHANGED <<requested, callbacks, pending, lock, life, calls>>

\* get_next_cb finds no callback: request_stop returns true.
Drained(r) ==
    /\ pc[r] = "draining"
    /\ lock = None
    /\ callbacks = <<>>
    /\ pc' = [pc EXCEPT ![r] = "idle"]
    /\ UNCHANGED <<requested, callbacks, pending, lock, life, calls, cur>>

Next ==
    \/ \E c \in Callbacks :
        \/ RegisterCheck(c) \/ RegisterLink(c) \/ RegisterRefused(c)
        \/ CallInConstructor(c) \/ Destroy(c)
    \/ \E r \in Requesters :
        \/ Request(r) \/ PopCallback(r) \/ CallCallback(r)
        \/ CallReturns(r) \/ Drained(r)

Spec == Init /\ [][Next]_vars

\* A constructor and a request that were begun go on.
Fairness ==
    /\ \A c \in Callbacks : WF_vars(RegisterLink(c) \/ CallInConstructor(c))
    /\ \A r \in Requesters :
        WF_vars(PopCallback(r) \/ CallCallback(r) \/ CallReturns(r) \/ Drained(r))

FairSpec == Spec /\ Fairness

-----------------------------------------------------------------------------
(* Properties. *)

\* The pending flag says which callbacks are linked, and a linked callback
\* exists: the list never holds a destroyed callback.
PendingIsLinked ==
    /\ Linear(callbacks)
    /\ \A c \in Callbacks :
        /\ pending[c] <=> c \in Nodes(callbacks)
        /\ pending[c] => life[c] = "alive"

\* Whatever is registered and destroyed while callbacks are called, flags,
\* list, lock and lifetimes agree.
Consistent == TypeOK /\ PendingIsLinked

\* Once the request that won has returned, every callback that exists was
\* told: none is lost between the exchange, the drain and a registration
\* that overlaps both.
StopReachesAll ==
    requested /\ (\A r \in Requesters : pc[r] = "idle")
        => \A c \in Callbacks : life[c] = "alive" => calls[c] = 1

\* A callback is told at most once: by the request or by its constructor.
ToldAtMostOnce == \A c \in Callbacks : calls[c] <= 1

\* The callback that request_stop popped and is about to call still exists.
\* (It need not: a popped callback is not pending, so its destructor neither
\* unlinks it nor waits.)
CallsLiveCallback ==
    \A r \in Requesters : pc[r] = "popped" => life[cur[r]] = "alive"

\* A stop request reaches each callback, unless it is destroyed first.
StopIsDelivered ==
    \A c \in Callbacks :
        requested /\ life[c] = "alive" ~> calls[c] = 1 \/ life[c] = "dead"
=============================================================================
