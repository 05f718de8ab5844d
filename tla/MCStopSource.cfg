\* Two contexts request a stop; callbacks come and go at any moment.
SPECIFICATION FairSpec
CONSTANTS
    Callbacks = {c1, c2, c3}
    Requesters = {r1, r2}
    None = None
INVARIANTS
    Consistent
    StopReachesAll
    ToldAtMostOnce
PROPERTIES
    StopIsDelivered
\* The program ends when every callback is destroyed and the request has returned.
CHECK_DEADLOCK FALSE
