\* Two contexts wait for a sender that is split again after a stop.
SPECIFICATION Spec
CONSTANTS
    Receivers = {r1, r2}
    Loops = {r1, r2}
    Tasks = {r1, r2}
    Dynamic = {}
    Nobody = Nobody
    NoTask = NoTask
    Rounds = 2
    Serialised = TRUE
INVARIANT StoppedOnRequest
CHECK_DEADLOCK FALSE
