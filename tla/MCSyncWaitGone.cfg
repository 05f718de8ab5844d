\* Two contexts wait for one split sender: one returns while notify() is at it.
SPECIFICATION Spec
CONSTANTS
    Receivers = {r1, r2}
    Loops = {r1, r2}
    Tasks = {r1, r2}
    Dynamic = {}
    Nobody = Nobody
    NoTask = NoTask
    Rounds = 1
    Serialised = TRUE
INVARIANT NotifiesTheLiving
CHECK_DEADLOCK FALSE
