\* A callback is destroyed between its pop and its call.
SPECIFICATION Spec
CONSTANTS
    Callbacks = {c1, c2}
    Requesters = {r1}
    None = None
INVARIANTS
    CallsLiveCallback
CHECK_DEADLOCK FALSE
