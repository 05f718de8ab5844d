\* One detached call, and a service routine that does not wait for its start().
SPECIFICATION Spec
CONSTANTS
    Calls = {c1}
    Slots = {1}
    Limits = {1}
    None = None
    Overtakes = TRUE
INVARIANT StartStaysInLifetime
CHECK_DEADLOCK FALSE
