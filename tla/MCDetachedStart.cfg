\* One detached call, and a stop that falls into the end of its start().
SPECIFICATION Spec
CONSTANTS
    Calls = {c1}
    Slots = {1}
    Limits = {1}
    None = None
    Overtakes = FALSE
INVARIANT EmplaceEndsInLifetime
CHECK_DEADLOCK FALSE
