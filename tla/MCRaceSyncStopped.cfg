\* when_all of synchronous children, one of which sends set_stopped.
SPECIFICATION Spec
CONSTANTS
    Children = {c1, c2}
    None = None
    Shapes <- Synchronous
INVARIANTS
    SendsOnlyValuesSent
CHECK_DEADLOCK FALSE
