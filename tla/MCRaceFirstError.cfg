\* first_successful with one child stopped before another one's error.
SPECIFICATION Spec
CONSTANTS
    Children = {c1, c2}
    None = None
    Shapes <- Successful
INVARIANTS
    FirstErrorIsReported
CHECK_DEADLOCK FALSE
