\* just(...) | repeat_until(...).
SPECIFICATION Spec
CONSTANTS
    Types <- MCTypes
    Operations <- RepeatedJust
    Contexts = {"main"}
    Period = 1
    MaxLate = 0
    MaxDepth = 0
INVARIANT
    UsesTheLiving
CHECK_DEADLOCK FALSE
