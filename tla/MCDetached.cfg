\* Three calls, a domain of one or two slots, and every kind of scheduler.
SPECIFICATION FairSpec
CONSTANTS
    Calls = {c1, c2, c3}
    Slots = {1, 2}
    Limits = {1, 2}
    None = None
    Overtakes = FALSE
INVARIANTS
    Consistent
PROPERTIES
    IsOperation
    StopEnds
\* A call is made once: the program ends when all operations have ended.
CHECK_DEADLOCK FALSE
