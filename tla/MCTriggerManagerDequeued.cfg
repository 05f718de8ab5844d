\* One context: a task that is run dequeues one that waits in the local list.
SPECIFICATION OneContextSpec
CONSTANTS
    Tasks = {t1, t2}
    Runners = {isr}
    Null = Null
    Shared = Shared
    Deferred = {isr}
INVARIANTS
    NeverRunUnasked
CHECK_DEADLOCK FALSE
