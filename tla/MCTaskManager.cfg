\* Both policies side by side; tasks may be enqueued at either priority.
SPECIFICATION FairSpec
CONSTANTS
    Tasks = {t1, t2, t3}
    Priorities = {low, high}
    Deferred = {low}
    NoTask = NoTask
INVARIANTS
    Consistent
    NoRequestForgotten
    NoLostInterrupt
PROPERTIES
    FirstInFirstOut
    EventuallyRun
