\* Three operations on one loop, with a condition variable.
SPECIFICATION FairSpec
CONSTANTS
    Loops = {loop}
    Tasks = {t1, t2, t3}
    NoTask = NoTask
    Variants = {TRUE}
INVARIANT InOrder
CHECK_DEADLOCK FALSE
