\* Four operations on one loop, without a condition variable.
SPECIFICATION FairSpec
CONSTANTS
    Loops = {loop}
    Tasks = {t1, t2, t3, t4}
    NoTask = NoTask
    Variants = {FALSE}
INVARIANT InOrder
PROPERTY EventuallyExecuted
\* The loop ends, or waits without being finished.
CHECK_DEADLOCK FALSE
