\* A deferred and an immediate runner of one trigger; every task can be
\* dequeued at any time.  A run() of an emptied list stops.
SPECIFICATION FairSpec
CONSTANTS
    Tasks = {t1, t2, t3}
    Runners = {isr, idle}
    Null = Null
    Shared = Shared
    Deferred = {isr}
INVARIANTS
    Consistent
    AnsweredOnce
PROPERTIES
    InQueuedOrder
    EventuallyAnswered
CHECK_DEADLOCK FALSE
