\* One timer interrupt above every context that uses the manager.
SPECIFICATION FairSpec
CONSTANTS
    Tasks = {t1, t2, t3}
    Servers = {isr}
    NoTask = NoTask
    MaxTime = 3
    Durations = {0, 1, 3}
    MaxPast = 0
    Preemptive = FALSE
    ResetsOnEnable = TRUE
PROPERTIES
    NeverEarly
    IsATimer
    EventuallyServed
