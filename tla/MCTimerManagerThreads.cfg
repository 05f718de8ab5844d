\* Two servers and contexts that preempt them.
SPECIFICATION Spec
CONSTANTS
    Tasks = {t1, t2, t3}
    Servers = {s1, s2}
    NoTask = NoTask
    MaxTime = 3
    Durations = {0, 1, 3}
    MaxPast = 1
    Preemptive = TRUE
    ResetsOnEnable = FALSE
SYMMETRY Symmetry
INVARIANTS
    Consistent
PROPERTIES
    FirstComeFirstServed
