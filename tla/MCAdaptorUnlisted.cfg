\* A periodic operation that is requested to stop.
SPECIFICATION Spec
CONSTANTS
    Types <- MCTypes
    Operations <- PeriodicValues
    Contexts = {"main", "isr"}
    Period = 2
    MaxLate = 2
    MaxDepth = 1
INVARIANT
    SendsWhatIsListed
CHECK_DEADLOCK FALSE
