\* Every adaptor over every child its type can tell apart.
SPECIFICATION FairSpec
CONSTANTS
    Types <- MCTypes
    Operations <- SafeOperations
    Contexts = {"main", "isr"}
    Period = 2
    MaxLate = 5
    MaxDepth = 2
INVARIANTS
    TypeOK
    KeepsContract
    CompletesLast
    UsesTheLiving
    RepeatsExactly
    SyncLoopsDontNest
PROPERTIES
    ExpiresOnTheGrid
    EndsWhenItMust
\* An operation that has completed does nothing more.
CHECK_DEADLOCK FALSE
