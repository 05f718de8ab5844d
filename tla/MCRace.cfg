\* when_all and when_any in all their forms, with three children.
SPECIFICATION FairSpec
CONSTANTS
    Children = {c1, c2, c3}
    None = None
    Shapes <- AllShapes
INVARIANTS
    TypeOK
    CompletesLast
    FollowsPolicy
PROPERTIES
    EndsOnceDecided
\* An operation that has completed does nothing more.
CHECK_DEADLOCK FALSE
