\* Two contexts wait for one split sender, one of them on a run loop.
SPECIFICATION FairSpec
CONSTANTS
    Receivers = {r1, r2}
    Loops = {r1, r2}
    Dynamic = {r1}
    Nobody = Nobody
    Tasks = {r1, r2}
    NoTask = NoTask
    Rounds = 2
    Serialised = TRUE
INVARIANTS
    TypeOK
    AnsweredOnce
PROPERTIES
    EveryoneReturns
\* The last round ends.
CHECK_DEADLOCK FALSE
