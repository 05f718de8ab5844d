\* Two contexts wait for one split sender, which may complete during start().
SPECIFICATION FairSpec
CONSTANTS
    Receivers = {r1, r2}
    Loops = {r1, r2}
    Tasks = {r1, r2}
    Dynamic = {}
    Nobody = Nobody
    NoTask = NoTask
    Rounds = 1
    Serialised = FALSE
PROPERTY EveryoneReturns
CHECK_DEADLOCK FALSE
