SPECIFICATION Spec
CONSTANTS
    Keys = {k1, k2}
    Runners = {r1, r2}
    NoKey = NoKey
    NoRunner = NoRunner
    NoToken = NoToken
    MaxVersion = 1
    MaxDrops = 1
SYMMETRY Symmetry
CHECK_DEADLOCK FALSE
INVARIANTS
    RerunsNeedLostLocks
    StartedInOrder
    ReplyIsBacked
    RestartForgets
