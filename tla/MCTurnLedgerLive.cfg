SPECIFICATION FairSpec
CONSTANTS
    Keys = {k1, k2}
    Runners = {r1}
    NoKey = NoKey
    NoRunner = NoRunner
    NoToken = NoToken
    MaxVersion = 3
    MaxDrops = 0
CHECK_DEADLOCK FALSE
PROPERTIES
    KeepsPromise
    QueuedIsSettled
