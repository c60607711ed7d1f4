SPECIFICATION PresenceFairSpec
CONSTANTS
    j1 = j1
    j2 = j2
    j3 = j3
    r1 = r1
    r2 = r2
    Janitors = {j1, j2, j3}
    Runners = {r1, r2}
    MaxDrops = 1
    Nobody = Nobody
CHECK_DEADLOCK FALSE
PROPERTIES
    LiveRunnerKeepsSessions
    LockComesFree
