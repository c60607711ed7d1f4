SPECIFICATION FairSpec
CONSTANTS
    NMessages = 4
    SessionOf <- Blocks
    Bad <- Broken
    Slots = 2
    Capacity = 2
    MaxCrashes = 0
    NoOne = NoOne
    s1 = s1
    s2 = s2
CHECK_DEADLOCK FALSE
INVARIANTS
    SerialPerSession
    NothingLost
PROPERTY EveryEntryIsDone
