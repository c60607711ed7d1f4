SPECIFICATION DrainSpec
CONSTANTS
    NMessages = 2
    SessionOf <- Blocks
    Bad <- Broken
    Slots = 1
    Capacity = 1
    MaxCrashes = 1
    NoOne = NoOne
    s1 = s1
    s2 = s2
CHECK_DEADLOCK FALSE
PROPERTY StopEnds
