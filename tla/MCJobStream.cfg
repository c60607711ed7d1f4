SPECIFICATION FairSpec
CONSTANTS
    Rows = {1}
    Relays = {k1}
    Consumers = {c1}
    MaxAttempts = 1
    MaxDeliveries = 2
    MaxEntries = 2
CHECK_DEADLOCK FALSE
INVARIANTS
    UnfinishedIsKept
    OutageSpendsNothing
PROPERTIES
    KeepsPromise
    RowIsSettled
