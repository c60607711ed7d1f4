SPECIFICATION TypingFairSpec
CONSTANTS
    t1 = t1
    t2 = t2
    t3 = t3
    Turns = {t1, t2, t3}
    Starts <- ThreeStarts
CHECK_DEADLOCK FALSE
INVARIANTS
    CounterIsPending
PROPERTY NeverStuck
