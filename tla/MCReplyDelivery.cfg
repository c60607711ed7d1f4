SPECIFICATION Spec
CONSTANTS
    N = 2
    Requests = {r1, r2}
    NoOne = NoOne
    Quota = 1
    MaxForgets = 1
CHECK_DEADLOCK FALSE
SYMMETRY Symmetry
INVARIANTS
    ShownOncePerWindow
    OneLateChunk
PROPERTY KeepsPromise
