SPECIFICATION DispatchSpec
CONSTANTS
    Notices = {t1, a1}
    Terminal = {t1}
    ArchiveOrders = {a1}
    Dispatchers = {d1, d2}
    NoOne = NoOne
    MaxCopies = 2
    MaxDeliveries = 2
    MaxForgets = 1
CHECK_DEADLOCK FALSE
SYMMETRY Symmetry
INVARIANTS
    NothingDropped
PROPERTY DoneStaysDone
