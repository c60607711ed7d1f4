SPECIFICATION DispatchSpec
CONSTANTS
    Notices = {a1}
    Terminal = {}
    ArchiveOrders = {a1}
    Dispatchers = {d1}
    NoOne = NoOne
    MaxCopies = 1
    MaxDeliveries = 1
    MaxForgets = 0
CHECK_DEADLOCK FALSE
PROPERTY LiveThreadsStayOpen
