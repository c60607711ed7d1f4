SPECIFICATION DispatchFairSpec
CONSTANTS
    Notices = {t1, s1}
    Terminal = {t1}
    ArchiveOrders = {}
    Dispatchers = {d1}
    NoOne = NoOne
    MaxCopies = 1
    MaxDeliveries = 1
    MaxForgets = 0
CHECK_DEADLOCK FALSE
PROPERTY NoticeIsSettled
