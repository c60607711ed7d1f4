SPECIFICATION FairSpec
CONSTANTS
    N = 2
    Requests = {r1}
    NoOne = NoOne
    Quota = 1
    MaxForgets = 0
CHECK_DEADLOCK FALSE
PROPERTY ReplyIsAnswered
