SPECIFICATION FairSpec
CONSTANTS
    Sessions = {s1, s2}
    NoToken = NoToken
    MaxVersion = 2
    MaxTurns = 2
    MaxReports = 2
    MaxActive = 2
CHECK_DEADLOCK FALSE
INVARIANTS
    AsLastAsked
    RestartIsFresh
PROPERTIES
    ConversationKept
    TransientEnds
