SPECIFICATION Spec
CONSTANTS
    Sessions = {s1}
    NoToken = NoToken
    MaxVersion = 2
    MaxTurns = 1
    MaxReports = 2
    MaxActive = 1
CHECK_DEADLOCK FALSE
SYMMETRY Symmetry
PROPERTY RegisteredTransitions
