SPECIFICATION Spec
CONSTANTS
    Sessions = {s1, s2}
    NoToken = NoToken
    MaxVersion = 3
    MaxTurns = 1
    MaxReports = 2
    MaxActive = 2
CHECK_DEADLOCK FALSE
SYMMETRY Symmetry
INVARIANT FailedStartReleases
