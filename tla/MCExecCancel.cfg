SPECIFICATION TurnSpec
CONSTANTS
    leader = leader
    child = child
    other = other
    out = out
    err = err
    Procs <- TwoProcs
    Leader = leader
    Streams = {out, err}
    PipeSize = 1
    MaxOutput = 1
    KillOutput = 2
    MaxWrites = 3
    MaxCancels = 2
    MaxOuter = 1
CHECK_DEADLOCK FALSE
INVARIANT CancellationSafe
