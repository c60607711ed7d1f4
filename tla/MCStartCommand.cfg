SPECIFICATION Spec
CONSTANTS
    c1 = c1
    c2 = c2
    owner = owner
    claude = claude
    work = work
    other = other
    root = root
    home = home
    Commands = {c1, c2}
    Owner <- OneOwner
    ToolOf <- OneTool
    Cwd <- Args
    Paths = {work, other}
    Aliases = {home}
    Tools = {claude}
    Denied = {}
    Quota = 1
    MaxAdmin = 2
    MaxCrashes = 1
    Nothing = Nothing
CHECK_DEADLOCK FALSE
INVARIANTS
    QuotaHolds
    LiveToolExists
    NoThreadLeft
PROPERTY ReadyWasAllowed
