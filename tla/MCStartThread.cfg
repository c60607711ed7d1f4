SPECIFICATION Spec
CONSTANTS
    c1 = c1
    c2 = c2
    owner = owner
    claude = claude
    work = work
    other = other
    root = root
    home = home
    Commands = {c1, c2}
    Owner <- OneOwner
    ToolOf <- OneTool
    Cwd <- Args
    Paths = {work}
    Aliases = {home}
    Tools = {claude}
    Denied = {}
    Quota = 2
    MaxAdmin = 0
    MaxCrashes = 0
    Nothing = Nothing
CHECK_DEADLOCK FALSE
INVARIANT ThreadOfSessionStays
