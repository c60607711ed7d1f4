SPECIFICATION Spec
CONSTANTS
    manager = manager
    owner = owner
    helper = helper
    r1 = r1
    Members = {manager, owner, helper}
    Roles = {r1}
    Managers = {manager}
    Platform = {manager}
    Owner = owner
    Holds <- FirstRoles
    FirstTools <- Registered
    Slots = {c1, c2}
    Keys = {api_key, base_url}
    Secrets = {api_key}
    Guarded = {base_url}
    Values = {v}
    MaxCalls = 2
    MaxOutside = 1
    None = None
SYMMETRY Symmetry
CHECK_DEADLOCK FALSE
INVARIANTS
    ActsWereEntitled
    StoredToolIsValid
    GivenWasOffered
PROPERTY RoleIsKept
