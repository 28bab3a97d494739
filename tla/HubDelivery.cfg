CONSTANTS
    d1 = d1
    toAny = toAny
    toD1 = toD1
    alsoToD1 = alsoToD1
    Devices = {d1, d2}
    Conns = {c1, c2}
    Msgs = {toAny, toD1}
    Target <- MCTarget
    Persistable = {toAny, toD1}
    MaxMemory = 1
    Limit = 1
    MaxCrashes = 1
    None = None
SPECIFICATION Spec
SYMMETRY Symmetry
CHECK_DEADLOCK FALSE
INVARIANT HandoverComplete
PROPERTIES MailboxSpec
