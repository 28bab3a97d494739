CONSTANTS
    d1 = d1
    toAny = toAny
    toD1 = toD1
    alsoToD1 = alsoToD1
    Devices = {d1, d2}
    Conns = {c1, c2}
    Msgs = {toD1, alsoToD1}
    Target <- MCTarget
    Persistable = {}
    MaxMemory = 2
    Limit = 1
    MaxCrashes = 0
    None = None
SPECIFICATION Spec
SYMMETRY Symmetry
CHECK_DEADLOCK FALSE
INVARIANTS UndeliveredKept
