CONSTANTS
    Users = {u1}
    Devices = {d1, d2}
    SentIds = {d1, d2}
    Conns = {c1, c2}
    None = None
    Cleaner = Cleaner
    Watched = {}
SPECIFICATION Spec
CHECK_DEADLOCK FALSE
INVARIANTS NoGhostOnline
