CONSTANTS
    Users = {u1, u2}
    Devices = {d1}
    SentIds = {d1}
    Conns = {c1, c2}
    None = None
    Cleaner = Cleaner
    Watched = {c1}
SPECIFICATION Spec
CHECK_DEADLOCK FALSE
INVARIANTS IndexAgrees DirectoryConverges
PROPERTIES UsersAreIsolated IterationStable DirectorySpec
