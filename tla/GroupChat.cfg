CONSTANTS
    Users = {a, b}
    Creator = a
    Msgs = {m1}
    MaxOps = 2
    MaxRestarts = 1
    None = None
SPECIFICATION Spec
CHECK_DEADLOCK FALSE
INVARIANTS ActiveByConsent ReadByMembers OpenedOnce
