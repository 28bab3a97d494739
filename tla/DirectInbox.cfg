CONSTANTS
    p1 = p1
    d1 = d1
    text = text
    request = request
    Plain = Plain
    Peers = {p1}
    Devices = {d1}
    Msgs = {text, request}
    From <- MCFrom
    Via <- MCVia
    Directories <- MCDirectories
    MaxDeliveries = 2
    MaxCrashes = 1
    MaxCount = 0
SPECIFICATION Spec
CHECK_DEADLOCK FALSE
INVARIANTS TypeOK AuthorisedOnly OpenedOnce
PROPERTIES InboxSpec
