CONSTANTS
    p1 = p1
    d1 = d1
    d2 = d2
    direct = direct
    mock = mock
    group = group
    in1 = in1
    in2 = in2
    Peers = {p1}
    Devices = {d1, d2}
    Convs = {direct, mock, group}
    Groups = {group}
    Direct <- MCDirect
    Mock <- MCMock
    Members <- MCMembers
    Incoming = {in1}
    From <- MCFrom
    Outgoing = {text, file}
    Files = {file}
    DeviceLists <- MCDeviceLists
    OldRow = OldRow
    Limit = 2
    MaxUnread = 2
    MaxCrashes = 1
    None = None
SPECIFICATION Spec
CHECK_DEADLOCK FALSE

PROPERTIES GroupHistoryKept
