CONSTANTS
    Users = {u1}
    Devices = {d1}
    SentIds = {d1}
    Conns = {c1, c2}
    None = None
    Cleaner = Cleaner
    Watched = {}
SPECIFICATION FairReaderSpec
CHECK_DEADLOCK FALSE
PROPERTIES GhostsNeedTwoEntries OverdueCleared AnnouncementsEnd
