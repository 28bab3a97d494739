CONSTANTS
    Components = {"transport", "frames", "model", "profile", "tickets", "workspace", "assistant", "host"}
    MaxAttempts = 2
    MaxFrames = 2
    MaxFaults = 2
    Ids = {u1, u2}
    Passwords = {x, y}
    Tickets = {t1}
    Clients = {c1, c2, c3}
    NoTicket = NoTicket
    MaxChanges = 2
    MaxCrashes = 1
    Corrupt = Corrupt
    NoFile = NoFile
    None = None
    Files = {f1}
    Workers = {client, launcher}
    MaxOps = 3
    MaxEdits = 1
    MaxDeaths = 1
    NoRow = NoRow
    Chats = {contact, group, group2}
    GroupChats = {group, group2}
    MaxAsks = 2
    MaxReads = 2
    NoChat = NoChat
    Questions = {q1, q2}
    Hubs = {h1, h2}
    Temps = {tmp1}
    MaxLogins = 2
    NoMarker = NoMarker
    Machines = {m1, m2}
    Last = 3
    Sizes = {2, 3, 5, 6, 7}
    MaxStream = 21
    MaxChunk = 3
    MaxBuffer = 6
SPECIFICATION Spec
INVARIANTS
    TypeOK
    RegisterFirst FramesInStep
    IdentityFixed TicketOnce PairingByConsent
    IndexedIsFound DeletedStaysOut ScanExact UnboundIsClean SharingIsRecorded
    ContextStaysInChat
    SentIsReadable MarkerHonest
PROPERTIES
    Reregisters GroupsRestored
    QuestionsEnd
    ChannelSpec
CHECK_DEADLOCK FALSE
