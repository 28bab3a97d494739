CONSTANTS
    Chats = {contact, group, group2}
    GroupChats = {group, group2}
    MaxAsks = 2
    MaxReads = 2
    NoChat = NoChat
SPECIFICATION Spec
CHECK_DEADLOCK FALSE
INVARIANTS OnlyThisChat
