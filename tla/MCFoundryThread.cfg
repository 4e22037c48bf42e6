CONSTANTS
    v1 = v1
    v2 = v2
    Dispatch = dispatch
    Responses = {}
    Injections <- MCInjections
    Chats = {chat}
    MaxCount = 3
    CountedBy = "resource_id"
    None = None
SYMMETRY Symmetry
CHECK_DEADLOCK FALSE
SPECIFICATION ThreadSpec
INVARIANTS
    ThreadTypeOK
    NoMessageUnread
    ReplyIsFresh
