SPECIFICATION Spec
CONSTANTS
    Feeds = {f1, f2}
    Accounts = {pool, dex}
    Programs = {dex}
    Capacity = 1
    Disconnects = FALSE
    MaxReq = 1
    MaxNotes = 1
INVARIANT ReplyIsForAsker
CHECK_DEADLOCK FALSE
