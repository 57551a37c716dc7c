SPECIFICATION Spec
CONSTANTS
    f1 = f1
    pool = pool
    dex = dex
    Feeds <- MCFeeds
    Accounts <- MCAccounts
    Programs <- MCPrograms
    Capacity = 2
    Disconnects = TRUE
    MaxReq = 3
    MaxNotes = 4
CHECK_DEADLOCK FALSE
INVARIANTS
    InOrderOnce
    NothingLost
PROPERTIES
    CallsReturn
