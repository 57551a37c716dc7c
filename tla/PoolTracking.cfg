SPECIFICATION Spec
CONSTANTS
    p1 = p1
    p2 = p2
    Pools <- MCPools
    Networks <- MCNetworks
    MaxAmount = 2
    MaxQueue = 3
    MaxChanges = 6
CHECK_DEADLOCK FALSE
INVARIANTS
    DetectorKnows
    ReservesWereReported
PROPERTIES
    MismatchExplained
