SPECIFICATION Spec
CONSTANTS
    DailyCap = 1
    PerBundle = 1
    MaxKeys = 2
    MaxStarts = 3
    MaxLosses = 1
    MaxTicks = 1
    Recorders = {r1, r2}
    Values = {0, 2, 3}
    Deltas <- MCDeltas
    MaxBuckets = 3
    RingSize = 2
    PnlMax = 2
    MaxObserved = 3
    MaxSubmitted = 2
    InputAmount = 2
    Outs = {1, 2, 8}
    MinNet = 1
    Tip = 1
    Fee = 1
    StartHold <- MCHold
    StartVaults = {0, 5, 9}
    MaxAge = 2
    Skew = 1
    Ages = {0, 3}
    PollTimeout = 9
    PollFirst = 2
    PollCap = 3
    CallTime = 1
    MaxBundles = 2
    Delays = {0, 3, 70, 2000}
    MaxEvents = 5
    Accounts <- MCAccounts
    MaxStaleness = 1
    MaxSlot = 3
    BaseDelay = 5
    CapDelay = 12
    JitterBps = 4
    Scale = 10
    Seeds <- MCSeeds
    StormThreshold = 2
    StormWindow = 2
    MaxAttempts = 3
INVARIANTS
    GainKept
    StatusTruthful
    MetersBehind
    LatencyLogged
    HaltTimely
    ReconnectsPaced
PROPERTIES
    SnapshotWhole
CHECK_DEADLOCK FALSE
