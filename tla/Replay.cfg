SPECIFICATION ReplaySpec
CONSTANTS
    One = 100
    MaxWeight = 922
    BitWeight = 3
    FeeDenom = 100
    Q64 = 300
    U64 = 2000
    MinSqrtPrice = 20
    MaxSqrtPrice = 5000
    PhiNum = 618
    PhiDen = 1000
    MaxIters = 64
    Tolerance = 10000
    BaseSigFee = 2
    TipFeeBps = 5
    TipFeeDenom = 100
    PriorityScale = 10
    Certain = 1000
    Snapshots <- MCSnapshots
    ByAddress <- MCByAddress
    MaxGiven = 3
    MaxInput = 400
    Cost <- MCCost
    Optimistic <- OptimisticBound
    Conservative <- MCConservative
    MaxCycleLegsSearched = 3
CHECK_DEADLOCK FALSE
INVARIANTS
    TradesPay
    ReconcileAgrees
