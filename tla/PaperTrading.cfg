SPECIFICATION MCSpec
CONSTANTS
    Start = 3
    Profits <- MCProfits
    MaxBatch = 2
    MaxTrades = 3
    MaxBoots = 2
    One = 32
    MaxWeight = 295
    BitWeight = 10
    Pools <- MCPools
    ByAddress <- MCByAddress
    Seed = "seed"
    Reserves <- MCReserves
    MaxSlot = 2
    MaxAge = 1
    MaxLegs = 3
    MaxUpdates = 3
CHECK_DEADLOCK FALSE
INVARIANTS
    BalanceExact
    MissingLinesExcused
    StreamCurrent
    ProfitableReported
PROPERTIES
    HistoryContinued
    PruneExact
