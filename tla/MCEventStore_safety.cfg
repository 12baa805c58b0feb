SPECIFICATION FairSpec

CONSTANTS
    w1 = w1
    w2 = w2
    NoConn = pool
    Writers <- TwoWriters
    Batches <- DistinctStamps
    ChunkSize = 2
    MaxAttempts = 2
    MaxCalls = 2
    MaxCrashes = 1
    Limits <- SomeLimits
    DefaultPageSize = 2
    MaxPageSize = 3
    ZeroTime = 1

CHECK_DEADLOCK FALSE

INVARIANT TypeOK
INVARIANT StoredMeansInTable
INVARIANT AccountingNeverOverclaims
INVARIANT NoDuplicatesAcrossPages
INVARIANT AllEventsReachable
PROPERTY RowsAreFinal
PROPERTY EveryCallReturns
