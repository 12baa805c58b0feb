SPECIFICATION Spec

CONSTANTS
    w1 = w1
    w2 = w2
    NoConn = pool
    Writers <- OneWriter
    Batches <- SharedStamp
    ChunkSize = 2
    MaxAttempts = 2
    MaxCalls = 2
    MaxCrashes = 0
    Limits <- SomeLimits
    DefaultPageSize = 2
    MaxPageSize = 3
    ZeroTime = 1

CHECK_DEADLOCK FALSE

INVARIANT AllEventsReachable
