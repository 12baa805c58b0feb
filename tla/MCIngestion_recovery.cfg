SPECIFICATION FairSpec

CONSTANTS
    w1 = w1
    w2 = w2
    Workers <- OneWorker
    Poller = poller
    Batcher = batcher
    Nothing = nothing
    LogEnd = 3
    Holes <- NoHoles
    MaxSessions = 2
    OutageSessions <- FirstSession
    OffsetKind <- PayloadGoodBad
    BatchSize = 2
    DeliveryCap = 1
    EventCap = 1
    Faults <- Everything

PROPERTY EveryMessageGetsAnOutcome
