SPECIFICATION Spec

CONSTANTS
    w1 = w1
    w2 = w2
    Workers <- TwoWorkers
    Poller = poller
    Batcher = batcher
    Nothing = nothing
    LogEnd = 3
    Holes <- NoHoles
    MaxSessions = 2
    OutageSessions <- EverySession
    OffsetKind <- PoisonInTheMiddle
    BatchSize = 2
    DeliveryCap = 1
    EventCap = 1
    Faults <- Everything

INVARIANT CommittedIsDurable
INVARIANT HandledIsInflight
INVARIANT OnlyBadMessagesAreDeadLettered
