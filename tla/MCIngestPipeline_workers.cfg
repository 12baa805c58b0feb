SPECIFICATION FairSpec
CONSTANTS
    w1 = w1
    w2 = w2
    m1 = m1
    m2 = m2
    m3 = m3
    Poller = poller
    Batcher = batcher
    Nothing = nothing
    Messages <- ThreeMessages
    Kind <- TwoGoodOnePanics
    Workers <- TwoWorkers
    BatchSize = 2
    DeliveryCap = 1
    EventCap = 1
    Faults <- AllFaults
INVARIANT TypeOK
INVARIANT AckedIsDurable
INVARIANT CustodyIsUnique
INVARIANT NoSendOnClosedChannel
PROPERTY ContractSpec
PROPERTY ShutdownCompletes
