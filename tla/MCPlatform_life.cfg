SPECIFICATION FairSpec
CONSTANTS
    a = a
    b = b
    r1 = r1
    r2 = r2
    Topics <- MCTopics
    Probes <- MCProbes
    Requests <- MCRequests
    Calls <- MCCalls
    Issuer = "issuer"
    Audience = "api"
    SummarizerEnabled = TRUE
    Burst = 1
    Rps = 1
    MaxStale = 0
    MaxTime = 1
INVARIANT ResourcesOutliveTheirUsers
PROPERTY ReadyIsEarned
INVARIANT RateIsBounded
INVARIANT OnlyTheEntitledRead
PROPERTY EverythingStops
CHECK_DEADLOCK FALSE
