SPECIFICATION FairSpec
CONSTANTS
    e1 = e1
    e2 = e2
    r1 = r1
    r2 = r2
    NoSince = NoSince
    Events <- MCEvents
    Domain <- MCDomain
    EventType <- MCEventType
    OccurredAt <- MCOccurredAt
    Requests <- MCRequests
    Queries <- MCQueries
    Providers <- MCProviders
    Client <- MCClient
    ApiKey <- MCApiKey
    Defaults <- MCDefaults
    RouterConfig <- MCRouterConfig
    Configs <- MCConfigs
    OldSummaries <- MCOldSummaries
    MaxEvidence = 1
    Hour = 2
    Window = 2
    Start = 4
    MaxTime = 5
    MaxRestarts = 1
INVARIANT CachedAnswersFitTheRequest
INVARIANT AnswersAreReused
INVARIANT LinksBackTheSummary
INVARIANT EvidenceCoversTheStatistics
PROPERTY EveryRequestIsAnswered
CHECK_DEADLOCK FALSE
