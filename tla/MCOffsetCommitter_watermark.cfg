SPECIFICATION FairSpec

CONSTANTS
    a1 = a1
    a2 = a2
    LogEnd = 3
    MaxSessions = 2
    Holes <- NoHoles
    Ackers <- OneAcker
    OutageSessions <- NoOutage
    Faults <- RevokeOrForeign

\* The log is finite: after its last message the consumer idles.
CHECK_DEADLOCK FALSE

PROPERTY GapIsEventuallyClosed
