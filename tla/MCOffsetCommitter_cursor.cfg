SPECIFICATION Spec

CONSTANTS
    a1 = a1
    a2 = a2
    LogEnd = 2
    MaxSessions = 1
    Holes <- NoHoles
    Ackers <- TwoAckers
    OutageSessions <- NoOutage
    Faults <- NoFaults

\* The log is finite: after its last message the consumer idles.
CHECK_DEADLOCK FALSE

PROPERTY CommittedNeverRegresses
