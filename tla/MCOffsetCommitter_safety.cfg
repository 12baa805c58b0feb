SPECIFICATION Spec

CONSTANTS
    a1 = a1
    a2 = a2
    LogEnd = 4
    MaxSessions = 2
    Holes <- OneHole
    Ackers <- TwoAckers
    OutageSessions <- EverySession
    Faults <- AllFaults

\* The log is finite: after its last message the consumer idles.
CHECK_DEADLOCK FALSE

INVARIANT TypeOK
INVARIANT NoCommitOverGap
INVARIANT NoPendingCommitOverGap
INVARIANT EachAdvanceHasOneSender
PROPERTY LedgerSpec
