CONSTANTS
    a1 = a1  a2 = a2
    Agents <- MCAgents
    Host = Host
    MaxBroadcasts = 3
    MaxReports = 2
    MaxEvaluations = 2
SPECIFICATION FairSpec
\* A reset may wait for an agent that nobody broadcasts to.
CHECK_DEADLOCK FALSE
INVARIANTS
    TypeOK
    NotStale
    Isolated
PROPERTIES
    Delivered
    ResetReturns
