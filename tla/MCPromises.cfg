CONSTANTS
    v1 = v1
    MaxPromises = 3
    MaxEntries = 2
    MaxDepth = 2
    MaxRounds = 3
    Handlers <- MCHandlers
    Values <- MCValues
    NoValue = NoValue
SPECIFICATION FairSpec
INVARIANTS
    TypeOK
    OneHolder
    NobodyLeftWaiting
PROPERTIES
    OutcomeKept
    QueueEmpties
