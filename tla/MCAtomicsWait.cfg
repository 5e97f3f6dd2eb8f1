CONSTANTS
    a1 = a1  a2 = a2  a3 = a3
    c1 = c1  c2 = c2
    Agents <- MCAgents
    MaxWaits = 3
    Cells <- MCCells
    Counts <- MCCounts
    All = All
    NoAgent = NoAgent
SPECIFICATION FairSpec
\* Every thread may be in a wait without a timeout, with nobody to notify it.
CHECK_DEADLOCK FALSE
INVARIANTS
    TypeOK
    StillFindable
    EveryWakeCounted
    NotifyExhausts
PROPERTIES
    ListSpec
    WaitsReturn
