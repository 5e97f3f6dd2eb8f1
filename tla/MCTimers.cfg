CONSTANTS
    MaxTimers = 3
    MaxRuns = 2
    MaxRounds = 2
    Delays <- MCDelays
SPECIFICATION FairSpec
\* The host need not run another script.
CHECK_DEADLOCK FALSE
INVARIANTS
    TypeOK
    Accounted
PROPERTIES
    ClearedIsQuiet
    NoOvertaking
    RunsEnd
