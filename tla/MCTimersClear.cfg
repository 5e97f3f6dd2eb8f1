CONSTANTS
    MaxTimers = 3
    MaxRuns = 2
    MaxRounds = 2
    Delays <- MCDelays
SPECIFICATION Spec
\* The host need not run another script.
CHECK_DEADLOCK FALSE
PROPERTIES
    ClearedNeverFires
