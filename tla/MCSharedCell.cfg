CONSTANTS
    t1 = t1  t2 = t2
    Threads <- MCThreads
    Modulus = 4
    Signed = TRUE
    Operands <- MCOperands
    Idle = Idle
    MaxCalls = 2
SPECIFICATION SharedFairSpec
\* Every thread may have made its calls.
CHECK_DEADLOCK FALSE
INVARIANTS
    CellTypeOK
PROPERTIES
    OneStepEach
    EveryCallReturns
