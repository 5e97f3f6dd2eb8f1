CONSTANTS
    v1 = v1  v2 = v2
    e1 = e1  e2 = e2
    Kinds <- AllKinds
    Values <- MCValues
    Errors <- MCErrors
    MaxElements = 3
    MaxAnswers = 3
SPECIFICATION Spec
SYMMETRY MCSymmetry
\* The elements may never answer.
CHECK_DEADLOCK FALSE
INVARIANTS
    TypeOK
    AsGathered
