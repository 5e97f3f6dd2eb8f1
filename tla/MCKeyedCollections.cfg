CONSTANTS
    k1 = k1
    k2 = k2
    k3 = k3
    v1 = v1
    v2 = v2
    Unit = Unit
    Keys <- MCKeys
    Values <- MCValues
    Hows <- MCHows
    Initially <- MCInitially
    MaxChanges = 4
SPECIFICATION Spec
SYMMETRY MCSymmetry
\* The traversal ends.
CHECK_DEADLOCK FALSE
INVARIANTS
    TypeOK
    VisitedOnce
    NothingMissed
PROPERTIES
    FollowsInsertion
