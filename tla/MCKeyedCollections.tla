------------------------- MODULE MCKeyedCollections -------------------------
EXTENDS KeyedCollections

CONSTANTS k1, k2, k3, v1, v2

MCKeys == {k1, k2, k3}
MCValues == {v1, v2}
MCHows == {"iterator", "mapForEach", "setForEach", "setMethod"}
MCInitially == {2, 3}
MCSymmetry == Permutations(MCKeys) \cup Permutations(MCValues)
=============================================================================
