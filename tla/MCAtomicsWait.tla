--------------------------- MODULE MCAtomicsWait ---------------------------
EXTENDS AtomicsWait

CONSTANTS a1, a2, a3, c1, c2

MCAgents == {a1, a2, a3}
MCCells == {c1, c2}
MCCounts == {1, All}
=============================================================================
