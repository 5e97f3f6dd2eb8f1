---------------------------- MODULE MCCombinators ----------------------------
EXTENDS PromiseCombinators, TLC

CONSTANTS v1, v2, e1, e2

MCValues == {v1, v2}
MCErrors == {e1, e2}
MCSymmetry == Permutations(MCValues) \cup Permutations(MCErrors)
=============================================================================
