---------------------------- MODULE MCSharedCell ----------------------------
EXTENDS SharedCell

CONSTANTS t1, t2

MCThreads == {t1, t2}
MCOperands == {1, 3}
=============================================================================
