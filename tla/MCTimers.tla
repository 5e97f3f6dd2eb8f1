------------------------------ MODULE MCTimers ------------------------------
EXTENDS Timers

MCDelays == {0, 1}
=============================================================================
