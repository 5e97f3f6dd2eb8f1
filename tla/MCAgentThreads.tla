--------------------------- MODULE MCAgentThreads ---------------------------
EXTENDS AgentThreads

CONSTANTS a1, a2

MCAgents == {a1, a2}
=============================================================================
