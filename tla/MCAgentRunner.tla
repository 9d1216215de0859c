--------------------------- MODULE MCAgentRunner ---------------------------
EXTENDS AgentRunner, TLC
=============================================================================
