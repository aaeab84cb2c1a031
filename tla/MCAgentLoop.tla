----------------------------- MODULE MCAgentLoop -----------------------------
EXTENDS AgentLoop
=============================================================================
