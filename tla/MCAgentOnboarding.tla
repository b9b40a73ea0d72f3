-------------------------- MODULE MCAgentOnboarding --------------------------
\* Model values for AgentOnboarding.
EXTENDS AgentOnboarding
================================================================================
