---------------------------- MODULE MCAgentSessions ----------------------------
(* Two turns on one session, of either backend.                            *)
EXTENDS AgentSessionsProperties
=============================================================================
