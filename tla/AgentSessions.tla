------------------------------ MODULE AgentSessions ------------------------------
(***************************************************************************)
(* Either backend, driven by the same chat.                                *)
(***************************************************************************)
EXTENDS CodexSession, ClaudeSession

vars == <<agentVars, codexVars, claudeVars>>

Init == backend \in {"codex", "claude"} /\ AgentInit /\ CodexInit /\ ClaudeInit

Next ==
  \/ CodexNext /\ UNCHANGED claudeVars
  \/ ClaudeNext /\ UNCHANGED codexVars

Spec == Init /\ [][Next]_vars

(* The daemon's own steps happen and its timers fire; a killed process     *)
(* exits.  Nothing is assumed of a process that is not killed.             *)
Steps ==
  \/ daemon = "up" /\ CodexSteps /\ UNCHANGED claudeVars
  \/ ClaudeSteps /\ UNCHANGED codexVars
Timeouts ==
  \/ daemon = "up" /\ CodexTimeouts /\ UNCHANGED claudeVars
  \/ (\E k \in Turns: AskingFails(k)) /\ UNCHANGED codexVars
Dies ==
  /\ proc = "dying"
  /\ \/ daemon = "up" /\ Exits /\ UNCHANGED claudeVars
     \/ ProcessExits /\ UNCHANGED codexVars
FairSpec == Spec /\ WF_vars(Steps) /\ WF_vars(Timeouts) /\ WF_vars(Dies)
=============================================================================
