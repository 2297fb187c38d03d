----------------------------- MODULE MCChatTurns -----------------------------
(* The instances of the chat that TLC checks.                              *)
EXTENDS ChatTurnsProperties
=============================================================================
