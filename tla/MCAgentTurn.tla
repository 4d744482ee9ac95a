---------------------------- MODULE MCAgentTurn ----------------------------
(* Finite instances of AgentTurn for TLC. *)
EXTENDS AgentTurn
=============================================================================
