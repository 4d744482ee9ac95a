---------------------------- MODULE MCSubagents ----------------------------
(* A finite instance of Subagents for TLC. *)
EXTENDS Subagents

CONSTANTS parent, c1

OneCall == [r \in Runs |-> c1]
=============================================================================
