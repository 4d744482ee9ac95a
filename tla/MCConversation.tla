--------------------------- MODULE MCConversation ---------------------------
(* Finite instances of Conversation for TLC. *)
EXTENDS Conversation

CONSTANTS t1, t2, t3   \* turns

TwoTurns == {t1, t2}
ThreeTurns == {t1, t2, t3}
=============================================================================
