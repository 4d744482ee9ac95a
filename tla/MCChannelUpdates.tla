-------------------------- MODULE MCChannelUpdates --------------------------
(* Finite instances of ChannelUpdates for TLC. *)
EXTENDS ChannelUpdates

CONSTANT k1   \* a channel

OneChannel == {k1}
SomeTasks == 1..2
=============================================================================
