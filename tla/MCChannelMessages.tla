------------------------- MODULE MCChannelMessages -------------------------
(* A finite instance of ChannelMessages for TLC. *)
EXTENDS ChannelMessages

CONSTANTS a, b, s

TwoChats == [m \in Messages |-> IF m = 1 THEN a ELSE b]
OneSender == [m \in Messages |-> s]
=============================================================================
