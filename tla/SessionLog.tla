----------------------------- MODULE SessionLog -----------------------------
(***************************************************************************)
(* What a chat session promises: its messages are written by one turn at   *)
(* a time.  A turn has the session once, only while it has it does it add  *)
(* messages, and whatever else happens only takes messages away.           *)
(* Conversation implements this.                                           *)
(***************************************************************************)
CONSTANTS
  Turns,    \* the messages sent to the session, each answered by a turn
  Nobody    \* owns a free session

VARIABLES
  log,      \* the messages, each a record with the turn that wrote it
  owner,    \* the turn that has the session
  over      \* the turns that have ended

vars == <<log, owner, over>>

Init == log = {} /\ owner = Nobody /\ over = {}

Open(t) ==
  /\ owner = Nobody /\ t \notin over
  /\ owner' = t
  /\ UNCHANGED <<log, over>>

Write(t) ==
  /\ owner = t
  /\ \E m \in log' : m.turn = t /\ log' = log \cup {m}
  /\ UNCHANGED <<owner, over>>

\* A turn may give up before it has the session.
Close(t) ==
  /\ t \notin over
  /\ over' = over \cup {t}
  /\ owner' = IF owner = t THEN Nobody ELSE owner
  /\ UNCHANGED log

Remove ==
  /\ log' \subseteq log
  /\ UNCHANGED <<owner, over>>

Next == Remove \/ \E t \in Turns : Open(t) \/ Write(t) \/ Close(t)

Spec == Init /\ [][Next]_vars
=============================================================================
