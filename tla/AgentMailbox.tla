---------------------------- MODULE AgentMailbox ----------------------------
(***************************************************************************)
(* What the mailboxes of agent/subagent.rs promise: a message that was     *)
(* accepted for an agent stays in its box until a reader of that agent     *)
(* takes it, once, or it is lost.                                          *)
(***************************************************************************)
CONSTANTS Agents, Messages

VARIABLES
  box,   \* the messages each agent can still be given
  read   \* those its readers have been given

Init == /\ box = [a \in Agents |-> {}]
        /\ read = [a \in Agents |-> {}]

Known(m) == \E a \in Agents : m \in box[a] \cup read[a]

Deposit(a, m) ==
  /\ ~Known(m)
  /\ box' = [box EXCEPT ![a] = @ \cup {m}]
  /\ UNCHANGED read

Read(a, m) ==
  /\ m \in box[a]
  /\ box' = [box EXCEPT ![a] = @ \ {m}]
  /\ read' = [read EXCEPT ![a] = @ \cup {m}]

Lose(lost) ==
  /\ box' = [a \in Agents |-> box[a] \ lost]
  /\ UNCHANGED read

Next ==
  \/ \E a \in Agents, m \in Messages : Deposit(a, m) \/ Read(a, m)
  \/ \E lost \in SUBSET Messages : Lose(lost)

Spec == Init /\ [][Next]_<<box, read>>
=============================================================================
