----------------------------- MODULE Subagents -----------------------------
(***************************************************************************)
(* Delegation and the mailboxes together: the subtasks of other agents     *)
(* send messages to the agent that delegated to them while they work, its  *)
(* page and its tools read them, and the app may exit.                     *)
(***************************************************************************)
EXTENDS Delegation, SubagentMailbox

CONSTANT MaxExits

ASSUME ExitsAssumption == MaxExits \in Nat /\ Messages \subseteq Nat

VARIABLE exits

allVars == <<delegationVars, mailVars, exits>>

\* The collaborate tool in a subtask's turn: send_message_checked, which goes
\* on if the relations allow it by now.  Messages are numbered as they are sent.
Tell(r, m) ==
  /\ run[r].pc = "turn" /\ r \in Foreign
  /\ \A n \in Messages : message[n].pc = "new" => m <= n
  /\ \E a \in Agents : Accept(m, a)
  /\ UNCHANGED <<delegationVars, exits>>

\* Before the first call there is nothing to lose.
Exit ==
  /\ exits < MaxExits /\ \E c \in Calls : call[c].pc # "idle"
  /\ exits' = exits + 1
  /\ TasksGone /\ MailLost

Init == DelegationInit /\ MailInit /\ exits = 0

Next ==
  \/ DelegationNext /\ UNCHANGED <<mailVars, exits>>
  \/ MailNext /\ UNCHANGED <<delegationVars, exits>>
  \/ \E r \in Runs, m \in Messages : Tell(r, m)
  \/ Exit

Spec ==
  /\ Init /\ [][Next]_allVars
  /\ \A r \in Runs : WF_allVars(Subtask(r) /\ UNCHANGED <<mailVars, exits>>)
  /\ \A c \in Calls : WF_allVars(CallStep(c) /\ UNCHANGED <<mailVars, exits>>)

SubagentsTypeOK == DelegationTypeOK /\ MailTypeOK /\ exits \in 0..MaxExits
=============================================================================
