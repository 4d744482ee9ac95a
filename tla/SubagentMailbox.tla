-------------------------- MODULE SubagentMailbox --------------------------
(***************************************************************************)
(* Messages between agents (agent/subagent.rs): a mailbox per agent, and a *)
(* waiter per agent for a receiver that found the mailbox empty.  The two  *)
(* maps have a lock each; an action is what happens under one of them.     *)
(* Receivers are calls of receive_message by the agent's page and by the   *)
(* collaborate tool, which both wait for 0 seconds; that is one tick of    *)
(* tokio's timer, and long enough for a message to be handed over.         *)
(*                                                                         *)
(* A message is sent once its sender has been found to be related to the   *)
(* receiver (can_communicate); who may send is left to the module that     *)
(* extends this one.                                                       *)
(***************************************************************************)
EXTENDS Sequences, FiniteSets

CONSTANTS
  Agents, Messages,
  Receivers,  \* calls of receive_message that may be under way at a time
  Nothing     \* no waiter, no message

ASSUME NothingAssumption == Nothing \notin Receivers \cup Messages \cup Agents

VARIABLES
  mailbox,   \* the messages pushed for each agent
  waiter,    \* the receiver whose channel waits for a message to an agent
  receiver,  \* where each receiver is, its agent, and what is in its channel
  message,   \* where each message is, and its addressee
  read       \* the messages each agent has been given, by any receiver

mailVars == <<mailbox, waiter, receiver, message, read>>

Returned == [pc |-> "idle", agent |-> Nothing, slot |-> Nothing, closed |-> FALSE]
Unsent   == [pc |-> "new", to |-> Nothing]

MailInit ==
  /\ mailbox = [a \in Agents |-> <<>>]
  /\ waiter = [a \in Agents |-> Nothing]
  /\ receiver = [r \in Receivers |-> Returned]
  /\ message = [m \in Messages |-> Unsent]
  /\ read = [a \in Agents |-> {}]

-----------------------------------------------------------------------------
(* send_message                                                            *)

Accept(m, a) ==
  /\ message[m].pc = "new"
  /\ message' = [message EXCEPT ![m] = [pc |-> "sending", to |-> a]]
  /\ UNCHANGED <<mailbox, waiter, receiver, read>>

\* The waiter is removed and given the message; that its receiver has gone is
\* not noticed.
HandOver(m) ==
  LET a == message[m].to
      r == waiter[a] IN
  /\ message[m].pc = "sending" /\ r # Nothing
  /\ waiter' = [waiter EXCEPT ![a] = Nothing]
  /\ IF receiver[r].pc = "waiting"
       THEN /\ receiver' = [receiver EXCEPT ![r].slot = m]
            /\ message' = [message EXCEPT ![m].pc = "sent"]
       ELSE /\ message' = [message EXCEPT ![m].pc = "lost"]
            /\ UNCHANGED receiver
  /\ UNCHANGED <<mailbox, read>>

\* Mutant: the message is pushed and handed over.
NoWaiterPush(m) ==
  LET a == message[m].to IN
  /\ message[m].pc = "sending" /\ waiter[a] = Nothing
  /\ mailbox' = [mailbox EXCEPT ![a] = Append(@, m)]
  /\ message' = [message EXCEPT ![m].pc = "pushing"]
  /\ UNCHANGED <<waiter, receiver, read>>

NoWaiter(m) ==
  /\ message[m].pc = "sending" /\ waiter[message[m].to] = Nothing
  /\ message' = [message EXCEPT ![m].pc = "pushing"]
  /\ UNCHANGED <<mailbox, waiter, receiver, read>>

Push(m) ==
  LET a == message[m].to IN
  /\ message[m].pc = "pushing"
  /\ mailbox' = [mailbox EXCEPT ![a] = Append(@, m)]
  /\ message' = [message EXCEPT ![m].pc = "sent"]
  /\ UNCHANGED <<waiter, receiver, read>>

-----------------------------------------------------------------------------
(* receive_message                                                         *)

\* A channel whose sender is dropped is closed.
Dropped(q, receivers) ==
  IF q = Nothing THEN receivers ELSE [receivers EXCEPT ![q].closed = TRUE]

Give(m, a) == read' = [read EXCEPT ![a] = @ \cup {m}]

TakeFirst(r, a) ==
  /\ receiver[r].pc = "idle" /\ mailbox[a] # <<>>
  /\ Give(Head(mailbox[a]), a)
  /\ mailbox' = [mailbox EXCEPT ![a] = Tail(@)]
  /\ UNCHANGED <<waiter, receiver, message>>

FindEmpty(r, a) ==
  /\ receiver[r].pc = "idle" /\ mailbox[a] = <<>>
  /\ receiver' = [receiver EXCEPT ![r] = [Returned EXCEPT !.pc = "looked", !.agent = a]]
  /\ UNCHANGED <<mailbox, waiter, message, read>>

\* A waiter that is there already is replaced.
Register(r) ==
  LET a == receiver[r].agent IN
  /\ receiver[r].pc = "looked"
  /\ waiter' = [waiter EXCEPT ![a] = r]
  /\ receiver' = Dropped(waiter[a], [receiver EXCEPT ![r].pc = "waiting"])
  /\ UNCHANGED <<mailbox, message, read>>

Answered(r) ==
  /\ receiver[r].pc = "waiting" /\ receiver[r].slot # Nothing
  /\ Give(receiver[r].slot, receiver[r].agent)
  /\ receiver' = [receiver EXCEPT ![r] = Returned]
  /\ UNCHANGED <<mailbox, waiter, message>>

Closed(r) ==
  /\ receiver[r].pc = "waiting" /\ receiver[r].slot = Nothing /\ receiver[r].closed
  /\ receiver' = [receiver EXCEPT ![r] = Returned]
  /\ UNCHANGED <<mailbox, waiter, message, read>>

TimeOut(r) ==
  /\ receiver[r].pc = "waiting" /\ receiver[r].slot = Nothing /\ ~receiver[r].closed
  /\ receiver' = [receiver EXCEPT ![r].pc = "expired"]
  /\ UNCHANGED <<mailbox, waiter, message, read>>

\* Whoever waits for this agent by now is removed.
RemoveWaiter(r) ==
  LET a == receiver[r].agent IN
  /\ receiver[r].pc = "expired"
  /\ waiter' = [waiter EXCEPT ![a] = Nothing]
  /\ receiver' = [Dropped(waiter[a], receiver) EXCEPT ![r] = Returned]
  /\ UNCHANGED <<mailbox, message, read>>

-----------------------------------------------------------------------------

\* Nothing of it is kept when the process ends.
MailLost ==
  /\ mailbox' = [a \in Agents |-> <<>>]
  /\ waiter' = [a \in Agents |-> Nothing]
  /\ receiver' = [r \in Receivers |-> Returned]
  /\ message' = [m \in Messages |->
                   IF message[m].pc = "new" THEN Unsent ELSE [message[m] EXCEPT !.pc = "lost"]]
  /\ UNCHANGED read

Sending(m) == HandOver(m) \/ NoWaiter(m) \/ Push(m)

Receiving(r) ==
  \/ \E a \in Agents : TakeFirst(r, a) \/ FindEmpty(r, a)
  \/ Register(r) \/ Answered(r) \/ Closed(r) \/ TimeOut(r) \/ RemoveWaiter(r)

MailNext == (\E m \in Messages : Sending(m)) \/ \E r \in Receivers : Receiving(r)

-----------------------------------------------------------------------------
(* properties                                                              *)

MailTypeOK ==
  /\ mailbox \in [Agents -> Seq(Messages)]
  /\ waiter \in [Agents -> Receivers \cup {Nothing}]
  /\ receiver \in [Receivers -> [pc : {"idle", "looked", "waiting", "expired"},
                                 agent : Agents \cup {Nothing},
                                 slot : Messages \cup {Nothing}, closed : BOOLEAN]]
  /\ message \in [Messages -> [pc : {"new", "sending", "pushing", "sent", "lost"},
                               to : Agents \cup {Nothing}]]
  /\ read \in [Agents -> SUBSET Messages]

\* The mailboxes keep their promise: a message is given to one receiver of its
\* addressee at most, and only loss takes it away otherwise.
InBox(a) ==
  {m \in Messages : \/ message[m].to = a /\ message[m].pc \in {"sending", "pushing"}
                    \/ \E i \in DOMAIN mailbox[a] : mailbox[a][i] = m
                    \/ \E r \in Receivers : receiver[r].agent = a /\ receiver[r].slot = m}

Promise == INSTANCE AgentMailbox WITH box <- [a \in Agents |-> InBox(a)]

GivenOnce == Promise!Spec
=============================================================================
