--------------------------- MODULE SubagentsProofs ---------------------------
(***************************************************************************)
(* That the mailboxes of any number of agents keep the promise of          *)
(* AgentMailbox: a message is given once.  A message is in one place at a  *)
(* time - with its sender, in a mailbox, or in a receiver's channel - and  *)
(* a waiter that is handed a message has none yet, since it is removed     *)
(* before its receiver can come back.                                      *)
(***************************************************************************)
EXTENDS Subagents, SequenceTheorems, FiniteSetTheorems, TLAPS

RecordsOfReceivers ==
  [pc : {"idle", "looked", "waiting", "expired"}, agent : Agents \cup {Nothing},
   slot : Messages \cup {Nothing}, closed : BOOLEAN]

Settled(m) == message[m].pc \in {"sent", "lost"}

\* Who waits is on record for one agent, has no message yet and was not dropped.
WaiterInv ==
  \A a \in Agents : waiter[a] # Nothing =>
    /\ receiver[waiter[a]].agent = a /\ receiver[waiter[a]].pc \in {"waiting", "expired"}
    /\ receiver[waiter[a]].slot = Nothing /\ ~receiver[waiter[a]].closed

PlaceInv ==
  /\ \A m \in Messages : message[m].pc # "new" => message[m].to \in Agents
  /\ \A r \in Receivers : receiver[r].pc # "idle" => receiver[r].agent \in Agents
  /\ \A r \in Receivers : receiver[r].slot # Nothing => receiver[r].pc = "waiting"
  /\ \A r \in Receivers : receiver[r].pc = "looked" => ~receiver[r].closed

\* A message in a channel is nowhere else.
SlotInv ==
  \A r \in Receivers : receiver[r].slot # Nothing =>
    /\ Settled(receiver[r].slot)
    /\ \A a \in Agents : receiver[r].slot \notin read[a]
    /\ \A a \in Agents : \A i \in DOMAIN mailbox[a] : mailbox[a][i] # receiver[r].slot
    /\ \A q \in Receivers : receiver[q].slot = receiver[r].slot => q = r

\* A message in a mailbox is nowhere else, and what was read came from one of the two.
BoxInv ==
  /\ \A a \in Agents : \A i \in DOMAIN mailbox[a] :
       /\ Settled(mailbox[a][i])
       /\ \A b \in Agents : mailbox[a][i] \notin read[b]
       /\ \A b \in Agents : \A j \in DOMAIN mailbox[b] :
            mailbox[b][j] = mailbox[a][i] => b = a /\ j = i
  /\ \A a \in Agents : \A m \in read[a] : Settled(m)

MailInv == MailTypeOK /\ WaiterInv /\ PlaceInv /\ SlotInv /\ BoxInv

\* The mailboxes are empty and nobody waits.
LEMMA MailStarts == MailInit => MailInv /\ Promise!Init
<1> SUFFICES ASSUME MailInit PROVE MailInv /\ Promise!Init
  OBVIOUS
<1> USE DEF MailInit, Returned, Unsent
<1>1. MailTypeOK
  BY DEF MailTypeOK
<1>2. WaiterInv /\ PlaceInv /\ SlotInv /\ BoxInv
  BY DEF WaiterInv, PlaceInv, SlotInv, BoxInv
<1>3. \A a \in Agents : InBox(a) = {}
  BY NothingAssumption DEF InBox
<1>. QED
  BY <1>1, <1>2, <1>3 DEF MailInv, Promise!Init

\* A message is accepted, once.
LEMMA Accepts ==
  ASSUME MailInv, NEW m \in Messages, NEW a \in Agents, Accept(m, a)
  PROVE  MailInv' /\ Promise!Deposit(a, m)
<1> USE NothingAssumption
<1>1. /\ UNCHANGED <<mailbox, waiter, receiver, read>> /\ message[m].pc = "new"
      /\ message' = [message EXCEPT ![m] = [pc |-> "sending", to |-> a]]
  BY DEF Accept
<1>2. MailTypeOK'
  BY <1>1 DEF MailInv, MailTypeOK
<1>3. \A n \in Messages : /\ n # m => message'[n] = message[n]
                         /\ message'[m].pc = "sending" /\ message'[m].to = a
  BY <1>1 DEF MailInv, MailTypeOK
<1>4. PlaceInv' /\ WaiterInv'
  BY <1>1, <1>3 DEF MailInv, PlaceInv, WaiterInv
<1>5. ~Settled(m) /\ \A n \in Messages : Settled(n) => Settled(n)'
  BY <1>1, <1>3 DEF Settled
<1>6. SlotInv'
  BY <1>1, <1>5 DEF MailInv, MailTypeOK, SlotInv
<1>7. BoxInv'
  BY <1>1, <1>5 DEF MailInv, MailTypeOK, BoxInv
<1>8. \A b \in Agents : m \notin InBox(b) \cup read[b]
  BY <1>1, <1>5 DEF MailInv, SlotInv, BoxInv, InBox
<1>9. \A b \in Agents : InBox(b)' = IF b = a THEN InBox(b) \cup {m} ELSE InBox(b)
  BY <1>1, <1>3, <1>8 DEF InBox
<1>. QED
  BY <1>1, <1>2, <1>4, <1>6, <1>7, <1>8, <1>9 DEF MailInv, Promise!Deposit, Promise!Known

\* A receiver that moves leaves the channels as they are.
LEMMA SameSlots ==
  ASSUME MailInv, MailTypeOK', WaiterInv', UNCHANGED <<mailbox, message, read>>,
         \A q \in Receivers : receiver'[q].slot = receiver[q].slot,
         \A q \in Receivers : receiver[q].slot # Nothing =>
           receiver'[q].agent = receiver[q].agent /\ receiver'[q].pc = "waiting",
         \A q \in Receivers : receiver'[q].pc # "idle" => receiver'[q].agent \in Agents,
         \A q \in Receivers : receiver'[q].pc = "looked" => ~receiver'[q].closed
  PROVE  MailInv' /\ UNCHANGED <<[a \in Agents |-> InBox(a)], read>>
<1>1. PlaceInv' /\ SlotInv' /\ BoxInv'
  BY DEF MailInv, PlaceInv, SlotInv, BoxInv, Settled
<1>2. \A a \in Agents : InBox(a)' = InBox(a)
  BY NothingAssumption DEF InBox
<1>. QED
  BY <1>1, <1>2 DEF MailInv

\* A receiver that is dropped keeps its place and its channel.
LEMMA Drops ==
  ASSUME NEW f \in [Receivers -> RecordsOfReceivers], NEW q \in Receivers \cup {Nothing}
  PROVE  /\ Dropped(q, f) \in [Receivers -> RecordsOfReceivers]
         /\ \A p \in Receivers : /\ Dropped(q, f)[p].pc = f[p].pc
                                 /\ Dropped(q, f)[p].agent = f[p].agent
                                 /\ Dropped(q, f)[p].slot = f[p].slot
                                 /\ p # q => Dropped(q, f)[p] = f[p]
<1>1. CASE q = Nothing
  BY <1>1 DEF Dropped
<1>2. CASE q # Nothing
  BY <1>2 DEF Dropped, RecordsOfReceivers
<1>. QED
  BY <1>1, <1>2

\* A receiver finds nothing, registers, is dropped, gives up or tidies up.
LEMMA Moves ==
  ASSUME MailInv, NEW r \in Receivers,
         \/ \E a \in Agents : FindEmpty(r, a)
         \/ Register(r) \/ Closed(r) \/ TimeOut(r) \/ RemoveWaiter(r)
  PROVE  MailInv' /\ UNCHANGED <<[a \in Agents |-> InBox(a)], read>>
<1> USE NothingAssumption
<1>1. receiver[r].slot = Nothing
  BY DEF MailInv, PlaceInv, FindEmpty, Register, Closed, TimeOut, RemoveWaiter
<1>2. \A q \in Receivers : receiver[q].pc # "idle" => receiver[q].agent \in Agents
  BY DEF MailInv, PlaceInv
<1>3. \A q \in Receivers : /\ receiver[q].slot # Nothing => receiver[q].pc = "waiting"
                           /\ receiver[q].pc = "looked" => ~receiver[q].closed
  BY DEF MailInv, PlaceInv
<1>4. ASSUME NEW a \in Agents, FindEmpty(r, a) PROVE MailInv' /\ UNCHANGED <<[b \in Agents |-> InBox(b)], read>>
  <2>1. MailTypeOK'
    BY <1>4 DEF FindEmpty, Returned, MailInv, MailTypeOK
  <2>2. /\ \A q \in Receivers : q # r => receiver'[q] = receiver[q]
        /\ receiver'[r].slot = Nothing /\ receiver'[r].agent = a /\ ~receiver'[r].closed
    BY <1>4 DEF FindEmpty, Returned, MailInv, MailTypeOK
  <2>3. WaiterInv'
    <3>1. waiter' = waiter /\ receiver[r].pc = "idle"
      BY <1>4 DEF FindEmpty
    <3>2. \A b \in Agents : waiter[b] # Nothing => waiter[b] \in Receivers /\ waiter[b] # r
      BY <3>1 DEF MailInv, MailTypeOK, WaiterInv
    <3>. QED
      BY <2>2, <3>1, <3>2 DEF MailInv, WaiterInv
  <2>. QED
    BY <1>1, <1>2, <1>3, <1>4, <2>1, <2>2, <2>3, SameSlots DEF FindEmpty
<1>5. CASE Register(r)
  <2> DEFINE to == [receiver EXCEPT ![r].pc = "waiting"]
  <2>0. to = [receiver EXCEPT ![r].pc = "waiting"]
    OBVIOUS
  <2>1. PICK a \in Agents :
          /\ receiver[r].agent = a /\ receiver[r].pc = "looked" /\ waiter' = [waiter EXCEPT ![a] = r]
          /\ receiver' = Dropped(waiter[a], to)
          /\ UNCHANGED <<mailbox, message, read>>
    BY <1>2, <1>5 DEF Register
  <2> HIDE DEF to
  <2>2. \A b \in Agents : waiter[b] # Nothing =>
          /\ waiter[b] \in Receivers /\ waiter[b] # r /\ receiver[waiter[b]].pc # "looked"
          /\ b # a => waiter[b] # waiter[a]
    BY <2>1 DEF MailInv, MailTypeOK, WaiterInv
  <2>3. /\ to \in [Receivers -> RecordsOfReceivers]
        /\ \A q \in Receivers : q # r => to[q] = receiver[q]
        /\ to[r].pc = "waiting" /\ to[r].agent = a /\ to[r].slot = Nothing
        /\ ~to[r].closed
    <3>1. receiver \in [Receivers -> RecordsOfReceivers] /\ ~receiver[r].closed
      BY <1>3, <2>1 DEF MailInv, MailTypeOK, RecordsOfReceivers
    <3>. QED
      BY <1>1, <2>0, <2>1, <3>1 DEF RecordsOfReceivers
  <2>4. /\ receiver' \in [Receivers -> RecordsOfReceivers]
        /\ \A q \in Receivers : /\ receiver'[q].pc = to[q].pc
                                /\ receiver'[q].agent = to[q].agent
                                /\ receiver'[q].slot = to[q].slot
                                /\ q # waiter[a] => receiver'[q] = to[q]
    <3>1. waiter[a] \in Receivers \cup {Nothing}
      BY DEF MailInv, MailTypeOK
    <3>2. /\ Dropped(waiter[a], to) \in [Receivers -> RecordsOfReceivers]
          /\ \A q \in Receivers : /\ Dropped(waiter[a], to)[q].pc = to[q].pc
                                  /\ Dropped(waiter[a], to)[q].agent = to[q].agent
                                  /\ Dropped(waiter[a], to)[q].slot = to[q].slot
                                  /\ q # waiter[a] => Dropped(waiter[a], to)[q] = to[q]
      BY <2>3, <3>1, Drops
    <3>. QED
      BY <2>1, <3>2
  <2>5. waiter' \in [Agents -> Receivers \cup {Nothing}]
        /\ \A b \in Agents : waiter'[b] = IF b = a THEN r ELSE waiter[b]
    BY <2>1 DEF MailInv, MailTypeOK
  <2>6. MailTypeOK'
    BY <2>1, <2>4, <2>5 DEF MailInv, MailTypeOK, RecordsOfReceivers
  <2>7. receiver'[r] = to[r]
    BY <2>2, <2>4
  <2>8. WaiterInv'
    BY <2>2, <2>3, <2>4, <2>5, <2>7 DEF MailInv, WaiterInv
  <2>9. \A q \in Receivers : receiver'[q].pc = "looked" => ~receiver'[q].closed
    BY <1>3, <2>2, <2>3, <2>4, <2>7
  <2>10. \A q \in Receivers :
           /\ receiver'[q].slot = receiver[q].slot
           /\ receiver[q].slot # Nothing =>
                receiver'[q].agent = receiver[q].agent /\ receiver'[q].pc = "waiting"
           /\ receiver'[q].pc # "idle" => receiver'[q].agent \in Agents
    <3>1. ASSUME NEW q \in Receivers, q # r
          PROVE  /\ receiver'[q].slot = receiver[q].slot /\ receiver'[q].agent = receiver[q].agent
                 /\ receiver'[q].pc = receiver[q].pc
      BY <2>3, <2>4, <3>1
    <3>2. receiver'[r].slot = receiver[r].slot /\ receiver[r].slot = Nothing /\ receiver'[r].agent = a
      BY <1>1, <2>3, <2>7
    <3>. QED
      BY <1>2, <1>3, <3>1, <3>2
  <2>. QED
    BY <2>1, <2>6, <2>8, <2>9, <2>10, SameSlots
<1>6. CASE Closed(r)
  <2>1. MailTypeOK'
    BY <1>6 DEF Closed, Returned, MailInv, MailTypeOK
  <2>2. /\ \A q \in Receivers : q # r => receiver'[q] = receiver[q]
        /\ receiver'[r].slot = Nothing /\ receiver'[r].pc = "idle"
        /\ receiver[r].closed
    BY <1>6 DEF Closed, Returned, MailInv, MailTypeOK
  <2>3. WaiterInv'
    BY <1>6, <2>2 DEF Closed, MailInv, MailTypeOK, WaiterInv
  <2>. QED
    BY <1>1, <1>2, <1>3, <1>6, <2>1, <2>2, <2>3, SameSlots DEF Closed
<1>7. CASE TimeOut(r)
  <2>1. MailTypeOK'
    <3>1. receiver' = [receiver EXCEPT ![r].pc = "expired"] /\ UNCHANGED <<mailbox, waiter, message, read>>
      BY <1>7 DEF TimeOut
    <3>2. receiver' \in [Receivers -> RecordsOfReceivers]
      BY <3>1 DEF MailInv, MailTypeOK, RecordsOfReceivers
    <3>. QED
      BY <3>1, <3>2 DEF MailInv, MailTypeOK, RecordsOfReceivers
  <2>2. /\ \A q \in Receivers : q # r => receiver'[q] = receiver[q]
        /\ receiver'[r].slot = Nothing /\ receiver'[r].pc = "expired"
        /\ receiver'[r].agent = receiver[r].agent /\ receiver'[r].closed = receiver[r].closed
    <3>1. receiver' = [receiver EXCEPT ![r].pc = "expired"]
      BY <1>7 DEF TimeOut
    <3>. QED
      BY <1>1, <3>1 DEF MailInv, MailTypeOK
  <2>3. WaiterInv'
    BY <1>7, <2>2 DEF TimeOut, MailInv, MailTypeOK, WaiterInv
  <2>. QED
    BY <1>1, <1>2, <1>3, <1>7, <2>1, <2>2, <2>3, SameSlots DEF TimeOut
<1>8. CASE RemoveWaiter(r)
  <2>0. PICK a \in Agents :
          /\ receiver[r].agent = a /\ receiver[r].pc = "expired" /\ waiter' = [waiter EXCEPT ![a] = Nothing]
          /\ receiver' = [Dropped(waiter[a], receiver) EXCEPT ![r] = Returned]
          /\ UNCHANGED <<mailbox, message, read>>
    BY <1>2, <1>8 DEF RemoveWaiter
  <2>1. PICK to :
          /\ receiver[r].agent = a /\ receiver[r].pc = "expired" /\ waiter' = [waiter EXCEPT ![a] = Nothing]
          /\ to = Dropped(waiter[a], receiver) /\ receiver' = [to EXCEPT ![r] = Returned]
          /\ UNCHANGED <<mailbox, message, read>>
    BY <2>0
  <2>2. \A b \in Agents : waiter[b] # Nothing =>
          /\ waiter[b] \in Receivers /\ receiver[waiter[b]].pc # "looked"
          /\ b # a => waiter[b] # waiter[a] /\ waiter[b] # r
    <3>1. \A b \in Agents : waiter[b] # Nothing =>
            /\ waiter[b] \in Receivers /\ receiver[waiter[b]].agent = b
            /\ receiver[waiter[b]].pc \in {"waiting", "expired"}
      BY DEF MailInv, MailTypeOK, WaiterInv
    <3>. QED
      BY <2>1, <3>1
  <2>3. /\ to \in [Receivers -> RecordsOfReceivers]
        /\ \A q \in Receivers : /\ to[q].pc = receiver[q].pc
                                /\ to[q].agent = receiver[q].agent
                                /\ to[q].slot = receiver[q].slot
                                /\ q # waiter[a] => to[q] = receiver[q]
    <3>1. waiter[a] \in Receivers \cup {Nothing} /\ receiver \in [Receivers -> RecordsOfReceivers]
      BY DEF MailInv, MailTypeOK, RecordsOfReceivers
    <3>. QED
      BY <2>1, <3>1, Drops
  <2>4. /\ receiver' \in [Receivers -> RecordsOfReceivers]
        /\ \A q \in Receivers : q # r => receiver'[q] = to[q]
        /\ receiver'[r].pc = "idle" /\ receiver'[r].slot = Nothing
    BY <2>1, <2>3 DEF Returned, RecordsOfReceivers
  <2>5. waiter' \in [Agents -> Receivers \cup {Nothing}]
        /\ \A b \in Agents : waiter'[b] = IF b = a THEN Nothing ELSE waiter[b]
    BY <2>1 DEF MailInv, MailTypeOK
  <2>6. MailTypeOK'
    BY <2>1, <2>4, <2>5 DEF MailInv, MailTypeOK, RecordsOfReceivers
  <2>7. WaiterInv'
    BY <2>2, <2>3, <2>4, <2>5 DEF MailInv, WaiterInv
  <2>8. \A q \in Receivers : receiver'[q].pc = "looked" => ~receiver'[q].closed
    BY <1>3, <2>2, <2>3, <2>4
  <2>. QED
    BY <1>1, <1>2, <1>3, <2>1, <2>3, <2>4, <2>6, <2>7, <2>8, SameSlots
<1>. QED
  BY <1>4, <1>5, <1>6, <1>7, <1>8

\* A sender finds no waiter: it is about to push.
LEMMA FindsNoWaiter ==
  ASSUME MailInv, NEW m \in Messages, NoWaiter(m)
  PROVE  MailInv' /\ UNCHANGED <<[a \in Agents |-> InBox(a)], read>>
<1>1. /\ UNCHANGED <<mailbox, waiter, receiver, read>> /\ message[m].pc = "sending"
      /\ message' = [message EXCEPT ![m].pc = "pushing"]
  BY DEF NoWaiter
<1>2. MailTypeOK'
  BY <1>1 DEF MailInv, MailTypeOK
<1>3. /\ \A n \in Messages : n # m => message'[n] = message[n]
      /\ message'[m].pc = "pushing" /\ message'[m].to = message[m].to
  BY <1>1 DEF MailInv, MailTypeOK
<1>4. \A n \in Messages : Settled(n)' <=> Settled(n)
  BY <1>1, <1>3 DEF Settled
<1>5. PlaceInv' /\ WaiterInv'
  BY <1>1, <1>3 DEF MailInv, PlaceInv, WaiterInv
<1>6. SlotInv' /\ BoxInv'
  BY <1>1, <1>4 DEF MailInv, MailTypeOK, SlotInv, BoxInv
<1>7. \A a \in Agents : InBox(a)' = InBox(a)
  BY <1>1, <1>3 DEF InBox
<1>. QED
  BY <1>1, <1>2, <1>5, <1>6, <1>7 DEF MailInv

\* A message goes into the mailbox, at the end.
LEMMA Pushes ==
  ASSUME MailInv, NEW m \in Messages, Push(m)
  PROVE  MailInv' /\ UNCHANGED <<[a \in Agents |-> InBox(a)], read>>
<1>1. PICK a \in Agents :
        /\ message[m].to = a /\ message[m].pc = "pushing" /\ UNCHANGED <<waiter, receiver, read>>
        /\ mailbox' = [mailbox EXCEPT ![a] = Append(@, m)]
        /\ message' = [message EXCEPT ![m].pc = "sent"]
  BY DEF Push, MailInv, PlaceInv
<1>2. /\ mailbox[a] \in Seq(Messages) /\ Append(mailbox[a], m) \in Seq(Messages)
      /\ DOMAIN Append(mailbox[a], m) = 1..Len(mailbox[a]) + 1
      /\ DOMAIN mailbox[a] = 1..Len(mailbox[a]) /\ Len(mailbox[a]) \in Nat
      /\ \A i \in 1..Len(mailbox[a]) : Append(mailbox[a], m)[i] = mailbox[a][i]
      /\ Append(mailbox[a], m)[Len(mailbox[a]) + 1] = m
  BY DEF MailInv, MailTypeOK
<1>3. MailTypeOK'
  BY <1>1, <1>2 DEF MailInv, MailTypeOK
<1>4. \A b \in Agents : mailbox'[b] = IF b = a THEN Append(mailbox[a], m) ELSE mailbox[b]
  BY <1>1 DEF MailInv, MailTypeOK
<1>5. /\ \A n \in Messages : n # m => message'[n] = message[n]
      /\ message'[m].pc = "sent" /\ message'[m].to = a
  BY <1>1 DEF MailInv, MailTypeOK
<1>6. ~Settled(m) /\ Settled(m)' /\ \A n \in Messages : Settled(n) => Settled(n)'
  BY <1>1, <1>5 DEF Settled
<1>7. /\ \A r \in Receivers : receiver[r].slot # m
      /\ \A b \in Agents : m \notin read[b] /\ \A i \in DOMAIN mailbox[b] : mailbox[b][i] # m
  BY <1>6, NothingAssumption DEF MailInv, SlotInv, BoxInv
<1>8. PlaceInv' /\ WaiterInv'
  BY <1>1, <1>5 DEF MailInv, PlaceInv, WaiterInv
<1>9. \A r \in Receivers : receiver[r].slot \in Messages \cup {Nothing}
  BY DEF MailInv, MailTypeOK
<1>10. \A b \in Agents : \A i \in DOMAIN mailbox'[b] :
         \/ b = a /\ i = Len(mailbox[a]) + 1 /\ mailbox'[b][i] = m
         \/ i \in DOMAIN mailbox[b] /\ mailbox'[b][i] = mailbox[b][i]
  <2>1. \A i \in DOMAIN Append(mailbox[a], m) :
          \/ i = Len(mailbox[a]) + 1 /\ Append(mailbox[a], m)[i] = m
          \/ i \in DOMAIN mailbox[a] /\ Append(mailbox[a], m)[i] = mailbox[a][i]
    BY <1>2
  <2>. QED
    BY <1>4, <2>1
<1>11. SlotInv'
  BY <1>1, <1>6, <1>7, <1>9, <1>10 DEF MailInv, SlotInv
<1>12. \A b \in Agents : \A i \in DOMAIN mailbox[b] : mailbox[b][i] \in Messages
  BY DEF MailInv, MailTypeOK
<1>13. BoxInv'
  <2>1. \A b \in Agents : \A n \in read[b] : n \in Messages
    BY DEF MailInv, MailTypeOK
  <2>2. \A b \in Agents : \A i \in DOMAIN mailbox[b] :
          /\ Settled(mailbox[b][i])
          /\ \A c \in Agents : mailbox[b][i] \notin read[c]
          /\ \A c \in Agents : \A j \in DOMAIN mailbox[c] :
               mailbox[c][j] = mailbox[b][i] => c = b /\ j = i
    BY DEF MailInv, BoxInv
  <2>3. \A b \in Agents : \A n \in read[b] : Settled(n)
    BY DEF MailInv, BoxInv
  <2>. QED
    BY <1>1, <1>6, <1>7, <1>10, <1>12, <2>1, <2>2, <2>3 DEF BoxInv
<1>14. \A b \in Agents : \A n \in Messages :
         (\E i \in DOMAIN mailbox'[b] : mailbox'[b][i] = n)
           <=> (b = a /\ n = m) \/ \E i \in DOMAIN mailbox[b] : mailbox[b][i] = n
  <2>1. ASSUME NEW n \in Messages
        PROVE  (\E i \in DOMAIN Append(mailbox[a], m) : Append(mailbox[a], m)[i] = n)
                 <=> n = m \/ \E i \in DOMAIN mailbox[a] : mailbox[a][i] = n
    <3>1. /\ Len(mailbox[a]) + 1 \in DOMAIN Append(mailbox[a], m)
          /\ \A i \in DOMAIN mailbox[a] : i \in DOMAIN Append(mailbox[a], m)
      BY <1>2
    <3>2. \A i \in DOMAIN Append(mailbox[a], m) : i \in DOMAIN mailbox[a] \/ i = Len(mailbox[a]) + 1
      BY <1>2
    <3>. QED
      BY <1>2, <3>1, <3>2
  <2>. QED
    BY <1>4, <2>1
<1>15. \A b \in Agents : InBox(b)' = InBox(b)
  BY <1>1, <1>5, <1>14 DEF InBox
<1>. QED
  BY <1>1, <1>3, <1>8, <1>11, <1>13, <1>15 DEF MailInv

\* A message is handed to the receiver that waits, or is lost with one that has
\* stopped waiting.
LEMMA HandsOver ==
  ASSUME MailInv, NEW m \in Messages, HandOver(m)
  PROVE  MailInv' /\ (UNCHANGED <<[a \in Agents |-> InBox(a)], read>> \/ Promise!Lose({m}))
<1> USE NothingAssumption
<1>1. PICK a \in Agents, r \in Receivers :
        /\ message[m].to = a /\ waiter[a] = r /\ r # Nothing /\ message[m].pc = "sending"
        /\ waiter' = [waiter EXCEPT ![a] = Nothing] /\ UNCHANGED <<mailbox, read>>
        /\ \/ /\ receiver[r].pc = "waiting"
              /\ receiver' = [receiver EXCEPT ![r].slot = m]
              /\ message' = [message EXCEPT ![m].pc = "sent"]
           \/ message' = [message EXCEPT ![m].pc = "lost"] /\ receiver' = receiver
  <2>1. /\ message[m].pc = "sending" /\ waiter[message[m].to] # Nothing
        /\ waiter' = [waiter EXCEPT ![message[m].to] = Nothing] /\ UNCHANGED <<mailbox, read>>
    BY DEF HandOver
  <2>2. message[m].to \in Agents /\ waiter[message[m].to] \in Receivers
    BY <2>1 DEF MailInv, MailTypeOK, PlaceInv
  <2>3. \/ /\ receiver[waiter[message[m].to]].pc = "waiting"
           /\ receiver' = [receiver EXCEPT ![waiter[message[m].to]].slot = m]
           /\ message' = [message EXCEPT ![m].pc = "sent"]
        \/ message' = [message EXCEPT ![m].pc = "lost"] /\ receiver' = receiver
    BY DEF HandOver
  <2>. QED
    BY <2>1, <2>2, <2>3
<1>2. /\ message' \in [Messages -> [pc : {"new", "sending", "pushing", "sent", "lost"},
                                    to : Agents \cup {Nothing}]]
      /\ \A n \in Messages : n # m => message'[n] = message[n]
      /\ message'[m].pc \in {"sent", "lost"} /\ message'[m].to = a
  BY <1>1 DEF MailInv, MailTypeOK
<1>3. ~Settled(m) /\ Settled(m)' /\ \A n \in Messages : Settled(n) => Settled(n)'
  BY <1>1, <1>2 DEF Settled
<1>4. /\ \A q \in Receivers : receiver[q].slot # m
      /\ \A b \in Agents : m \notin read[b] /\ \A i \in DOMAIN mailbox[b] : mailbox[b][i] # m
  BY <1>3 DEF MailInv, SlotInv, BoxInv
<1>5. /\ waiter' \in [Agents -> Receivers \cup {Nothing}]
      /\ \A b \in Agents : waiter'[b] = IF b = a THEN Nothing ELSE waiter[b]
      /\ \A b \in Agents : b # a => waiter[b] # r
  BY <1>1 DEF MailInv, MailTypeOK, WaiterInv
<1>6. \A b \in Agents : \A i \in DOMAIN mailbox[b] : mailbox[b][i] \in Messages
  BY DEF MailInv, MailTypeOK
<1>7. BoxInv'
  <2>1. \A b \in Agents : \A n \in read[b] : n \in Messages
    BY DEF MailInv, MailTypeOK
  <2>. QED
    BY <1>1, <1>3, <1>6, <2>1 DEF MailInv, BoxInv
<1>8. \A q \in Receivers : receiver[q].slot \in Messages \cup {Nothing}
  BY DEF MailInv, MailTypeOK
<1>9. CASE receiver' = receiver /\ message' = [message EXCEPT ![m].pc = "lost"]
  <2>1. MailTypeOK'
    BY <1>1, <1>2, <1>5, <1>9 DEF MailInv, MailTypeOK
  <2>2. WaiterInv' /\ PlaceInv'
    BY <1>1, <1>2, <1>5, <1>9 DEF MailInv, WaiterInv, PlaceInv
  <2>3. SlotInv'
    BY <1>1, <1>3, <1>8, <1>9 DEF MailInv, SlotInv
  <2>4. message'[m].pc = "lost"
    BY <1>9 DEF MailInv, MailTypeOK
  <2>5. \A b \in Agents : InBox(b)' = InBox(b) \ {m}
    BY <1>1, <1>2, <1>4, <1>9, <2>4 DEF InBox
  <2>. QED
    BY <1>1, <1>7, <2>1, <2>2, <2>3, <2>5 DEF MailInv, Promise!Lose
<1>10. CASE /\ receiver[r].pc = "waiting" /\ receiver' = [receiver EXCEPT ![r].slot = m]
            /\ message' = [message EXCEPT ![m].pc = "sent"]
  <2>1. /\ receiver' \in [Receivers -> RecordsOfReceivers]
        /\ \A q \in Receivers : q # r => receiver'[q] = receiver[q]
        /\ receiver'[r].slot = m /\ receiver'[r].pc = "waiting" /\ receiver'[r].agent = receiver[r].agent
    <3>1. receiver \in [Receivers -> RecordsOfReceivers]
      BY DEF MailInv, MailTypeOK, RecordsOfReceivers
    <3>. QED
      BY <1>10, <3>1 DEF RecordsOfReceivers
  <2>2. receiver[r].agent = a /\ receiver[r].slot = Nothing
    BY <1>1 DEF MailInv, WaiterInv
  <2>3. MailTypeOK'
    BY <1>1, <1>2, <1>5, <2>1 DEF MailInv, MailTypeOK, RecordsOfReceivers
  <2>4. WaiterInv'
    <3>1. \A b \in Agents : waiter[b] \in Receivers \cup {Nothing}
      BY DEF MailInv, MailTypeOK
    <3>. QED
      BY <1>5, <2>1, <3>1 DEF MailInv, WaiterInv
  <2>5. PlaceInv'
    BY <1>2, <2>1, <2>2 DEF MailInv, PlaceInv
  <2>6. SlotInv'
    BY <1>1, <1>3, <1>4, <1>8, <2>1 DEF MailInv, SlotInv
  <2>7. message'[m].pc = "sent"
    BY <1>10 DEF MailInv, MailTypeOK
  <2>8. \A b \in Agents : \A n \in Messages :
          (\E q \in Receivers : receiver'[q].agent = b /\ receiver'[q].slot = n)
            <=> \/ b = a /\ n = m
                \/ \E q \in Receivers : receiver[q].agent = b /\ receiver[q].slot = n
    BY <2>1, <2>2
  <2>9. \A b \in Agents : InBox(b)' = InBox(b)
    BY <1>1, <1>2, <2>7, <2>8 DEF InBox
  <2>. QED
    BY <1>1, <1>7, <2>3, <2>4, <2>5, <2>6, <2>9 DEF MailInv
<1>. QED
  BY <1>1, <1>9, <1>10

\* A receiver has been handed a message and returns it.
LEMMA ReadsChannel ==
  ASSUME MailInv, NEW r \in Receivers, Answered(r)
  PROVE  MailInv' /\ \E a \in Agents, m \in Messages : Promise!Read(a, m)
<1> USE NothingAssumption
<1>1. PICK a \in Agents, m \in Messages :
        /\ receiver[r].agent = a /\ receiver[r].slot = m /\ receiver[r].pc = "waiting"
        /\ read' = [read EXCEPT ![a] = @ \cup {m}]
        /\ receiver' = [receiver EXCEPT ![r] = Returned]
        /\ UNCHANGED <<mailbox, waiter, message>>
  BY DEF Answered, Give, MailInv, MailTypeOK, PlaceInv
<1>2. /\ receiver' \in [Receivers -> RecordsOfReceivers]
      /\ \A q \in Receivers : q # r => receiver'[q] = receiver[q]
      /\ receiver'[r].slot = Nothing /\ receiver'[r].pc = "idle"
  BY <1>1 DEF Returned, MailInv, MailTypeOK, RecordsOfReceivers
<1>3. /\ read' \in [Agents -> SUBSET Messages]
      /\ \A b \in Agents : read'[b] = IF b = a THEN read[b] \cup {m} ELSE read[b]
  BY <1>1 DEF MailInv, MailTypeOK
<1>4. /\ Settled(m)
      /\ \A b \in Agents : m \notin read[b] /\ \A i \in DOMAIN mailbox[b] : mailbox[b][i] # m
      /\ \A q \in Receivers : receiver[q].slot = m => q = r
  BY <1>1 DEF MailInv, SlotInv
<1>5. MailTypeOK'
  BY <1>1, <1>2, <1>3 DEF MailInv, MailTypeOK, RecordsOfReceivers
<1>6. WaiterInv'
  <2>1. \A b \in Agents : waiter[b] # Nothing => waiter[b] \in Receivers /\ waiter[b] # r
    BY <1>1 DEF MailInv, MailTypeOK, WaiterInv
  <2>. QED
    BY <1>1, <1>2, <2>1 DEF MailInv, WaiterInv
<1>7. PlaceInv'
  BY <1>1, <1>2 DEF MailInv, PlaceInv
<1>8. SlotInv'
  BY <1>1, <1>2, <1>3, <1>4 DEF MailInv, SlotInv, Settled
<1>9. BoxInv'
  BY <1>1, <1>3, <1>4 DEF MailInv, BoxInv, Settled
<1>10. \A b \in Agents : InBox(b)' = IF b = a THEN InBox(b) \ {m} ELSE InBox(b)
  <2>1. ~(message[m].pc \in {"sending", "pushing"})
    BY <1>4 DEF Settled
  <2>2. \A b \in Agents : \A n \in Messages :
          (\E q \in Receivers : receiver'[q].agent = b /\ receiver'[q].slot = n)
            <=> ~(b = a /\ n = m) /\ \E q \in Receivers : receiver[q].agent = b /\ receiver[q].slot = n
    BY <1>1, <1>2, <1>4
  <2>. QED
    BY <1>1, <1>4, <2>1, <2>2 DEF InBox
<1>11. m \in InBox(a)
  BY <1>1 DEF InBox
<1>. QED
  BY <1>1, <1>5, <1>6, <1>7, <1>8, <1>9, <1>10, <1>11 DEF MailInv, Promise!Read

\* A receiver finds a message in the mailbox and takes the first.
LEMMA ReadsMailbox ==
  ASSUME MailInv, NEW r \in Receivers, NEW a \in Agents, TakeFirst(r, a)
  PROVE  MailInv' /\ \E m \in Messages : Promise!Read(a, m)
<1> USE NothingAssumption
<1>1. PICK s \in Seq(Messages), m \in Messages :
        /\ mailbox[a] = s /\ s # <<>> /\ m = Head(s)
        /\ read' = [read EXCEPT ![a] = @ \cup {m}]
        /\ mailbox' = [mailbox EXCEPT ![a] = Tail(s)]
        /\ UNCHANGED <<waiter, receiver, message>>
  <2>1. mailbox[a] \in Seq(Messages) /\ mailbox[a] # <<>>
    BY DEF TakeFirst, MailInv, MailTypeOK
  <2>2. Head(mailbox[a]) \in Messages
    BY <2>1, HeadTailProperties
  <2>. QED
    BY <2>1, <2>2 DEF TakeFirst, Give
<1>2. /\ Tail(s) \in Seq(Messages) /\ 1 \in DOMAIN s /\ m = s[1]
      /\ \A i \in DOMAIN Tail(s) : i + 1 \in DOMAIN s /\ i + 1 # 1 /\ Tail(s)[i] = s[i + 1]
      /\ \A i \in DOMAIN s : i # 1 => i - 1 \in DOMAIN Tail(s) /\ Tail(s)[i - 1] = s[i]
  BY <1>1, HeadTailProperties
<1>3. /\ read' \in [Agents -> SUBSET Messages]
      /\ \A b \in Agents : read'[b] = IF b = a THEN read[b] \cup {m} ELSE read[b]
      /\ mailbox' \in [Agents -> Seq(Messages)]
      /\ \A b \in Agents : mailbox'[b] = IF b = a THEN Tail(s) ELSE mailbox[b]
  BY <1>1, <1>2 DEF MailInv, MailTypeOK
<1>4. MailTypeOK' /\ WaiterInv' /\ PlaceInv'
  BY <1>1, <1>3 DEF MailInv, MailTypeOK, WaiterInv, PlaceInv
<1>5. /\ Settled(m)
      /\ \A b \in Agents : m \notin read[b]
      /\ \A b \in Agents : \A j \in DOMAIN mailbox[b] : mailbox[b][j] = m => b = a /\ j = 1
      /\ \A q \in Receivers : receiver[q].slot # m
  BY <1>1, <1>2 DEF MailInv, BoxInv, SlotInv
\* What is left was there before, one place further on.
<1>6. \A b \in Agents : \A i \in DOMAIN mailbox'[b] :
        \E j \in DOMAIN mailbox[b] :
          /\ mailbox[b][j] = mailbox'[b][i] /\ mailbox'[b][i] # m
          /\ j = IF b = a THEN i + 1 ELSE i
  BY <1>1, <1>2, <1>3, <1>5
<1>7. SlotInv'
  BY <1>1, <1>3, <1>5, <1>6 DEF MailInv, SlotInv, Settled
<1>8. BoxInv'
  <2>1. \A b, c \in Agents : \A i \in DOMAIN mailbox'[b], j \in DOMAIN mailbox'[c] :
          mailbox'[c][j] = mailbox'[b][i] => c = b /\ j = i
    <3>1. \A i \in DOMAIN Tail(s) : i \in Nat
      BY <1>2
    <3>. QED
      BY <1>3, <1>6, <3>1 DEF MailInv, BoxInv
  <2>2. \A b, c \in Agents : \A i \in DOMAIN mailbox'[b] :
          message'[mailbox'[b][i]].pc \in {"sent", "lost"} /\ mailbox'[b][i] \notin read'[c]
    <3> SUFFICES ASSUME NEW b \in Agents, NEW c \in Agents, NEW i \in DOMAIN mailbox'[b]
                 PROVE  message[mailbox'[b][i]].pc \in {"sent", "lost"} /\ mailbox'[b][i] \notin read'[c]
      BY <1>1
    <3>1. PICK j \in DOMAIN mailbox[b] : mailbox[b][j] = mailbox'[b][i] /\ mailbox'[b][i] # m
      BY <1>6
    <3>2. Settled(mailbox[b][j]) /\ mailbox[b][j] \notin read[c]
      BY DEF MailInv, BoxInv
    <3>. QED
      BY <1>3, <3>1, <3>2 DEF Settled
  <2>3. \A b \in Agents : \A n \in read'[b] : message'[n].pc \in {"sent", "lost"}
    BY <1>1, <1>3, <1>5 DEF MailInv, BoxInv, Settled
  <2>. QED
    BY <2>1, <2>2, <2>3 DEF BoxInv, Settled
<1>9. \A b \in Agents : \A n \in Messages :
        (\E i \in DOMAIN mailbox'[b] : mailbox'[b][i] = n)
          <=> ~(b = a /\ n = m) /\ \E i \in DOMAIN mailbox[b] : mailbox[b][i] = n
  <2>1. \A n \in Messages : (\E i \in DOMAIN Tail(s) : Tail(s)[i] = n)
                              <=> n # m /\ \E i \in DOMAIN s : s[i] = n
    BY <1>1, <1>2, <1>5
  <2>. QED
    BY <1>1, <1>3, <1>5, <2>1
<1>10. \A b \in Agents : InBox(b)' = IF b = a THEN InBox(b) \ {m} ELSE InBox(b)
  BY <1>1, <1>5, <1>9 DEF InBox, Settled
<1>11. m \in InBox(a)
  BY <1>1, <1>2 DEF InBox
<1>12. Promise!Read(a, m)
  BY <1>1, <1>10, <1>11 DEF Promise!Read
<1>. QED
  BY <1>4, <1>7, <1>8, <1>12 DEF MailInv

\* The process ends: whatever was under way is lost.
LEMMA LosesAll ==
  ASSUME MailInv, MailLost
  PROVE  MailInv' /\ Promise!Lose(Messages)
<1> USE NothingAssumption DEF MailLost, Returned, Unsent
<1>1. MailTypeOK'
  <2>1. message' \in [Messages -> [pc : {"new", "sending", "pushing", "sent", "lost"},
                                   to : Agents \cup {Nothing}]]
    BY DEF MailInv, MailTypeOK
  <2>2. receiver' \in [Receivers -> RecordsOfReceivers]
    BY DEF RecordsOfReceivers
  <2>. QED
    BY <2>1, <2>2 DEF MailInv, MailTypeOK, RecordsOfReceivers
<1>2. \A m \in Messages :
        /\ message'[m].pc \in {"new", "lost"} /\ message[m].pc # "new" => message'[m].pc = "lost"
        /\ message'[m].pc # "new" => message'[m].to \in Agents
  BY DEF MailInv, MailTypeOK, PlaceInv
<1>3. WaiterInv' /\ PlaceInv' /\ SlotInv'
  BY <1>2 DEF WaiterInv, PlaceInv, SlotInv
<1>4. BoxInv'
  BY <1>2 DEF MailInv, MailTypeOK, BoxInv, Settled
<1>5. \A a \in Agents : InBox(a)' = {}
  BY <1>2 DEF InBox
<1>6. \A a \in Agents : InBox(a) \ Messages = {}
  BY DEF InBox
<1>. QED
  BY <1>1, <1>3, <1>4, <1>5, <1>6 DEF MailInv, Promise!Lose

\* Each step keeps the invariant and is one of the promise, or changes nothing of it.
LEMMA MailStep ==
  MailInv /\ [Next]_allVars => MailInv' /\ [Promise!Next]_<<[a \in Agents |-> InBox(a)], read>>
<1> DEFINE Kept == UNCHANGED <<[a \in Agents |-> InBox(a)], read>>
<1> SUFFICES ASSUME MailInv, [Next]_allVars PROVE MailInv' /\ (Promise!Next \/ Kept)
  OBVIOUS
<1>1. CASE UNCHANGED mailVars
  <2>1. UNCHANGED <<mailbox, waiter, receiver, message, read>>
    BY <1>1 DEF mailVars
  <2>. QED
    BY <2>1 DEF MailInv, MailTypeOK, WaiterInv, PlaceInv, SlotInv, BoxInv, Settled, InBox
<1>2. ASSUME NEW r \in Runs, NEW m \in Messages, Tell(r, m) PROVE MailInv' /\ Promise!Next
  BY <1>2, Accepts DEF Tell, Promise!Next
<1>3. CASE Exit
  BY <1>3, LosesAll DEF Exit, Promise!Next
<1>4. ASSUME NEW m \in Messages, Sending(m) PROVE MailInv' /\ (Promise!Next \/ Kept)
  <2>1. CASE HandOver(m)
    BY <2>1, HandsOver DEF Promise!Next
  <2>. QED
    BY <1>4, <2>1, FindsNoWaiter, Pushes DEF Sending
<1>5. ASSUME NEW r \in Receivers, Receiving(r) PROVE MailInv' /\ (Promise!Next \/ Kept)
  <2>1. ASSUME NEW a \in Agents, TakeFirst(r, a) PROVE MailInv' /\ Promise!Next
    BY <2>1, ReadsMailbox DEF Promise!Next
  <2>2. CASE Answered(r)
    BY <2>2, ReadsChannel DEF Promise!Next
  <2>3. CASE \/ \E a \in Agents : FindEmpty(r, a)
             \/ Register(r) \/ Closed(r) \/ TimeOut(r) \/ RemoveWaiter(r)
    BY <2>3, Moves
  <2>. QED
    BY <1>5, <2>1, <2>2, <2>3 DEF Receiving
<1>6. CASE UNCHANGED allVars
  BY <1>1, <1>6 DEF allVars
<1>. QED
  BY <1>1, <1>2, <1>3, <1>4, <1>5, <1>6 DEF Next, MailNext, mailVars

\* send_message and receive_message implement AgentMailbox: a message that was accepted
\* is given to one receiver of its addressee, once, or it is lost, whatever the two maps'
\* separate locks let happen in between.
THEOREM MessagesAreGivenOnce == Spec => GivenOnce
<1>1. Init => MailInv /\ Promise!Init
  BY MailStarts DEF Init
<1>. QED
  BY <1>1, MailStep, PTL DEF Spec, GivenOnce, Promise!Spec

(***************************************************************************)
(* That the rows of subagent_runs, the permits and what delegate_task      *)
(* reports agree, for any number of calls and subtasks.  A call reports    *)
(* when each of its subtasks has ended or panicked, and neither changes    *)
(* its status any more, except that the user may cancel what panicked.     *)
(***************************************************************************)
RunPlaces == {"new", "saved", "queued", "ended", "panicked", "gone"} \cup Working
RunInv ==
  /\ run \in [Runs -> [pc : RunPlaces, outcome : Outcomes \cup {"none"}]]
  /\ row \in [Runs -> Outcomes \cup {"none", "running", "cancelled"}]
  /\ \A r \in Runs :
       /\ row[r] = "running" =>
            run[r].pc \in {"saved", "queued", "panicked", "gone"} \cup Working
       /\ row[r] \in Outcomes => run[r].outcome = row[r] /\ run[r].pc = "ended"
       /\ run[r].pc = "ended" => row[r] = run[r].outcome
       /\ run[r].pc \in {"finishing", "ended"} => run[r].outcome \in Outcomes

PermitInv ==
  /\ DOMAIN permits = Calls
  /\ \A c \in Calls : permits[c] \in Nat /\ permits[c] + Cardinality(WithPermit(c)) = MaxConcurrent

\* What was counted is settled, and was counted right.
ReportInv ==
  /\ DOMAIN report = Calls
  /\ \A c \in Calls : report[c].done =>
       /\ \A r \in RunsOf(c) : run[r].pc \in {"ended", "panicked"}
       /\ report[c].ok = Cardinality(Ended(c, "success"))
       /\ report[c].failed = Cardinality(Ended(c, "failed"))

DelegationInv == RunInv /\ PermitInv /\ ReportInv

\* A call gives its subtasks rows and tasks in their order, so that one it has
\* not spawned yet is the last that has a row, and has not begun to collect.
SpawnInv ==
  /\ DOMAIN call = Calls /\ DOMAIN run = Runs
  /\ \A r \in Runs : run[r].pc = "new" <=> row[r] = "none"
  /\ \A r, q \in Runs :
       CallOf[q] = CallOf[r] /\ r < q /\ run[q].pc # "new" => run[r].pc \notin {"new", "saved"}
  /\ \A r \in Runs : run[r].pc = "saved" => call[CallOf[r]].pc \in {"spawning", "abandoned"}

\* The subtasks are finitely many.
LEMMA FewRuns ==
  ASSUME NEW S, S \subseteq Runs
  PROVE  IsFiniteSet(S) /\ Cardinality(S) \in Nat
BY RunsAssumption, FS_Subset, FS_CardinalityType

\* No subtask exists and every permit is free.
LEMMA DelegationStarts == DelegationInit => DelegationInv
<1> SUFFICES ASSUME DelegationInit PROVE DelegationInv
  OBVIOUS
<1>1. RunInv /\ ReportInv
  BY DEF DelegationInit, RunInv, RunPlaces, ReportInv, NoReport, Outcomes
<1>2. \A c \in Calls : WithPermit(c) = {}
  BY DEF DelegationInit, WithPermit, RunsOf, Working
<1>3. PermitInv
  BY <1>2, FS_EmptySet, RunsAssumption DEF DelegationInit, PermitInv
<1>. QED
  BY <1>1, <1>3 DEF DelegationInv

\* A subtask that neither comes to work nor stops working leaves the permits alone ...
LEMMA PermitsKept ==
  ASSUME PermitInv, UNCHANGED permits,
         \A r \in Runs : (run'[r].pc \in Working) <=> (run[r].pc \in Working)
  PROVE  PermitInv'
<1>1. \A c \in Calls : WithPermit(c)' = WithPermit(c)
  BY DEF WithPermit, RunsOf
<1>. QED
  BY <1>1 DEF PermitInv

\* ... one that comes to work takes one ...
LEMMA PermitTaken ==
  ASSUME PermitInv, NEW r \in Runs, permits[CallOf[r]] > 0,
         permits' = [permits EXCEPT ![CallOf[r]] = @ - 1],
         run[r].pc \notin Working, run'[r].pc \in Working,
         \A q \in Runs \ {r} : (run'[q].pc \in Working) <=> (run[q].pc \in Working)
  PROVE  PermitInv'
<1> DEFINE d == CallOf[r]
<1>1. d \in Calls
  BY RunsAssumption
<1>2. /\ WithPermit(d)' = WithPermit(d) \cup {r} /\ r \notin WithPermit(d)
      /\ \A c \in Calls : c # d => WithPermit(c)' = WithPermit(c)
  BY DEF WithPermit, RunsOf
<1>3. /\ IsFiniteSet(WithPermit(d)) /\ Cardinality(WithPermit(d)) \in Nat
  BY FewRuns DEF WithPermit, RunsOf
<1>4. Cardinality(WithPermit(d)') = Cardinality(WithPermit(d)) + 1
  BY <1>2, <1>3, FS_AddElement
<1>5. /\ DOMAIN permits' = Calls /\ permits'[d] = permits[d] - 1
      /\ \A c \in Calls : c # d => permits'[c] = permits[c]
  BY <1>1 DEF PermitInv
<1>6. permits[d] \in Nat /\ permits[d] > 0 /\ permits[d] + Cardinality(WithPermit(d)) = MaxConcurrent
  BY <1>1 DEF PermitInv
<1>7. permits'[d] \in Nat /\ permits'[d] + Cardinality(WithPermit(d)') = MaxConcurrent
  BY <1>3, <1>4, <1>5, <1>6
<1> HIDE DEF d
<1>. QED
  BY <1>2, <1>5, <1>7 DEF PermitInv

\* ... and one that stops gives it back.
LEMMA PermitReturned ==
  ASSUME PermitInv, NEW r \in Runs, Release(r),
         run[r].pc \in Working, run'[r].pc \notin Working,
         \A q \in Runs \ {r} : (run'[q].pc \in Working) <=> (run[q].pc \in Working)
  PROVE  PermitInv'
<1> DEFINE d == CallOf[r]
<1>1. d \in Calls
  BY RunsAssumption
<1>2. /\ WithPermit(d)' = WithPermit(d) \ {r} /\ r \in WithPermit(d)
      /\ \A c \in Calls : c # d => WithPermit(c)' = WithPermit(c)
  BY DEF WithPermit, RunsOf
<1>3. /\ IsFiniteSet(WithPermit(d)) /\ Cardinality(WithPermit(d)) \in Nat
  BY FewRuns DEF WithPermit, RunsOf
<1>4. Cardinality(WithPermit(d)') = Cardinality(WithPermit(d)) - 1
  BY <1>2, <1>3, FS_RemoveElement
<1>5. /\ DOMAIN permits' = Calls /\ permits'[d] = permits[d] + 1
      /\ \A c \in Calls : c # d => permits'[c] = permits[c]
  BY <1>1 DEF PermitInv, Release
<1>6. permits[d] \in Nat /\ permits[d] + Cardinality(WithPermit(d)) = MaxConcurrent
  BY <1>1 DEF PermitInv
<1>7. permits'[d] \in Nat /\ permits'[d] + Cardinality(WithPermit(d)') = MaxConcurrent
  BY <1>3, <1>4, <1>5, <1>6
<1> HIDE DEF d
<1>. QED
  BY <1>2, <1>5, <1>7 DEF PermitInv

\* A subtask that moves on before it has ended leaves the reports alone.
LEMMA ReportsKept ==
  ASSUME ReportInv, UNCHANGED report,
         \A r \in Runs : run[r].pc \in {"ended", "panicked"} => run'[r] = run[r]
  PROVE  ReportInv'
<1>1. \A c \in Calls : report[c].done => \A r \in RunsOf(c) : run'[r] = run[r]
  BY DEF ReportInv, RunsOf
<1>2. ASSUME NEW c \in Calls, report[c].done, NEW o PROVE Ended(c, o)' = Ended(c, o)
  BY <1>1, <1>2 DEF Ended, RunsOf
<1>. QED
  BY <1>1, <1>2 DEF ReportInv

\* A call collects when all its subtasks have ended or panicked.
LEMMA Collects ==
  ASSUME DelegationInv, NEW c \in Calls, Collect(c)
  PROVE  DelegationInv'
<1>1. UNCHANGED <<run, row, permits>>
  BY DEF Collect
<1>2. RunInv' /\ PermitInv'
  BY <1>1 DEF DelegationInv, RunInv, PermitInv, WithPermit, RunsOf
<1>3. \A d \in Calls, o \in Outcomes : Ended(d, o)' = Ended(d, o)
  BY <1>1 DEF Ended, RunsOf
<1>4. /\ DOMAIN report' = Calls
      /\ report'[c].ok = Cardinality(Ended(c, "success"))
      /\ report'[c].failed = Cardinality(Ended(c, "failed"))
      /\ \A d \in Calls : d # c => report'[d] = report[d]
  BY DEF Collect, DelegationInv, ReportInv
<1>5. \A r \in RunsOf(c) : run[r].pc \in {"ended", "panicked"}
  BY DEF Collect
<1>6. ReportInv'
  BY <1>1, <1>3, <1>4, <1>5 DEF DelegationInv, ReportInv, Outcomes, RunsOf
<1>. QED
  BY <1>2, <1>6 DEF DelegationInv

\* A subtask that changes its place keeps its outcome.
LEMMA ChangesPlace ==
  ASSUME RunInv, NEW r \in Runs, NEW pc
  PROVE  /\ [run EXCEPT ![r].pc = pc] = [run EXCEPT ![r] = [pc |-> pc, outcome |-> run[r].outcome]]
         /\ run[r].outcome \in Outcomes \cup {"none"}
<1>1. run[r] \in [pc : RunPlaces, outcome : Outcomes \cup {"none"}]
  BY DEF RunInv
<1>2. [run[r] EXCEPT !.pc = pc] = [pc |-> pc, outcome |-> run[r].outcome]
  BY <1>1
<1>. QED
  BY <1>1, <1>2

\* Each step of a subtask.
LEMMA SubtaskStep ==
  ASSUME DelegationInv, NEW r \in Runs, Subtask(r)
  PROVE  DelegationInv'
<1> USE DEF Working
<1>1. report' = report
  BY DEF Subtask, Acquire, Panic, Refuse, BeginTurn, EndTurn, FinishRun
<1>2. PICK pc \in RunPlaces, o \in Outcomes \cup {"none"} :
        /\ run' = [run EXCEPT ![r] = [pc |-> pc, outcome |-> o]]
        /\ \/ /\ Acquire(r) /\ pc = "started" /\ o = run[r].outcome
           \/ /\ Panic(r) /\ pc = "panicked" /\ o = run[r].outcome
           \/ /\ Refuse(r) /\ pc = "finishing" /\ o \in Outcomes
           \/ /\ BeginTurn(r) /\ pc = "turn" /\ o = run[r].outcome
           \/ /\ EndTurn(r) /\ pc = "finishing" /\ o \in Outcomes
           \/ /\ FinishRun(r) /\ pc = "ended" /\ o = run[r].outcome
  <2> USE DEF DelegationInv, RunPlaces
  <2>1. CASE Acquire(r)
    BY <2>1, ChangesPlace DEF Acquire
  <2>2. CASE Panic(r)
    BY <2>2, ChangesPlace DEF Panic
  <2>3. CASE Refuse(r)
    BY <2>3 DEF Refuse, Finishing, Outcomes
  <2>4. CASE BeginTurn(r)
    BY <2>4, ChangesPlace DEF BeginTurn
  <2>5. CASE EndTurn(r)
    BY <2>5 DEF EndTurn, Finishing
  <2>6. CASE FinishRun(r)
    BY <2>6, ChangesPlace DEF FinishRun
  <2>. QED
    BY <2>1, <2>2, <2>3, <2>4, <2>5, <2>6 DEF Subtask
<1>3. /\ \A q \in Runs : q # r => run'[q] = run[q]
      /\ run'[r].pc = pc /\ run'[r].outcome = o
      /\ run' \in [Runs -> [pc : RunPlaces, outcome : Outcomes \cup {"none"}]]
      /\ run[r].pc \notin {"ended", "panicked"} /\ run[r].outcome \in Outcomes \cup {"none"}
  BY <1>2 DEF DelegationInv, RunInv, Acquire, Panic, Refuse, BeginTurn, EndTurn, FinishRun
<1>4. ReportInv'
  BY <1>1, <1>3, ReportsKept DEF DelegationInv
<1>5. RunInv'
  <2>1. CASE FinishRun(r) /\ pc = "ended" /\ o = run[r].outcome
    BY <1>3, <2>1 DEF FinishRun, DelegationInv, RunInv, Outcomes
  <2>2. CASE row' = row /\ pc \in {"started", "panicked", "turn", "finishing"} /\ (pc = "finishing" => o \in Outcomes)
    BY <1>3, <2>2 DEF DelegationInv, RunInv, Outcomes
  <2>. QED
    BY <1>2, <2>1, <2>2 DEF Acquire, Panic, Refuse, BeginTurn, EndTurn
<1>6. PermitInv'
  <2>1. CASE Acquire(r) /\ pc = "started"
    BY <1>3, <2>1, PermitTaken DEF Acquire, DelegationInv
  <2>2. CASE (Panic(r) /\ pc = "panicked") \/ (FinishRun(r) /\ pc = "ended")
    BY <1>3, <2>2, PermitReturned DEF Panic, FinishRun, DelegationInv
  <2>3. CASE (Refuse(r) \/ BeginTurn(r) \/ EndTurn(r)) /\ pc \in {"turn", "finishing"}
    BY <1>3, <2>3, PermitsKept DEF Refuse, BeginTurn, EndTurn, DelegationInv
  <2>. QED
    BY <1>2, <2>1, <2>2, <2>3
<1>. QED
  BY <1>4, <1>5, <1>6 DEF DelegationInv

\* Each step of a call, of the user and of the mailboxes, and the exit.
LEMMA DelegationStep == DelegationInv /\ [Next]_allVars => DelegationInv'
<1> SUFFICES ASSUME DelegationInv, [Next]_allVars PROVE DelegationInv'
  OBVIOUS
<1>1. CASE UNCHANGED <<run, row, permits, report>>
  BY <1>1, PermitsKept, ReportsKept DEF DelegationInv, RunInv
<1>2. CASE \/ MailNext /\ UNCHANGED <<delegationVars, exits>>
           \/ \E r \in Runs, m \in Messages : Tell(r, m)
           \/ UNCHANGED allVars
  BY <1>1, <1>2 DEF Tell, allVars, delegationVars
<1>3. ASSUME NEW c \in Calls, NEW mode, Delegate(c, mode) PROVE DelegationInv'
  BY <1>1, <1>3 DEF Delegate
<1>4. ASSUME NEW c \in Calls, BeginCollecting(c) \/ Abandon(c) PROVE DelegationInv'
  BY <1>1, <1>4 DEF BeginCollecting, Abandon
<1>5. ASSUME NEW r \in Runs, SaveRun(r) \/ SpawnRun(r) PROVE DelegationInv'
  <2>1. /\ \A q \in Runs : q # r => run'[q] = run[q] /\ row'[q] = row[q]
        /\ run'[r].pc \in {"saved", "queued"} /\ row'[r] \in {"running", row[r]}
        /\ run[r].pc \in {"new", "saved"}
        /\ run' \in [Runs -> [pc : RunPlaces, outcome : Outcomes \cup {"none"}]]
        /\ row' \in [Runs -> Outcomes \cup {"none", "running", "cancelled"}]
        /\ UNCHANGED <<permits, report>>
    BY <1>5 DEF SaveRun, SpawnRun, DelegationInv, RunInv, RunPlaces
  <2>2. RunInv'
    BY <2>1 DEF DelegationInv, RunInv, Outcomes
  <2>3. PermitInv'
    BY <2>1, PermitsKept DEF DelegationInv, Working
  <2>4. ReportInv'
    BY <2>1, ReportsKept DEF DelegationInv
  <2>. QED
    BY <2>2, <2>3, <2>4 DEF DelegationInv
<1>6. ASSUME NEW r \in Runs, Cancel(r) PROVE DelegationInv'
  <2>1. UNCHANGED <<run, permits, report>>
    BY <1>6 DEF Cancel, tasks
  <2>2. RunInv'
    BY <1>6, <2>1 DEF Cancel, DelegationInv, RunInv, Outcomes, Working
  <2>3. PermitInv' /\ ReportInv'
    BY <2>1 DEF DelegationInv, PermitInv, ReportInv, WithPermit, Ended, RunsOf
  <2>. QED
    BY <2>2, <2>3 DEF DelegationInv
<1>7. CASE Exit
  <2>1. /\ UNCHANGED <<row, report>>
        /\ permits' = [c \in Calls |-> MaxConcurrent]
        /\ \A r \in Runs : run'[r] = IF run[r].pc \in {"new", "ended", "panicked"}
                                       THEN run[r] ELSE [pc |-> "gone", outcome |-> "none"]
        /\ DOMAIN run' = Runs /\ run' = [r \in Runs |-> run'[r]]
    BY <1>7 DEF Exit, TasksGone
  <2>2. /\ run' \in [Runs -> [pc : RunPlaces, outcome : Outcomes \cup {"none"}]]
        /\ \A r \in Runs : /\ run[r].pc \in {"new", "ended", "panicked"} => run'[r] = run[r]
                           /\ run[r].pc \notin {"new", "ended", "panicked"} => run'[r].pc = "gone"
    BY <2>1 DEF DelegationInv, RunInv, RunPlaces
  <2>3. RunInv'
    BY <2>1, <2>2 DEF DelegationInv, RunInv, Outcomes, RunPlaces, Working
  <2>4. ReportInv'
    BY <2>1, <2>2, ReportsKept DEF DelegationInv
  <2>5. \A c \in Calls : WithPermit(c)' = {}
    BY <2>2 DEF WithPermit, RunsOf, Working
  <2>6. PermitInv'
    <3>1. MaxConcurrent \in Nat /\ MaxConcurrent + 0 = MaxConcurrent
      BY RunsAssumption
    <3>2. \A c \in Calls : Cardinality(WithPermit(c)') = 0
      BY <2>5, FS_EmptySet
    <3>. QED
      BY <2>1, <3>1, <3>2 DEF PermitInv
  <2>. QED
    BY <2>3, <2>4, <2>6 DEF DelegationInv
<1>. QED
  BY <1>2, <1>3, <1>4, <1>5, <1>6, <1>7, Collects, SubtaskStep
     DEF Next, DelegationNext, CallStep, RunsOf

\* A subtask that a call has not finished spawning is the last that has a row,
\* whatever the other subtasks, the user and the app's exit do meanwhile.
LEMMA SpawnStep ==
  ASSUME RunInv, SpawnInv, [Next]_allVars
  PROVE  SpawnInv'
<1> USE RunsAssumption
<1>1. CASE UNCHANGED <<call, run, row>>
  BY <1>1 DEF SpawnInv
<1>2. CASE \/ MailNext /\ UNCHANGED <<delegationVars, exits>>
           \/ \E r \in Runs, m \in Messages : Tell(r, m)
           \/ UNCHANGED allVars
  BY <1>1, <1>2 DEF Tell, allVars, delegationVars
\* The steps of a call that is not spawning, or is done with it.
<1>3. ASSUME NEW c \in Calls, UNCHANGED <<run, row>>, DOMAIN call' = Calls,
             \A d \in Calls : d # c => call'[d] = call[d],
             \/ call'[c].pc \in {"spawning", "abandoned"}
             \/ \A r \in RunsOf(c) : run[r].pc # "saved"
      PROVE  SpawnInv'
  BY <1>3 DEF SpawnInv, RunsOf
<1>4. ASSUME NEW c \in Calls, NEW mode, Delegate(c, mode) PROVE SpawnInv'
  <2>1. call'[c].pc = "spawning"
    BY <1>4 DEF Delegate, SpawnInv
  <2>. QED
    BY <1>3, <1>4, <2>1 DEF Delegate, SpawnInv
<1>5. ASSUME NEW c \in Calls, BeginCollecting(c) PROVE SpawnInv'
  BY <1>3, <1>5 DEF BeginCollecting, SpawnInv
<1>6. ASSUME NEW c \in Calls, Abandon(c) PROVE SpawnInv'
  <2>1. call'[c].pc = "abandoned"
    BY <1>6 DEF Abandon, SpawnInv
  <2>. QED
    BY <1>3, <1>6, <2>1 DEF Abandon, SpawnInv
<1>7. ASSUME NEW c \in Calls, Collect(c) PROVE SpawnInv'
  BY <1>3, <1>7 DEF Collect, SpawnInv
\* The steps of a subtask, and the user's.
<1>8. ASSUME NEW r \in Runs, run[r].pc \notin {"new", "saved"}, UNCHANGED call,
             DOMAIN run' = Runs, run'[r].pc \notin {"new", "saved"},
             row[r] # "none" => row'[r] # "none",
             \A q \in Runs : q # r => run'[q] = run[q] /\ row'[q] = row[q]
      PROVE  SpawnInv'
  BY <1>8 DEF SpawnInv
<1>9. ASSUME NEW r \in Runs, Subtask(r) PROVE SpawnInv'
  <2>1. /\ UNCHANGED call /\ DOMAIN run' = Runs
        /\ run[r].pc \notin {"new", "saved"} /\ run'[r].pc \notin {"new", "saved"}
        /\ \A q \in Runs : q # r => run'[q] = run[q] /\ row'[q] = row[q]
    BY <1>9 DEF Subtask, Acquire, Panic, Refuse, BeginTurn, EndTurn, FinishRun, Finishing,
                RunInv
  <2>2. row'[r] # "none" \/ row'[r] = row[r]
    BY <1>9 DEF Subtask, Acquire, Panic, Refuse, BeginTurn, EndTurn, FinishRun,
                RunInv, Outcomes
  <2>. QED
    BY <1>8, <2>1, <2>2
<1>10. ASSUME NEW r \in Runs, SaveRun(r) \/ SpawnRun(r) PROVE SpawnInv'
  <2>1. /\ UNCHANGED call /\ call[CallOf[r]].pc = "spawning" /\ DOMAIN run' = Runs
        /\ run[r].pc \in {"new", "saved"}
        /\ run'[r].pc \in {"saved", "queued"} /\ row'[r] # "none"
        /\ \A q \in Runs : q # r => run'[q] = run[q] /\ row'[q] = row[q]
    BY <1>10 DEF SaveRun, SpawnRun, SpawnInv, RunInv
  <2>2. \A q \in Runs : CallOf[q] = CallOf[r] /\ q < r => run[q].pc \notin {"new", "saved"}
    <3>1. CASE SaveRun(r)
      BY <3>1 DEF SaveRun, RunsOf
    <3>2. CASE SpawnRun(r)
      BY <3>2 DEF SpawnRun, SpawnInv
    <3>. QED
      BY <1>10, <3>1, <3>2
  <2>3. \A q \in Runs : CallOf[q] = CallOf[r] /\ r < q => run[q].pc = "new"
    BY <2>1 DEF SpawnInv
  <2>4. ASSUME NEW p \in Runs, NEW q \in Runs, CallOf[q] = CallOf[p], p < q,
               run'[q].pc # "new"
        PROVE  run'[p].pc \notin {"new", "saved"}
    <3>1. CASE q = r
      BY <2>1, <2>2, <2>4, <3>1
    <3>2. CASE q # r
      BY <2>1, <2>3, <2>4, <3>2 DEF SpawnInv
    <3>. QED
      BY <3>1, <3>2
  <2>. QED
    BY <2>1, <2>4 DEF SpawnInv
<1>11. ASSUME NEW r \in Runs, Cancel(r) PROVE SpawnInv'
  <2>1. /\ UNCHANGED <<call, run>>
        /\ \A q \in Runs : row'[q] = "none" <=> row[q] = "none"
    BY <1>11 DEF Cancel, tasks, RunInv
  <2>. QED
    BY <2>1 DEF SpawnInv
<1>12. CASE Exit
  <2>1. /\ UNCHANGED row /\ DOMAIN call' = Calls /\ DOMAIN run' = Runs
        /\ \A r \in Runs : run'[r] = IF run[r].pc \in {"new", "ended", "panicked"}
                                       THEN run[r] ELSE [pc |-> "gone", outcome |-> "none"]
    BY <1>12 DEF Exit, TasksGone
  <2>2. \A r \in Runs : run'[r].pc # "saved" /\ (run'[r].pc = "new" <=> run[r].pc = "new")
    BY <2>1 DEF RunInv
  <2>3. ASSUME NEW r \in Runs, NEW q \in Runs, CallOf[q] = CallOf[r], r < q,
               run'[q].pc # "new"
        PROVE  run'[r].pc \notin {"new", "saved"}
    <3>1. run[q].pc # "new"
      BY <2>2, <2>3
    <3>2. run[r].pc \notin {"new", "saved"}
      BY <2>3, <3>1 DEF SpawnInv
    <3>. QED
      BY <2>2, <3>2
  <2>. QED
    BY <2>1, <2>2, <2>3 DEF SpawnInv
<1>. QED
  BY <1>2, <1>4, <1>5, <1>6, <1>7, <1>9, <1>10, <1>11, <1>12
     DEF Next, DelegationNext, CallStep, RunsOf

\* The rows of subagent_runs tell who works, each call has a permit for each subtask it
\* may still start, and what delegate_task reports is what the rows say, now and later:
\* whatever fails, panics, is cancelled or abandoned, and across exits; a row without a
\* task is one whose task panicked or is gone, or the last of a call that was dropped.
THEOREM RowsAndReportsAlwaysAgree == Spec => []RowsAndReportsAgree
<1>1. DelegationInv /\ SpawnInv => RowsTellWhoWorks
  <2> SUFFICES ASSUME DelegationInv, SpawnInv PROVE RowsTellWhoWorks
    OBVIOUS
  <2>1. ASSUME NEW r \in Runs, run[r].pc = "saved", NEW q \in RunsOf(CallOf[r]), q > r
        PROVE  row[q] = "none"
    BY <2>1, RunsAssumption DEF SpawnInv, RunsOf
  <2>. QED
    BY <2>1 DEF DelegationInv, RunInv, PermitInv, SpawnInv, RowsTellWhoWorks
<1>2. DelegationInv => ReportMatchesRows
  <2> SUFFICES ASSUME DelegationInv, NEW c \in Calls, report[c].done
               PROVE  /\ report[c].ok = Cardinality({r \in RunsOf(c) : row[r] = "success"})
                      /\ report[c].failed = Cardinality({r \in RunsOf(c) : row[r] = "failed"})
                      /\ report[c].ok + report[c].failed
                           = Cardinality({r \in RunsOf(c) : run[r].pc # "panicked"})
    BY DEF ReportMatchesRows
  <2> DEFINE S == Ended(c, "success")
             F == Ended(c, "failed")
  <2>1. \A r \in RunsOf(c), o \in Outcomes : row[r] = o <=> run[r] = [pc |-> "ended", outcome |-> o]
    BY DEF DelegationInv, RunInv, RunsOf, Outcomes
  <2>2. /\ S = {r \in RunsOf(c) : row[r] = "success"}
        /\ F = {r \in RunsOf(c) : row[r] = "failed"}
    BY <2>1 DEF Ended, Outcomes
  <2>3. report[c].ok = Cardinality(S) /\ report[c].failed = Cardinality(F)
    BY DEF DelegationInv, ReportInv
  <2>4. S \cup F = {r \in RunsOf(c) : run[r].pc # "panicked"}
    <3>1. \A r \in RunsOf(c) : run[r].pc = "panicked" \/ (run[r].pc = "ended" /\ row[r] \in Outcomes)
      BY DEF DelegationInv, ReportInv, RunInv, RunsOf
    <3>2. \A r \in RunsOf(c) : row[r] \in Outcomes => run[r].pc = "ended"
      BY DEF DelegationInv, RunInv, RunsOf
    <3>. QED
      BY <2>2, <3>1, <3>2 DEF Outcomes
  <2>5. S \cap F = {}
    BY <2>2
  <2>6. /\ IsFiniteSet(S) /\ Cardinality(S) \in Nat
        /\ IsFiniteSet(F) /\ Cardinality(F) \in Nat
    BY FewRuns DEF Ended, RunsOf
  <2> HIDE DEF S, F
  <2>7. Cardinality(S \cup F) = Cardinality(S) + Cardinality(F)
    BY <2>5, <2>6, FS_Union, FS_EmptySet
  <2>. QED
    BY <2>2, <2>3, <2>4, <2>7
<1>3. Init => DelegationInv /\ SpawnInv
  BY DelegationStarts DEF Init, DelegationInit, SpawnInv
<1>4. DelegationInv => RunInv
  BY DEF DelegationInv
<1>. QED
  BY <1>1, <1>2, <1>3, <1>4, DelegationStep, SpawnStep, PTL DEF Spec, RowsAndReportsAgree
=============================================================================
