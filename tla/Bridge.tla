------------------------------- MODULE Bridge -------------------------------
(***************************************************************************)
(* The desktop's end of the bridge to a cloud (bridge/client.rs, and its   *)
(* start in main.rs): it pulls the messages that arrived since the last    *)
(* pull, takes over those that the cloud pushes, and has the messages that *)
(* the cloud forwards answered by an agent, one after the other.           *)
(*                                                                         *)
(* The cloud is external.  Its messages have a session and, in the order   *)
(* of their places here, a time; its answer to a pull has those behind the *)
(* given time, and its own time.                                           *)
(***************************************************************************)
EXTENDS Naturals, Sequences, FiniteSets

CONSTANTS
  CloudSessions,   \* the sessions of its messages
  Down,            \* no connection
  MaxMessages, MaxForwards, MaxBreaks, MaxDeletes

VARIABLES
  cloud,      \* the session of each message of the cloud
  present,    \* chat_sessions
  rows,       \* the messages that are in chat_messages
  mark,       \* cloud_last_sync_at
  conn,       \* connect_and_run: its step, the answer to the pull, and its time
  line,       \* what the cloud has sent over the connection
  inbox,      \* the forwarded messages, by their sessions
  worker,     \* the session it works for, or Down
  refused,    \* the messages whose insert failed
  deleted,    \* the messages that went with their sessions
  forwards, breaks, deletes

data == <<present, rows, mark>>
past == <<refused, deleted>>
used == <<forwards, breaks, deletes>>
vars == <<cloud, data, conn, line, inbox, worker, past, used>>

Offline == [pc |-> "down", answer |-> {}, time |-> 0]
At(pc) == conn.pc = pc
Goto(pc) == conn' = [conn EXCEPT !.pc = pc]
Pushed(i) == [kind |-> "new_message", of |-> i]
Forwarded(s) == [kind |-> "forward_message", of |-> s]

-----------------------------------------------------------------------------
(* The cloud                                                               *)

Arrive(s) ==
  /\ Len(cloud) < MaxMessages
  /\ cloud' = Append(cloud, s)
  /\ line' \in IF At("down") THEN {line} ELSE {line, Append(line, Pushed(Len(cloud) + 1))}
  /\ UNCHANGED <<data, conn, inbox, worker, past, used>>

Forward(s) ==
  /\ ~At("down") /\ forwards < MaxForwards
  /\ forwards' = forwards + 1
  /\ line' = Append(line, Forwarded(s))
  /\ UNCHANGED <<cloud, data, conn, inbox, worker, past, breaks, deletes>>

-----------------------------------------------------------------------------
(* The connection                                                          *)

Connect ==
  /\ At("down")
  /\ Goto("pull")
  /\ UNCHANGED <<cloud, data, line, inbox, worker, past, used>>

\* The connection is used whether the pull succeeds or not.
Pull ==
  /\ At("pull")
  /\ \/ conn' = [pc |-> "insert", answer |-> (mark + 1)..Len(cloud), time |-> Len(cloud)]
     \/ Goto("loop")
  /\ UNCHANGED <<cloud, data, line, inbox, worker, past, used>>

\* INSERT OR IGNORE of message i; it needs its session, and an error is only logged.
Insert(i) ==
  \/ /\ cloud[i] \in present \/ i \in rows
     /\ rows' = rows \cup {i} /\ UNCHANGED refused
  \/ refused' = refused \cup ({i} \ rows) /\ UNCHANGED rows

\* The answer is in the order of its times.
PullRow ==
  /\ At("insert") /\ conn.answer # {}
  /\ LET i == CHOOSE k \in conn.answer : \A l \in conn.answer : k <= l IN
       Insert(i) /\ conn' = [conn EXCEPT !.answer = @ \ {i}]
  /\ UNCHANGED <<cloud, present, mark, line, inbox, worker, deleted, used>>

\* Mutant: the time at which the rows are in, instead of that of the answer.
SetMarkToNow ==
  /\ At("insert") /\ conn.answer = {}
  /\ mark' = Len(cloud)
  /\ Goto("loop")
  /\ UNCHANGED <<cloud, present, rows, line, inbox, worker, past, used>>

\* An answer without a time, or a failed write, leaves the mark.
SetMark ==
  /\ At("insert") /\ conn.answer = {}
  /\ mark' \in {mark, IF conn.time > 0 THEN conn.time ELSE mark}
  /\ Goto("loop")
  /\ UNCHANGED <<cloud, present, rows, line, inbox, worker, past, used>>

\* A pushed message gets the next place of its session; what is forwarded is queued.
Read ==
  /\ At("loop") /\ line # <<>>
  /\ line' = Tail(line)
  /\ IF Head(line).kind = "new_message"
     THEN Insert(Head(line).of) /\ UNCHANGED inbox
     ELSE inbox' = Append(inbox, Head(line).of) /\ UNCHANGED <<rows, refused>>
  /\ UNCHANGED <<cloud, present, mark, conn, worker, deleted, used>>

\* Closed, unreadable, or a heartbeat that cannot be sent: start() connects again.
Break ==
  /\ At("loop") /\ breaks < MaxBreaks
  /\ breaks' = breaks + 1
  /\ conn' = Offline /\ line' = <<>>
  /\ UNCHANGED <<cloud, data, inbox, worker, past, forwards, deletes>>

Exit ==
  /\ breaks < MaxBreaks
  /\ breaks' = breaks + 1
  /\ conn' = Offline /\ line' = <<>> /\ inbox' = <<>> /\ worker' = Down
  /\ UNCHANGED <<cloud, data, past, forwards, deletes>>

-----------------------------------------------------------------------------
(* The agent's side                                                        *)

\* With no usable provider the message is dropped; the session is made if it can be.
TakeForward ==
  /\ worker = Down /\ inbox # <<>>
  /\ inbox' = Tail(inbox)
  /\ \/ worker' = Head(inbox) /\ present' \in {present, present \cup {Head(inbox)}}
     \/ UNCHANGED <<worker, present>>
  /\ UNCHANGED <<cloud, rows, mark, conn, line, past, used>>

\* send_message_stream returns; the cloud is not told.
Answered ==
  /\ worker # Down
  /\ worker' = Down
  /\ UNCHANGED <<cloud, data, conn, line, inbox, past, used>>

\* delete_session; the rows go with the session.
Delete(s) ==
  /\ s \in present /\ deletes < MaxDeletes
  /\ deletes' = deletes + 1
  /\ present' = present \ {s}
  /\ LET gone == {i \in rows : cloud[i] = s} IN
       rows' = rows \ gone /\ deleted' = deleted \cup gone
  /\ UNCHANGED <<cloud, mark, conn, line, inbox, worker, refused, forwards, breaks>>

-----------------------------------------------------------------------------
Init ==
  /\ cloud = <<>> /\ present \in SUBSET CloudSessions /\ rows = {} /\ mark = 0
  /\ conn = Offline /\ line = <<>> /\ inbox = <<>> /\ worker = Down
  /\ refused = {} /\ deleted = {}
  /\ forwards = 0 /\ breaks = 0 /\ deletes = 0

Next ==
  \/ \E s \in CloudSessions : Arrive(s) \/ Forward(s) \/ Delete(s)
  \/ Connect \/ Pull \/ PullRow \/ SetMark \/ Read \/ Break \/ Exit
  \/ TakeForward \/ Answered

Spec == Init /\ [][Next]_vars

-----------------------------------------------------------------------------
\* A message that later pulls will not fetch is in the rows, unless its insert was
\* refused or its session has been deleted since: wherever the app exits, and whatever
\* arrives or is pushed while the answer to a pull is written.
SyncSkipsNothing == 1..mark \subseteq rows \cup refused \cup deleted

=============================================================================
