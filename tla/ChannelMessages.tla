-------------------------- MODULE ChannelMessages --------------------------
(***************************************************************************)
(* The way of a message through a chat channel, from the platform to the   *)
(* answer, for the seven kinds of channel.  Discord, Slack and Feishu hold *)
(* a WebSocket open (channels/discord.rs, slack.rs, feishu.rs), DingTalk   *)
(* and WeCom serve a callback (dingtalk.rs, wecom.rs), Telegram and WeChat *)
(* poll (telegram.rs, weixin.rs; how they poll is in ChannelUpdates, and   *)
(* how the tasks are started and stopped in ChannelManager).  Each message *)
(* is handled by a task of its own, which finds or creates the session,    *)
(* runs a turn in it and answers.                                          *)
(*                                                                         *)
(* The platforms are not this program: those that are acknowledged deliver *)
(* again what they got no acknowledgement for; Discord delivers on the     *)
(* connection that is up, or never, as no session is resumed.              *)
(*                                                                         *)
(* Messages are texts meant for the bot; database calls succeed.           *)
(***************************************************************************)
EXTENDS Naturals, Sequences, FiniteSets

CONSTANTS
  Kinds,     \* the kinds of channel looked at
  Messages,  \* numbered as they are written
  ChatOf,    \* where each message is written, and answered
  SenderOf,  \* what its session's title is made of: a name, the start of an id
  None,
  MaxDeliveries,  \* how many deliveries the platform makes
  MaxSeen,   \* 1000: the size at which the set of events seen is cleared
  MaxExits

Socket   == {"discord", "slack", "feishu"}
Callback == {"dingtalk", "wecom"}
Polled   == {"telegram", "weixin"}

ASSUME KindsAssumption  == Kinds \subseteq Socket \cup Callback \cup Polled
ASSUME BoundsAssumption == MaxDeliveries \in Nat /\ MaxSeen \in Nat /\ MaxExits \in Nat
ASSUME MessagesAssumption == Messages \subseteq Nat /\ None \notin Messages

VARIABLES
  kind,       \* the kind of the channel
  loop,       \* what the channel's task does
  link,       \* its connection: "half" is one whose other end is gone unnoticed
  heartbeat,  \* Discord's heartbeat task
  naming,     \* the delivery for which Slack's loop asks the sender's name
  seen,       \* the ids of the events seen
  message,    \* where each message is, for the platform
  handler,    \* the task of each delivery; whether seen has kept its message since
  rows,       \* the channel's rows in chat_sessions, oldest first
  exits

chan     == <<loop, link, heartbeat, naming>>
vars == <<kind, loop, link, heartbeat, naming, seen, message, handler, rows, exits>>

Handlers == 1..MaxDeliveries

NoHandler == [msg |-> None, pc |-> "none", session |-> 0, kept |-> FALSE]

Init ==
  /\ kind \in Kinds
  /\ loop = "connecting" /\ link = "down" /\ heartbeat = "none"
  /\ naming = None
  /\ seen = {}
  /\ message = [m \in Messages |-> "new"]
  /\ handler = [h \in Handlers |-> NoHandler]
  /\ rows = <<>> /\ exits = 0

At(h, pc)   == handler[h].pc = pc
Goto(h, pc) == handler' = [handler EXCEPT ![h].pc = pc]

End(h) == handler' = [handler EXCEPT ![h].pc = "over", ![h].session = 0]

\* A repetition is found before a message is handled.
Handled(h) == handler[h].pc \notin {"none", "spawned", "named", "repeated"}

-----------------------------------------------------------------------------
(* the platform                                                            *)

Post(m) ==
  /\ message[m] = "new" /\ \A n \in Messages : message[n] = "new" => m <= n
  /\ message' = [message EXCEPT ![m] =
                   IF kind = "discord" /\ link # "up" THEN "missed" ELSE "posted"]
  /\ UNCHANGED <<kind, chan, seen, handler, rows, exits>>

\* What is on Discord's connection goes with it.
Missed ==
  IF kind = "discord"
    THEN [m \in Messages |-> IF message[m] = "posted" THEN "missed" ELSE message[m]]
    ELSE message

\* The network goes away and nobody tells the app.
GoSilent ==
  /\ link = "up" /\ kind \in Socket
  /\ link' = "half"
  /\ message' = Missed
  /\ UNCHANGED <<kind, loop, heartbeat, naming, seen, handler, rows, exits>>

\* The connection is closed or reset, or the platform asks for a new one.
GoDown ==
  /\ link = "up" /\ kind \in Socket
  /\ link' = "down"
  /\ message' = Missed
  /\ UNCHANGED <<kind, loop, heartbeat, naming, seen, handler, rows, exits>>

-----------------------------------------------------------------------------
(* the channel's task                                                      *)

Forget(handlers) == [h \in Handlers |-> [handlers[h] EXCEPT !.kept = FALSE]]

\* The set of events seen belongs to one connection of Feishu, to one start of
\* WeCom's server.
Connect ==
  /\ loop = "connecting"
  /\ loop' = "reading" /\ link' = "up"
  /\ heartbeat' = IF kind = "discord" THEN "beating" ELSE "none"
  /\ seen' = {} /\ handler' = Forget(handler)
  /\ UNCHANGED <<kind, naming, rows, message, exits>>

\* Discord's heartbeat: an acknowledgement is missing, and it is the heartbeat that
\* ends, not the connection.
StopHeartbeat ==
  /\ heartbeat = "beating" /\ (link # "up" \/ loop # "reading")
  /\ heartbeat' = "none"
  /\ UNCHANGED <<kind, loop, link, naming, seen, handler, rows, message, exits>>

\* A ping of Feishu's cannot be sent any more.
NoticeSilence ==
  /\ kind = "feishu" /\ loop = "reading" /\ link = "half"
  /\ loop' = "connecting" /\ link' = "down"
  /\ UNCHANGED <<kind, heartbeat, naming, seen, handler, rows, message, exits>>

\* After a second, or up to a minute if attempts fail in a row, or five minutes in
\* Feishu's unfinished fallback, it connects again; a callback server that has failed
\* is started again by the manager.
EndReading ==
  /\ loop = "reading" /\ link = "down"
  /\ loop' = "connecting"
  /\ UNCHANGED <<kind, link, heartbeat, naming, seen, handler, rows, message, exits>>

-----------------------------------------------------------------------------
(* a delivery                                                              *)

Delivered(h) == handler[h].msg # None

\* The next delivery is numbered h.
Delivery(m, h) ==
  /\ loop = "reading" /\ link = "up" /\ message[m] = "posted"
  /\ \A g \in Handlers : Delivered(g) <=> g < h

\* The acknowledgement may be lost or late.
Acknowledge(m) ==
  \E arrives \in BOOLEAN :
    message' = [message EXCEPT ![m] = IF arrives THEN "taken" ELSE "posted"]

Spawn(m, h, pc) == handler' = [handler EXCEPT ![h] = [NoHandler EXCEPT !.msg = m, !.pc = pc]]

\* A poller takes a message once; so does the reader of Discord's events.
Take(m, h) ==
  /\ kind \in Polled \cup {"discord"}
  /\ Delivery(m, h)
  /\ message' = [message EXCEPT ![m] = "taken"]
  /\ Spawn(m, h, "begin")
  /\ UNCHANGED <<kind, chan, seen, rows, exits>>

\* The answer to the callback is sent whatever becomes of the handler.
TakeDingTalk(m, h) ==
  /\ kind = "dingtalk"
  /\ Delivery(m, h) /\ Acknowledge(m)
  /\ Spawn(m, h, "begin")
  /\ UNCHANGED <<kind, chan, seen, rows, exits>>

\* Slack's loop acknowledges, then asks for the sender's name and reads nothing
\* meanwhile.
TakeSlack(m, h) ==
  /\ kind = "slack"
  /\ Delivery(m, h) /\ Acknowledge(m)
  /\ Spawn(m, h, "named")
  /\ loop' = "naming" /\ naming' = h
  /\ UNCHANGED <<kind, link, heartbeat, seen, rows, exits>>

\* Mutant: the loop reads on and forgets the message when the connection is gone.
NamedIfUp ==
  /\ loop = "naming"
  /\ IF link = "up" THEN Goto(naming, "begin") ELSE UNCHANGED handler
  /\ loop' = "reading" /\ naming' = None
  /\ UNCHANGED <<kind, link, heartbeat, seen, rows, message, exits>>

Named ==
  /\ loop = "naming"
  /\ Goto(naming, "begin")
  /\ loop' = "reading" /\ naming' = None
  /\ UNCHANGED <<kind, link, heartbeat, seen, rows, message, exits>>

TakeFeishu(m, h) ==
  /\ kind = "feishu"
  /\ Delivery(m, h) /\ Acknowledge(m)
  /\ Spawn(m, h, "spawned")
  /\ UNCHANGED <<kind, chan, seen, rows, exits>>

\* Mutant: what was just put in is cleared, and the rest is kept.
RememberOthers(m, h) ==
  /\ seen' = IF Cardinality(seen \cup {m}) > MaxSeen THEN seen ELSE seen \cup {m}
  /\ handler' = [handler EXCEPT ![h] = [NoHandler EXCEPT !.msg = m, !.pc = "begin", !.kept = TRUE]]

\* The set is cleared when it has become too large, with what was just put in.
Remember(m, h) ==
  LET full == Cardinality(seen \cup {m}) > MaxSeen
      handlers == [handler EXCEPT ![h] = [NoHandler EXCEPT !.msg = m, !.pc = "begin", !.kept = TRUE]] IN
  /\ seen' = IF full THEN {} ELSE seen \cup {m}
  /\ handler' = IF full THEN Forget(handlers) ELSE handlers

\* WeCom's callback looks for repetitions before it spawns the handler, and logs
\* the message even before: a log line that cuts a character ends the callback
\* without an answer.
TakeWecom(m, h) ==
  /\ kind = "wecom"
  /\ Delivery(m, h)
  /\ \/ Spawn(m, h, "repeated") /\ UNCHANGED <<message, seen>>
     \/ /\ Acknowledge(m)
        /\ IF m \in seen THEN Spawn(m, h, "repeated") /\ UNCHANGED seen ELSE Remember(m, h)
  /\ UNCHANGED <<kind, chan, rows, exits>>

-----------------------------------------------------------------------------
(* the handler                                                             *)

\* handle_feishu_event begins with the search for a repetition.
Dedupe(h) ==
  /\ At(h, "spawned")
  /\ LET m == handler[h].msg IN
       IF m \in seen THEN Goto(h, "repeated") /\ UNCHANGED seen ELSE Remember(m, h)
  /\ UNCHANGED <<kind, chan, rows, message, exits>>

\* The task panics in the line that logs the text, cut after so many bytes.
GiveUp(h) ==
  /\ At(h, "begin")
  /\ End(h)
  /\ UNCHANGED <<kind, chan, seen, rows, message, exits>>

\* Nothing routes the sender to an agent and there is none; nothing is said.
NoAgent(h) ==
  /\ At(h, "begin")
  /\ End(h)
  /\ UNCHANGED <<kind, chan, seen, rows, message, exits>>

\* Discord, Slack and WeCom write the id of the chat into the title and find the
\* session by it; Weixin does so with the start of the sender's id.  Telegram, Feishu
\* and DingTalk look for the id of the chat, too, but write none: what they find is a
\* session of the same title, which is made of the sender's name or id.
ByChat == {"discord", "slack", "wecom"}

Titled(m) == [chat |-> ChatOf[m], sender |-> SenderOf[m]]

Found(m) ==
  {s \in DOMAIN rows : IF kind \in ByChat THEN rows[s].chat = ChatOf[m]
                                          ELSE rows[s].sender = SenderOf[m]}

LookUp(h) ==
  LET found == Found(handler[h].msg) IN
  /\ At(h, "begin")
  /\ IF found = {}
       THEN Goto(h, "insert")
       ELSE \E s \in found :
              /\ \A t \in found : s <= t
              /\ handler' = [handler EXCEPT ![h].pc = "ready", ![h].session = s]
  /\ UNCHANGED <<kind, chan, seen, rows, message, exits>>

\* Whether another task has inserted it by now is not looked at.
Insert(h) ==
  /\ At(h, "insert")
  /\ rows' = Append(rows, Titled(handler[h].msg))
  /\ handler' = [handler EXCEPT ![h].pc = "ready", ![h].session = Len(rows) + 1]
  /\ UNCHANGED <<kind, chan, seen, message, exits>>

InTurn(s) == {h \in Handlers : At(h, "turn") /\ handler[h].session = s}

\* The turn waits for the session's lock.
BeginTurn(h) ==
  /\ At(h, "ready") /\ InTurn(handler[h].session) = {}
  /\ Goto(h, "turn")
  /\ UNCHANGED <<kind, chan, seen, rows, message, exits>>

\* No enabled provider has a key (find_provider), and the answer says so.
NoProvider(h) ==
  /\ At(h, "ready")
  /\ End(h)
  /\ UNCHANGED <<kind, chan, seen, rows, message, exits>>

\* The answer is sent.  The title that auto_name_session then asks a model for is left out.
Reply(h) ==
  /\ At(h, "turn")
  /\ End(h)
  /\ UNCHANGED <<kind, chan, seen, rows, message, exits>>

\* The turn has failed: the error is sent, cut after so many bytes, where the task may
\* panic again.
ReplyError(h) ==
  /\ At(h, "turn")
  /\ End(h)
  /\ UNCHANGED <<kind, chan, seen, rows, message, exits>>

-----------------------------------------------------------------------------

\* The app exits and starts again.  Telegram's server sends once more what had not
\* been confirmed.
Exit ==
  /\ exits < MaxExits /\ exits' = exits + 1
  /\ loop' = "connecting" /\ link' = "down" /\ heartbeat' = "none"
  /\ naming' = None
  /\ seen' = {}
  /\ handler' = [h \in Handlers |->
                  IF ~Delivered(h) THEN NoHandler
                  ELSE [NoHandler EXCEPT !.msg = handler[h].msg,
                                           !.pc = IF Handled(h) THEN "over" ELSE "repeated"]]
  /\ \E again \in SUBSET {m \in Messages : kind = "telegram" /\ message[m] = "taken"} :
       message' = [m \in Messages |-> IF m \in again THEN "posted"
                                       ELSE Missed[m]]
  /\ UNCHANGED <<kind, rows>>

TakeSome(m, h) ==
  Take(m, h) \/ TakeDingTalk(m, h) \/ TakeSlack(m, h) \/ TakeFeishu(m, h) \/ TakeWecom(m, h)

Connection ==
  Connect \/ StopHeartbeat \/ NoticeSilence \/ EndReading \/ Named

Handle(h) ==
  \/ Dedupe(h) \/ GiveUp(h) \/ NoAgent(h) \/ NoProvider(h)
  \/ LookUp(h) \/ Insert(h) \/ BeginTurn(h) \/ Reply(h) \/ ReplyError(h)

Next ==
  \/ Connection \/ GoSilent \/ GoDown \/ Exit
  \/ \E m \in Messages : Post(m)
  \/ \E h \in Handlers : Handle(h) \/ \E m \in Messages : TakeSome(m, h)

\* The channel's task and the handlers go on; the network and the platform need not.
Spec ==
  /\ Init /\ [][Next]_vars
  /\ WF_vars(Connection)
  /\ \A h \in Handlers : WF_vars(Handle(h))

-----------------------------------------------------------------------------
(* properties                                                              *)

TypeOK ==
  /\ kind \in Kinds
  /\ loop \in {"connecting", "reading", "naming"}
  /\ link \in {"down", "up", "half"}
  /\ heartbeat \in {"none", "beating"}
  /\ naming \in Handlers \cup {None}
  /\ seen \subseteq Messages
  /\ message \in [Messages -> {"new", "posted", "missed", "taken"}]
  /\ handler \in [Handlers -> [msg : Messages \cup {None},
                               pc : {"none", "spawned", "named", "repeated", "begin", "insert",
                                     "ready", "turn", "over"},
                               session : Nat, kept : BOOLEAN]]
  /\ Len(rows) <= Cardinality(Handlers)
  /\ exits \in 0..MaxExits

\* A message is handled twice only by Slack and DingTalk, which look for no
\* repetitions, by Feishu and WeCom when the set of events seen has been emptied in
\* between, and by Telegram after an exit.
HandledOnce ==
  \A g, h \in Handlers :
    g < h /\ handler[g].msg = handler[h].msg /\ Handled(g) /\ Handled(h)
      => \/ kind \in {"slack", "dingtalk"}
         \/ kind \in {"feishu", "wecom"} /\ ~(handler[g].kept /\ handler[h].kept)
         \/ kind = "telegram" /\ exits > 0

\* What a platform need not deliver again is dealt with: a handler that does not
\* stop halfway answers it, or gives up without a word, unless the app exits.
TakenIsSettled ==
  \A m \in Messages :
    message[m] = "taken"
      ~> \/ \E h \in Handlers : handler[h].msg = m /\ At(h, "over")
         \/ exits > 0
=============================================================================
