----------------------- MODULE ChannelMessagesProofs -----------------------
(***************************************************************************)
(* That a message is handled once, but for what the code cannot tell, for  *)
(* any number of messages, deliveries and exits and any size of the set of *)
(* events seen.  Slack and DingTalk look for no repetitions.  The other    *)
(* kinds are of two sorts: the platform delivers once, or the app          *)
(* remembers what it has handled until it forgets everything.              *)
(***************************************************************************)
EXTENDS ChannelMessages, TLAPS

Careless == {"slack", "dingtalk"}
Sessions == [chat : {ChatOf[m] : m \in Messages}, sender : {SenderOf[m] : m \in Messages}]
Places   == {"none", "spawned", "named", "repeated", "begin", "insert", "ready", "turn", "over"}
Tasks    == [msg : Messages \cup {None}, pc : Places, session : Nat, kept : BOOLEAN]
Stages   == {"new", "posted", "missed", "taken"}

Shape ==
  /\ loop # "naming"
  /\ message \in [Messages -> Stages]
  /\ handler \in [Handlers -> Tasks]
  /\ \A h \in Handlers : /\ handler[h].pc # "none" => Delivered(h)
                         /\ handler[h].pc = "spawned" => kind = "feishu"
  /\ rows \in Seq(Sessions)

\* What is delivered once has gone from the platform.
TakenOnce ==
  kind \in Polled \cup {"discord"} /\ (kind = "telegram" => exits = 0) =>
    /\ \A h \in Handlers : Delivered(h) => message[handler[h].msg] = "taken"
    /\ \A g, h \in Handlers : Delivered(h) /\ handler[g].msg = handler[h].msg => g = h

\* What is remembered has been seen, and is not handled again.
RememberedOnce ==
  /\ \A h \in Handlers : handler[h].kept => handler[h].msg \in seen
  /\ \A g, h \in Handlers :
       handler[g].kept /\ handler[h].kept /\ handler[g].msg = handler[h].msg => g = h

OnceInv ==
  /\ kind \in Kinds /\ exits \in Nat
  /\ kind \notin Careless => Shape /\ TakenOnce /\ RememberedOnce

\* Nothing has been delivered yet.
LEMMA OnceInit == Init => OnceInv
BY DEF Init, OnceInv, Shape, TakenOnce, RememberedOnce, Delivered, NoHandler, Tasks,
       Places, Stages, Careless, Handlers

\* A handler that moves on keeps its message, and whether it is remembered.
LEMMA MovesOn ==
  ASSUME OnceInv, kind \notin Careless, NEW h \in Handlers, Delivered(h),
         UNCHANGED <<kind, loop, seen, message, exits>>, rows' \in Seq(Sessions),
         NEW pc \in Places, pc # "spawned", NEW s \in Nat,
         handler' = [handler EXCEPT ![h].pc = pc, ![h].session = s]
  PROVE  OnceInv'
<1>1. /\ handler' \in [Handlers -> Tasks]
      /\ \A g \in Handlers : handler'[g].msg = handler[g].msg /\ handler'[g].kept = handler[g].kept
      /\ \A g \in Handlers : g # h => handler'[g].pc = handler[g].pc
  BY DEF OnceInv, Shape, Tasks
<1>2. Shape' /\ TakenOnce' /\ RememberedOnce'
  BY <1>1 DEF OnceInv, Shape, TakenOnce, RememberedOnce, Delivered
<1>. QED
  BY <1>2 DEF OnceInv

\* A delivery makes a handler of one that had no message.
LEMMA Spawns ==
  ASSUME OnceInv, kind \notin Careless, NEW m \in Messages, NEW h \in Handlers, Delivery(m, h),
         NEW pc \in Places, pc # "none", pc = "spawned" => kind = "feishu", Spawn(m, h, pc),
         UNCHANGED <<kind, loop, seen, rows, exits>>,
         NEW w \in Stages, message' = [message EXCEPT ![m] = w],
         kind \in Polled \cup {"discord"} => w = "taken"
  PROVE  OnceInv'
<1>1. /\ handler' \in [Handlers -> Tasks] /\ message' \in [Messages -> Stages]
      /\ handler'[h].msg = m /\ handler'[h].pc = pc /\ ~handler'[h].kept
      /\ \A g \in Handlers : g # h => handler'[g] = handler[g]
      /\ handler[h].msg = None
  <2> DEFINE spawned == [NoHandler EXCEPT !.msg = m, !.pc = pc]
  <2>1. spawned \in Tasks /\ spawned.msg = m /\ spawned.pc = pc /\ ~spawned.kept
    BY DEF Tasks, NoHandler
  <2>2. handler' = [handler EXCEPT ![h] = spawned]
    BY DEF Spawn
  <2>3. handler[h].msg = None
    BY BoundsAssumption DEF Delivery, Delivered, Handlers
  <2> HIDE DEF spawned
  <2>. QED
    BY <2>1, <2>2, <2>3 DEF OnceInv, Shape
<1>2. Shape'
  BY <1>1, MessagesAssumption DEF OnceInv, Shape, Delivered
<1>3. TakenOnce'
  <2> SUFFICES ASSUME kind \in Polled \cup {"discord"}, kind = "telegram" => exits = 0
               PROVE  /\ \A g \in Handlers : Delivered(g)' => message'[handler'[g].msg] = "taken"
                      /\ \A f, g \in Handlers :
                           Delivered(g)' /\ handler'[f].msg = handler'[g].msg => f = g
    BY DEF TakenOnce
  <2>1. \A g \in Handlers : handler[g].msg \in Messages \cup {None}
    BY DEF OnceInv, Shape, Tasks
  <2>2. \A g \in Handlers : handler[g].msg # None =>
          message[handler[g].msg] = "taken" /\ \A f \in Handlers : handler[f].msg = handler[g].msg => f = g
    BY DEF OnceInv, TakenOnce, Delivered
  <2>3. message[m] = "posted" /\ w = "taken" /\ message \in [Messages -> Stages]
    BY DEF Delivery, OnceInv, Shape
  <2>. QED
    BY <1>1, <2>1, <2>2, <2>3 DEF Delivered
<1>4. RememberedOnce'
  BY <1>1 DEF OnceInv, RememberedOnce
<1>. QED
  BY <1>2, <1>3, <1>4 DEF OnceInv

\* An event that was not seen is remembered, or all are forgotten.
LEMMA Remembers ==
  ASSUME OnceInv, kind \in {"feishu", "wecom"}, NEW m \in Messages, NEW h \in Handlers,
         m \notin seen, Remember(m, h),
         UNCHANGED <<kind, loop, rows, exits>>, message' \in [Messages -> Stages]
  PROVE  OnceInv'
<1> DEFINE spawned == [NoHandler EXCEPT !.msg = m, !.pc = "begin", !.kept = TRUE]
           handlers == [handler EXCEPT ![h] = spawned]
<1>1. spawned \in Tasks /\ spawned.msg = m /\ spawned.pc = "begin"
  BY DEF NoHandler, Tasks, Places
<1>2. handlers \in [Handlers -> Tasks] /\ \A g \in Handlers : handlers[g] = IF g = h THEN spawned ELSE handler[g]
  BY <1>1 DEF OnceInv, Shape, Careless
<1>3. CASE seen' = seen \cup {m} /\ handler' = handlers
  <2>1. Shape'
    BY <1>1, <1>2, <1>3, MessagesAssumption DEF OnceInv, Shape, Delivered, Careless
  <2>2. RememberedOnce'
    BY <1>1, <1>2, <1>3 DEF OnceInv, RememberedOnce, Careless
  <2>. QED
    BY <2>1, <2>2 DEF OnceInv, TakenOnce, Polled
<1>4. CASE seen' = {} /\ handler' = Forget(handlers)
  <2> HIDE DEF handlers
  <2>1. /\ handler' \in [Handlers -> Tasks]
        /\ \A g \in Handlers : ~handler'[g].kept /\ handler'[g].msg = handlers[g].msg
                               /\ handler'[g].pc = handlers[g].pc
    BY <1>2, <1>4 DEF Forget, Tasks
  <2>2. Shape'
    BY <1>1, <1>2, <2>1, MessagesAssumption DEF OnceInv, Shape, Delivered, Careless
  <2>. QED
    BY <2>1, <2>2 DEF OnceInv, TakenOnce, RememberedOnce, Polled
<1>. QED
  BY <1>3, <1>4 DEF Remember

\* An exit is counted; the sessions survive it.
LEMMA ExitCounts ==
  Exit => exits' = exits + 1 /\ UNCHANGED <<kind, rows>> /\ loop' = "connecting"
BY DEF Exit

\* Each step of the platform, of the channel's task and of a handler.
LEMMA OnceStep == OnceInv /\ [Next]_vars => OnceInv'
<1> SUFFICES ASSUME OnceInv, [Next]_vars PROVE OnceInv'
  OBVIOUS
<1>1. kind' = kind /\ exits' \in Nat
  <2>1. CASE Exit
    BY <2>1, ExitCounts DEF OnceInv
  <2>2. CASE Connection \/ GoSilent \/ GoDown \/ UNCHANGED vars
    BY <2>2 DEF Connection, Connect, StopHeartbeat, NoticeSilence, EndReading, Named, GoSilent,
                GoDown, vars, OnceInv
  <2>3. CASE \E m \in Messages : Post(m)
    BY <2>3 DEF Post, OnceInv
  <2>4. ASSUME NEW h \in Handlers, Handle(h) PROVE UNCHANGED <<kind, exits>>
    BY <2>4 DEF Handle, Dedupe, GiveUp, NoAgent, NoProvider, LookUp, Insert, BeginTurn, Reply,
                ReplyError
  <2>5. ASSUME NEW h \in Handlers, NEW m \in Messages, TakeSome(m, h) PROVE UNCHANGED <<kind, exits>>
    BY <2>5 DEF TakeSome, Take, TakeDingTalk, TakeSlack, TakeFeishu, TakeWecom
  <2>. QED
    BY <2>1, <2>2, <2>3, <2>4, <2>5 DEF Next, OnceInv
<1>2. CASE kind \in Careless
  BY <1>1, <1>2 DEF OnceInv
<1>3. CASE kind \notin Careless
  <2> USE <1>1, <1>3
  <2>1. CASE Connect
    <3>1. /\ handler' \in [Handlers -> Tasks]
          /\ \A g \in Handlers : ~handler'[g].kept /\ handler'[g].msg = handler[g].msg
                                 /\ handler'[g].pc = handler[g].pc
      BY <2>1 DEF Connect, Forget, OnceInv, Shape, Tasks
    <3>. QED
      BY <2>1, <3>1 DEF Connect, OnceInv, Shape, TakenOnce, RememberedOnce, Delivered
  <2>2. CASE StopHeartbeat \/ NoticeSilence \/ EndReading \/ UNCHANGED vars
    BY <2>2 DEF StopHeartbeat, NoticeSilence, EndReading, vars, OnceInv, Shape, TakenOnce,
                RememberedOnce, Delivered
  <2>3. CASE Named
    BY <2>3 DEF Named, OnceInv, Shape
  <2>4. CASE GoSilent \/ GoDown \/ \E m \in Messages : Post(m)
    <3>1. /\ message' \in [Messages -> Stages]
          /\ \A m \in Messages : message[m] = "taken" => message'[m] = "taken"
      BY <2>4 DEF GoSilent, GoDown, Post, Missed, OnceInv, Shape, Stages
    <3>2. UNCHANGED <<kind, loop, seen, handler, rows, exits>>
      BY <2>4 DEF GoSilent, GoDown, Post, chan, OnceInv, Shape
    <3>. QED
      BY <3>1, <3>2, MessagesAssumption DEF OnceInv, Shape, Tasks, TakenOnce, RememberedOnce, Delivered
  <2>5. CASE Exit
    <3>1. /\ handler' \in [Handlers -> Tasks]
          /\ \A g \in Handlers : /\ ~handler'[g].kept /\ handler'[g].msg = handler[g].msg
                                 /\ handler'[g].pc # "none" => Delivered(g)
                                 /\ handler'[g].pc # "spawned"
      BY <2>5 DEF Exit, OnceInv, Shape, Tasks, Places, NoHandler, Delivered
    <3>2. /\ message' \in [Messages -> Stages]
          /\ kind # "telegram" => \A m \in Messages : message[m] = "taken" => message'[m] = "taken"
      BY <2>5 DEF Exit, Missed, OnceInv, Shape, Stages
    <3>3. loop' # "naming" /\ rows' = rows /\ (kind = "telegram" => exits' # 0)
      BY <2>5, ExitCounts DEF OnceInv
    <3>4. Shape'
      BY <3>1, <3>2, <3>3 DEF OnceInv, Shape, Delivered
    <3>5. TakenOnce'
      BY <3>1, <3>2, <3>3, MessagesAssumption DEF OnceInv, Shape, Tasks, TakenOnce, Delivered, Polled
    <3>. QED
      BY <3>1, <3>4, <3>5 DEF OnceInv, RememberedOnce
  <2>6. ASSUME NEW m \in Messages, NEW h \in Handlers, TakeSome(m, h) PROVE OnceInv'
    <3>1. CASE Take(m, h)
      BY <3>1, Spawns DEF Take, chan, Places, Stages
    <3>2. CASE TakeDingTalk(m, h) \/ TakeSlack(m, h)
      BY <3>2 DEF TakeDingTalk, TakeSlack, Careless
    <3>3. CASE TakeFeishu(m, h)
      BY <3>3, Spawns DEF TakeFeishu, Acknowledge, chan, Places, Stages, Polled
    <3>4. CASE TakeWecom(m, h)
      <4>1. CASE Spawn(m, h, "repeated") /\ UNCHANGED <<message, seen>>
        <5>1. message' = [message EXCEPT ![m] = message[m]] /\ message[m] \in Stages
          BY <4>1 DEF OnceInv, Shape
        <5>. QED
          BY <3>4, <4>1, <5>1, Spawns DEF TakeWecom, chan, Places, Polled
      <4>2. CASE Acknowledge(m) /\ m \in seen /\ Spawn(m, h, "repeated") /\ UNCHANGED seen
        BY <3>4, <4>2, Spawns DEF TakeWecom, Acknowledge, chan, Places, Stages, Polled
      <4>3. CASE Acknowledge(m) /\ m \notin seen /\ Remember(m, h)
        <5>1. message' \in [Messages -> Stages]
          BY <4>3 DEF OnceInv, Shape, Acknowledge, Stages
        <5>. QED
          BY <3>4, <4>3, <5>1, Remembers DEF TakeWecom, chan
      <4>. QED
        BY <3>4, <4>1, <4>2, <4>3 DEF TakeWecom
    <3>. QED
      BY <2>6, <3>1, <3>2, <3>3, <3>4 DEF TakeSome
  <2>7. ASSUME NEW h \in Handlers, Handle(h) PROVE OnceInv'
    <3>1. CASE Dedupe(h)
      <4> DEFINE m == handler[h].msg
      <4>1. m \in Messages /\ kind = "feishu" /\ handler[h].session \in Nat /\ Delivered(h)
        BY <3>1 DEF Dedupe, At, OnceInv, Shape, Tasks, Delivered
      <4>2. CASE m \in seen
        <5>1. handler' = [handler EXCEPT ![h].pc = "repeated", ![h].session = handler[h].session]
          BY <3>1, <4>2 DEF Dedupe, Goto, OnceInv, Shape, Tasks
        <5>. QED
          BY <3>1, <4>1, <4>2, <5>1, MovesOn DEF Dedupe, chan, Places, OnceInv, Shape
      <4>3. CASE m \notin seen
        BY <3>1, <4>1, <4>3, Remembers DEF Dedupe, chan, OnceInv, Shape
      <4>. QED
        BY <4>2, <4>3
    <3>2. CASE GiveUp(h) \/ NoAgent(h) \/ NoProvider(h) \/ Reply(h) \/ ReplyError(h)
      <4>1. handler' = [handler EXCEPT ![h].pc = "over", ![h].session = 0] /\ Delivered(h)
        BY <3>2 DEF GiveUp, NoAgent, NoProvider, Reply, ReplyError, End, At, OnceInv, Shape
      <4>2. UNCHANGED <<kind, loop, seen, message, exits, rows>>
        BY <3>2 DEF GiveUp, NoAgent, NoProvider, Reply, ReplyError, chan
      <4>. QED
        BY <4>1, <4>2, MovesOn DEF Places, OnceInv, Shape
    <3>3. CASE BeginTurn(h)
      <4>1. handler' = [handler EXCEPT ![h].pc = "turn", ![h].session = handler[h].session]
        BY <3>3 DEF BeginTurn, Goto, OnceInv, Shape, Tasks
      <4>2. Delivered(h) /\ handler[h].session \in Nat
        BY <3>3 DEF BeginTurn, At, OnceInv, Shape, Tasks
      <4>. QED
        BY <3>3, <4>1, <4>2, MovesOn DEF BeginTurn, chan, Places, OnceInv, Shape
    <3>4. CASE LookUp(h)
      <4>1. PICK pc \in {"insert", "ready"}, s \in Nat :
              handler' = [handler EXCEPT ![h].pc = pc, ![h].session = s]
        <5>1. CASE Found(handler[h].msg) = {}
          <6>1. handler' = [handler EXCEPT ![h].pc = "insert", ![h].session = handler[h].session]
            BY <3>4, <5>1 DEF LookUp, Goto, OnceInv, Shape, Tasks
          <6>. QED
            BY <6>1 DEF OnceInv, Shape, Tasks
        <5>2. CASE Found(handler[h].msg) # {}
          <6>1. PICK s \in Found(handler[h].msg) :
                  handler' = [handler EXCEPT ![h].pc = "ready", ![h].session = s]
            BY <3>4, <5>2 DEF LookUp
          <6>2. s \in Nat
            BY DEF Found, OnceInv, Shape
          <6>. QED
            BY <6>1, <6>2
        <5>. QED
          BY <5>1, <5>2
      <4>2. Delivered(h)
        BY <3>4 DEF LookUp, At, OnceInv, Shape
      <4>. QED
        BY <3>4, <4>1, <4>2, MovesOn DEF LookUp, chan, Places, OnceInv, Shape
    <3>5. CASE Insert(h)
      <4>1. Delivered(h) /\ handler[h].msg \in Messages
        BY <3>5 DEF Insert, At, OnceInv, Shape, Tasks, Delivered
      <4>2. rows' \in Seq(Sessions) /\ Len(rows) + 1 \in Nat
        <5>1. Titled(handler[h].msg) \in Sessions
          BY <4>1 DEF Titled, Sessions
        <5>. QED
          BY <3>5, <5>1 DEF Insert, OnceInv, Shape
      <4>. QED
        BY <3>5, <4>1, <4>2, MovesOn DEF Insert, chan, Places
    <3>. QED
      BY <2>7, <3>1, <3>2, <3>3, <3>4, <3>5 DEF Handle
  <2>. QED
    BY <2>1, <2>2, <2>3, <2>4, <2>5, <2>6, <2>7 DEF Next, Connection
<1>. QED
  BY <1>2, <1>3

\* A message is handled twice only by Slack and DingTalk, by Feishu and WeCom when the
\* set of events seen was emptied between, and by Telegram after an exit: whatever is
\* delivered again, and however often the connection goes and the handlers stop.
THEOREM MessagesAreHandledOnce == Spec => []HandledOnce
<1>1. OnceInv => HandledOnce
  <2> SUFFICES ASSUME OnceInv, kind \notin Careless, NEW g \in Handlers, NEW h \in Handlers,
                      g < h, handler[g].msg = handler[h].msg, Handled(g), Handled(h)
               PROVE  \/ kind \in {"feishu", "wecom"} /\ ~(handler[g].kept /\ handler[h].kept)
                      \/ kind = "telegram" /\ exits > 0
    BY DEF HandledOnce, Careless
  <2>1. Delivered(h) /\ ~(g = h)
    BY DEF Handled, OnceInv, Shape, Handlers
  <2>2. kind \in {"feishu", "wecom"} \/ kind \in Polled \cup {"discord"}
    BY KindsAssumption DEF OnceInv, Careless, Socket, Callback, Polled
  <2>. QED
    BY <2>1, <2>2 DEF OnceInv, TakenOnce, RememberedOnce, Polled
<1>. QED
  BY <1>1, OnceInit, OnceStep, PTL DEF Spec
=============================================================================
