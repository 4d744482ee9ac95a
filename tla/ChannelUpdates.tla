--------------------------- MODULE ChannelUpdates ---------------------------
(***************************************************************************)
(* What the tasks of the channel manager do while they poll: the long      *)
(* polling of Telegram (channels/telegram.rs) and of WeChat                *)
(* (channels/weixin.rs), composed with the manager that starts and cancels *)
(* them and with the app's exits.  A Telegram poller keeps its offset in   *)
(* memory and confirms an update by asking for the next one; a WeChat      *)
(* poller saves its cursor, before it hands the messages on.               *)
(*                                                                         *)
(* The updates of a bot are numbered from 1; an offset or a cursor is the  *)
(* number of the last update taken; how many have arrived shows only in    *)
(* how many a response brings.  Assumed: there is one WeChat channel (the  *)
(* cursor is a setting, not a column of the channel), a response is dealt  *)
(* with within the three seconds that a stop waits, and the bots' servers  *)
(* do what the two protocols say.                                          *)
(***************************************************************************)
EXTENDS ChannelManager

CONSTANT MaxUpdates   \* how many updates a bot is sent

ASSUME UpdatesAssumption == MaxUpdates \in Nat

VARIABLES
  bot,        \* what each channel talks to: telegram, weixin, or an expired login
  confirmed,  \* those Telegram's server has dropped
  saved,      \* weixin_sync_buf in the settings
  poll,       \* what each task has asked for and received
  taken       \* the updates of each bot that were handed to a handler

serverVars == <<bot, confirmed>>
updateVars == <<bot, confirmed, saved, poll, taken>>
allVars    == <<vars, updateVars>>

Numbers == 1..MaxUpdates

Later(m, n) == IF m > n THEN m ELSE n

NoPoll == [pc |-> "start", cursor |-> 0, batch |-> {}]

Polling(t, pc) == task[t].pc = "polling" /\ poll[t].pc = pc
BotOf(t)       == bot[task[t].chan]

\* The task handles a response and does not look at its token.
Handling(t) == poll[t].pc \in {"received", "saved"}

Take(c, batch) == taken' = [taken EXCEPT ![c] = @ \cup batch]

-----------------------------------------------------------------------------
(* polling                                                                 *)

\* Telegram starts from 0, WeChat from the saved cursor.
Cursor(t) ==
  IF poll[t].pc = "start" /\ BotOf(t) # "telegram" THEN saved ELSE poll[t].cursor

\* The offset of a request to Telegram confirms all updates before it.
Ask(t) ==
  /\ task[t].pc = "polling" /\ ~task[t].cancelled
  /\ poll[t].pc \in {"start", "ready"}
  /\ poll' = [poll EXCEPT ![t].pc = "asked", ![t].cursor = Cursor(t)]
  /\ confirmed' = IF BotOf(t) = "telegram"
                    THEN [confirmed EXCEPT ![task[t].chan] = Later(@, poll[t].cursor)]
                    ELSE confirmed
  /\ UNCHANGED <<vars, bot, saved, taken>>

\* A timeout, an error, a response that is lost.
NoAnswer(t) ==
  /\ Polling(t, "asked")
  /\ poll' = [poll EXCEPT ![t].pc = "ready"]
  /\ UNCHANGED <<vars, serverVars, saved, taken>>

\* Mutant: the offset moves on before the updates are looked at, and only the last
\* of a response is.
ReceiveTelegramLast(t) ==
  LET c == task[t].chan
      first == Later(confirmed[c], poll[t].cursor) + 1 IN
  /\ Polling(t, "asked") /\ BotOf(t) = "telegram"
  /\ \E last \in first..MaxUpdates :
       /\ poll' = [poll EXCEPT ![t].pc = "ready", ![t].cursor = last]
       /\ Take(c, {last})
  /\ UNCHANGED <<vars, serverVars, saved>>

\* Telegram sends some of what is next, by what has arrived and fits in a response:
\* a handler is spawned for each update, and the offset moves on.
ReceiveTelegram(t) ==
  LET c == task[t].chan
      first == Later(confirmed[c], poll[t].cursor) + 1 IN
  /\ Polling(t, "asked") /\ BotOf(t) = "telegram"
  /\ \E last \in first..MaxUpdates :
       /\ poll' = [poll EXCEPT ![t].pc = "ready", ![t].cursor = last]
       /\ Take(c, first..last)
  /\ UNCHANGED <<vars, serverVars, saved>>

\* WeChat: the new cursor comes with the messages, is saved first, and then a
\* handler is spawned for each message.
ReceiveWeixin(t) ==
  LET first == poll[t].cursor + 1 IN
  /\ Polling(t, "asked") /\ BotOf(t) = "weixin"
  /\ \E last \in first..MaxUpdates :
       poll' = [poll EXCEPT ![t] = [pc |-> "received", cursor |-> last, batch |-> first..last]]
  /\ UNCHANGED <<vars, serverVars, saved, taken>>

SaveCursor(t) ==
  /\ Polling(t, "received")
  /\ saved' = poll[t].cursor
  /\ poll' = [poll EXCEPT ![t].pc = "saved"]
  /\ UNCHANGED <<vars, serverVars, taken>>

HandOn(t) ==
  /\ Polling(t, "saved")
  /\ Take(task[t].chan, poll[t].batch)
  /\ poll' = [poll EXCEPT ![t].pc = "ready", ![t].batch = {}]
  /\ UNCHANGED <<vars, serverVars, saved>>

\* The server says that the login has expired: the cursor is deleted, the task
\* ends.  A Telegram poller never ends by itself.
Expire(t) ==
  /\ GiveUp(t) /\ NoteOverlaps
  /\ poll[t].pc = "asked" /\ BotOf(t) # "telegram"
  /\ bot' = [bot EXCEPT ![task[t].chan] = "expired"]
  /\ saved' = 0
  /\ UNCHANGED <<confirmed, poll, taken>>

Receive(t) ==
  ReceiveTelegram(t) \/ ReceiveWeixin(t) \/ SaveCursor(t) \/ HandOn(t) \/ Expire(t)

-----------------------------------------------------------------------------
(* the manager                                                             *)

\* A stop waits for three seconds: by then a task has given up its request and
\* dealt with the response it had, unless it sleeps in a back-off.
Serve(p) ==
  /\ At(p, "wait") /\ call[p].task # None
       => ~Handling(call[p].task) /\ poll[call[p].task].pc # "asked"
  /\ Proceed(p) /\ NoteOverlaps /\ UNCHANGED updateVars

Manage == (Keep \/ Command) /\ NoteOverlaps /\ UNCHANGED updateVars

End(t) ==
  /\ ~Handling(t)
  /\ Leave(t) /\ NoteOverlaps
  /\ poll' = [poll EXCEPT ![t] = NoPoll]
  /\ UNCHANGED <<serverVars, saved, taken>>

\* What the tasks had in memory is gone; the server and the settings remain.
Crash ==
  /\ Exit
  /\ poll' = [t \in Tasks |-> NoPoll]
  /\ UNCHANGED <<serverVars, saved, taken>>

-----------------------------------------------------------------------------
(* the specification                                                       *)

UpdatesInit ==
  /\ Init
  /\ bot \in [Channels -> {"telegram", "weixin"}]
  /\ confirmed = [c \in Channels |-> 0]
  /\ saved = 0
  /\ poll = [t \in Tasks |-> NoPoll]
  /\ taken = [c \in Channels |-> {}]

Poll(t) == Ask(t) \/ NoAnswer(t) \/ Receive(t)

UpdatesNext ==
  \/ Manage \/ Crash
  \/ \E p \in Callers : Serve(p)
  \/ \E t \in Tasks : Poll(t) \/ End(t)

\* As for the manager; and a poller whose requests keep being answered, or keep
\* failing for some time only, receives a response in the end.
UpdatesSpec ==
  /\ UpdatesInit /\ [][UpdatesNext]_allVars
  /\ \A p \in Callers : WF_allVars(Serve(p))
  /\ WF_allVars(Keep /\ NoteOverlaps /\ UNCHANGED updateVars)
  /\ \A t \in Tasks : WF_allVars(End(t)) /\ WF_allVars(Ask(t)) /\ SF_allVars(Receive(t))

-----------------------------------------------------------------------------
(* properties                                                              *)

\* Every variable has its type, those of the manager too; only a WeChat poller
\* has a response at hand.
UpdatesTypeOK ==
  /\ TypeOK
  /\ bot \in [Channels -> {"telegram", "weixin", "expired"}]
  /\ confirmed \in [Channels -> 0..MaxUpdates]
  /\ saved \in 0..MaxUpdates
  /\ poll \in [Tasks -> [pc : {"start", "ready", "asked", "received", "saved"},
                         cursor : 0..MaxUpdates, batch : SUBSET Numbers]]
  /\ taken \in [Channels -> SUBSET Numbers]
  /\ \A t \in Tasks : Handling(t) => BotOf(t) # "telegram"

\* What a Telegram bot is sent is taken in the end, after cancelled polls, lost
\* responses and exits, unless the channel is disabled or calls overlap.
TelegramDelivers ==
  \A c \in Channels :
    []<>(\/ taken[c] = Numbers
         \/ bot[c] # "telegram" \/ rows[c].state # "enabled" \/ c \in overlapped)
=============================================================================
