--------------------------- MODULE ChannelManager ---------------------------
(***************************************************************************)
(* The channel manager of the desktop app (channels/manager.rs): it keeps  *)
(* one task per enabled chat channel (a Telegram bot, a WeChat login...).  *)
(* Its methods are asynchronous, take no lock for their whole length and   *)
(* are called by the user's commands (handlers/channels_cmd.rs), once at   *)
(* the start of the app, and by a health check every 30 seconds.  Each     *)
(* action is what lies between two awaits.                                 *)
(*                                                                         *)
(* Assumed: the credentials of a channel are complete (a start then never  *)
(* fails) and database calls succeed.                                      *)
(***************************************************************************)
EXTENDS Naturals, FiniteSets

CONSTANTS
  Channels,  \* ids of rows of agent_channels
  Tasks,     \* numbers that stand for tokio tasks
  Users,     \* calls of the user's commands that may be under way at a time
  Keeper,    \* the process that starts all channels, then checks their health
  None,      \* no task, no channel
  MaxEvents  \* how many commands are given, and how often the app exits

ASSUME CallersAssumption == Keeper \notin Users
ASSUME NoneAssumption    == None \notin Tasks \cup Channels
ASSUME TasksAssumption   == Tasks \subseteq Nat
ASSUME EventsAssumption  == MaxEvents \in Nat

VARIABLES
  rows,       \* agent_channels: whether the row is there and enabled, its status
  instances,  \* the map from a channel to its ChannelInstance
  task,       \* the channel of each task, where it is, and its cancellation token
  call,       \* what each caller is doing, on which channel
  todo,       \* the channels the keeper still has to go through
  mode,       \* whether the keeper starts all channels or checks their health
  events,     \* commands and exits so far
  overlapped  \* channels two callers have ever been busy with at the same time

store   == <<rows, instances>>
control == <<call, todo, mode>>
vars    == <<rows, instances, task, call, todo, mode, events, overlapped>>

Callers == Users \cup {Keeper}

-----------------------------------------------------------------------------
(* Callers                                                                 *)

Idle == [op |-> "none", chan |-> None, pc |-> "idle", task |-> None]

Goto(p, pc) == call' = [call EXCEPT ![p].pc = pc]
Return(p)   == call' = [call EXCEPT ![p] = Idle]

At(p, pc) == call[p].pc = pc
Chan(p)   == call[p].chan

Exists(c) == rows[c].state \in {"enabled", "disabled"}

\* An UPDATE of a row that is gone does nothing.
SetStatus(c, status) ==
  rows' = [rows EXCEPT ![c].status = IF Exists(c) THEN status ELSE @]

BusyWith(p, c) == Chan(p) = c \/ (p = Keeper /\ c \in todo)

\* The history of overlapping calls.
NoteOverlaps ==
  overlapped' =
    overlapped \cup {c \in Channels :
                       \E p, q \in Callers : p # q /\ BusyWith(p, c)' /\ BusyWith(q, c)'}

-----------------------------------------------------------------------------
(* the user's commands                                                     *)

Begin(u, op, c, pc) ==
  /\ At(u, "idle") /\ events < MaxEvents
  /\ call' = [call EXCEPT ![u] = [op |-> op, chan |-> c, pc |-> pc, task |-> None]]
  /\ events' = events + 1

CreateChannel(u, c) ==
  /\ rows[c].state = "new"
  /\ Begin(u, "start", c, "stop")
  /\ rows' = [rows EXCEPT ![c] = [state |-> "enabled", status |-> "configured"]]
  /\ UNCHANGED <<instances, task, todo, mode>>

EnableChannel(u, c) ==
  /\ Exists(c)
  /\ Begin(u, "start", c, "look")
  /\ rows' = [rows EXCEPT ![c].state = "enabled"]
  /\ UNCHANGED <<instances, task, todo, mode>>

DisableChannel(u, c) ==
  /\ Exists(c)
  /\ Begin(u, "stop", c, "stop")
  /\ rows' = [rows EXCEPT ![c].state = "disabled"]
  /\ UNCHANGED <<instances, task, todo, mode>>

DeleteChannel(u, c) ==
  /\ Exists(c)
  /\ Begin(u, "delete", c, "stop")
  /\ UNCHANGED <<store, task, todo, mode>>

\* toggle_agent_channel reads the row again before it starts the channel.
LookUp(u) ==
  /\ u \in Users /\ At(u, "look")
  /\ IF Exists(Chan(u)) THEN Goto(u, "stop") ELSE Return(u)
  /\ UNCHANGED <<store, task, todo, mode, events>>

-----------------------------------------------------------------------------
(* stop_instance, which every start begins with                            *)

\* Mutant: the instance leaves the map, its token is dropped.
DetachUncancelled(p) ==
  /\ At(p, "stop")
  /\ instances' = [instances EXCEPT ![Chan(p)] = None]
  /\ call' = [call EXCEPT ![p].pc = "wait", ![p].task = instances[Chan(p)]]
  /\ UNCHANGED <<rows, task, todo, mode, events>>

\* The instance leaves the map and its token is cancelled.
Detach(p) ==
  LET t == instances[Chan(p)] IN
  /\ At(p, "stop")
  /\ instances' = [instances EXCEPT ![Chan(p)] = None]
  /\ call' = [call EXCEPT ![p].pc = "wait", ![p].task = t]
  /\ task' = IF t = None THEN task ELSE [task EXCEPT ![t].cancelled = TRUE]
  /\ UNCHANGED <<rows, todo, mode, events>>

\* The task has ended, or the three seconds are over.
Stopped(p) ==
  /\ At(p, "wait") /\ call[p].op # "start"
  /\ SetStatus(Chan(p), "stopped")
  /\ IF call[p].op = "delete"
       THEN call' = [call EXCEPT ![p].pc = "erase", ![p].task = None]
       ELSE Return(p)
  /\ UNCHANGED <<instances, task, todo, mode, events>>

EraseRow(u) ==
  /\ At(u, "erase")
  /\ rows' = [rows EXCEPT ![Chan(u)].state = "deleted"]
  /\ Return(u)
  /\ UNCHANGED <<instances, task, todo, mode, events>>

-----------------------------------------------------------------------------
(* start_instance                                                          *)

Held(t) == \/ \E c \in Channels : instances[c] = t
           \/ \E p \in Callers : call[p].task = t

\* A number nobody holds any more may stand for a new task; the smallest does.
Unused == {t \in Tasks : task[t].pc = "ended" /\ ~Held(t)}

Fresh(c) == [chan |-> c, pc |-> "polling", cancelled |-> FALSE]

SpawnTask(p) ==
  /\ At(p, "wait") /\ call[p].op = "start"
  /\ SetStatus(Chan(p), "stopped")
  /\ \E t \in Unused :
       /\ \A s \in Unused : t <= s
       /\ task' = [task EXCEPT ![t] = Fresh(Chan(p))]
       /\ call' = [call EXCEPT ![p].pc = "mark", ![p].task = t]
  /\ UNCHANGED <<instances, todo, mode, events>>

MarkRunning(p) ==
  /\ At(p, "mark")
  /\ SetStatus(Chan(p), "running")
  /\ Goto(p, "insert")
  /\ UNCHANGED <<instances, task, todo, mode, events>>

\* Whatever the map holds for this channel by now is replaced.
InsertInstance(p) ==
  /\ At(p, "insert")
  /\ instances' = [instances EXCEPT ![Chan(p)] = call[p].task]
  /\ Return(p)
  /\ UNCHANGED <<rows, task, todo, mode, events>>

-----------------------------------------------------------------------------
(* start_all, then the health check                                        *)

EnabledChannels == {c \in Channels : rows[c].state = "enabled"}
EndedChannels   == {c \in Channels : instances[c] # None /\ task[instances[c]].pc = "ended"}

KeeperFree == call[Keeper] = Idle /\ todo = {}

StartAll ==
  /\ mode = "off"
  /\ mode' = "boot"
  /\ todo' = EnabledChannels
  /\ UNCHANGED <<store, task, call, events>>

StartNext(c) ==
  /\ mode = "boot" /\ call[Keeper] = Idle /\ c \in todo
  /\ call' = [call EXCEPT ![Keeper] = [Idle EXCEPT !.op = "start", !.chan = c, !.pc = "stop"]]
  /\ todo' = todo \ {c}
  /\ UNCHANGED <<store, task, mode, events>>

\* The health check is started when start_all has returned.
Tick ==
  /\ mode # "off" /\ KeeperFree /\ EndedChannels # {}
  /\ mode' = "check"
  /\ todo' = EndedChannels
  /\ UNCHANGED <<store, task, call, events>>

\* Whatever instance the map holds by now is dropped, without a cancellation.
DropInstance(c) ==
  /\ mode = "check" /\ call[Keeper] = Idle /\ c \in todo
  /\ instances' = [instances EXCEPT ![c] = None]
  /\ call' = [call EXCEPT ![Keeper] = [Idle EXCEPT !.op = "start", !.chan = c, !.pc = "check"]]
  /\ todo' = todo \ {c}
  /\ UNCHANGED <<rows, task, mode, events>>

StillEnabled ==
  /\ At(Keeper, "check")
  /\ IF Chan(Keeper) \in EnabledChannels THEN Goto(Keeper, "stop") ELSE Return(Keeper)
  /\ UNCHANGED <<store, task, todo, mode, events>>

-----------------------------------------------------------------------------
(* the tasks                                                               *)

\* The channel gives up by itself: a login has expired, a port is taken.
GiveUp(t) ==
  /\ task[t].pc = "polling" /\ ~task[t].cancelled
  /\ task' = [task EXCEPT ![t].pc = "leaving"]
  /\ UNCHANGED <<store, control, events>>

\* It may be in a back-off of up to a minute before it looks at its token.
NoticeCancel(t) ==
  /\ task[t].pc = "polling" /\ task[t].cancelled
  /\ task' = [task EXCEPT ![t].pc = "leaving"]
  /\ UNCHANGED <<store, control, events>>

EndTask(t) ==
  /\ task[t].pc = "leaving"
  /\ task' = [task EXCEPT ![t].pc = "ended"]
  /\ SetStatus(task[t].chan, "stopped")
  /\ UNCHANGED <<instances, control, events>>

-----------------------------------------------------------------------------
(* the specification                                                       *)

NoTask == [chan |-> None, pc |-> "ended", cancelled |-> TRUE]

\* stop_all cancels the tokens and the process ends, or it just dies: the rows
\* remain.
Exit ==
  /\ mode # "off" /\ events < MaxEvents
  /\ instances' = [c \in Channels |-> None]
  /\ task' = [t \in Tasks |-> NoTask]
  /\ call' = [p \in Callers |-> Idle]
  /\ todo' = {} /\ mode' = "off"
  /\ events' = events + 1
  /\ UNCHANGED <<rows, overlapped>>

Init ==
  /\ rows \in [Channels -> {[state |-> "new", status |-> "configured"],
                            [state |-> "enabled", status |-> "running"]}]
  /\ instances = [c \in Channels |-> None]
  /\ task = [t \in Tasks |-> NoTask]
  /\ call = [p \in Callers |-> Idle]
  /\ todo = {} /\ mode = "off"
  /\ events = 0 /\ overlapped = {}

Command == \E u \in Users, c \in Channels :
  CreateChannel(u, c) \/ EnableChannel(u, c) \/ DisableChannel(u, c) \/ DeleteChannel(u, c)

Proceed(p) ==
  \/ LookUp(p) \/ Detach(p) \/ Stopped(p) \/ EraseRow(p)
  \/ SpawnTask(p) \/ MarkRunning(p) \/ InsertInstance(p)

Keep == StartAll \/ Tick \/ StillEnabled \/ \E c \in Channels : StartNext(c) \/ DropInstance(c)

Leave(t) == NoticeCancel(t) \/ EndTask(t)

Run == \/ Command \/ Keep
       \/ \E p \in Callers : Proceed(p)
       \/ \E t \in Tasks : GiveUp(t) \/ Leave(t)

Next == (Run /\ NoteOverlaps) \/ Exit

\* Calls and tasks proceed, the keeper takes its turn; nobody need give a command
\* and no channel need fail.
Fairness ==
  /\ \A p \in Callers : WF_vars(Proceed(p) /\ NoteOverlaps)
  /\ WF_vars(Keep /\ NoteOverlaps)
  /\ \A t \in Tasks : WF_vars(Leave(t) /\ NoteOverlaps)

Spec == Init /\ [][Next]_vars /\ Fairness

-----------------------------------------------------------------------------
(* properties                                                              *)

Calls == [op : {"none", "start", "stop", "delete"}, chan : Channels \cup {None},
          pc : {"idle", "look", "stop", "wait", "erase", "mark", "insert", "check"},
          task : Tasks \cup {None}]

\* Every variable has its type; a caller that waits for a task, or has spawned
\* one, holds it.
TypeOK ==
  /\ rows \in [Channels -> [state  : {"new", "enabled", "disabled", "deleted"},
                            status : {"configured", "running", "stopped"}]]
  /\ instances \in [Channels -> Tasks \cup {None}]
  /\ task \in [Tasks -> [chan : Channels \cup {None}, pc : {"polling", "leaving", "ended"},
                         cancelled : BOOLEAN]]
  /\ call \in [Callers -> Calls]
  /\ \A p \in Callers : At(p, "idle") <=> Chan(p) = None
  /\ todo \subseteq Channels /\ overlapped \subseteq Channels
  /\ mode \in {"off", "boot", "check"}
  /\ events \in 0..MaxEvents

\* A task that polls and has not been told to stop.
Active(t) == task[t].pc # "ended" /\ ~task[t].cancelled

\* A channel that is disabled or deleted stops polling, unless it is enabled
\* again or calls overlap.
DisabledComesToRest ==
  \A c \in Channels :
    rows[c].state \in {"disabled", "deleted"}
      ~> \/ \A t \in Tasks : task[t].chan = c => task[t].pc = "ended"
         \/ rows[c].state = "enabled" \/ c \in overlapped
=============================================================================
