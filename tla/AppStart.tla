------------------------------ MODULE AppStart ------------------------------
(***************************************************************************)
(* What the app does to its data when it starts (main.rs, db/schema.rs,    *)
(* scheduler/seed.rs) and what moves that data elsewhere and back          *)
(* (export_app_data and import_app_data in handlers/misc.rs), together     *)
(* with the agents.  The channels' tokens of older versions are settings   *)
(* that a start turns into rows of agent_channels when that table is empty;*)
(* default jobs are added when there is no job.                            *)
(*                                                                         *)
(* Assumed: database calls succeed.  The import of keys from the           *)
(* environment is in Providers, the scheduler's own start in CronScheduler.*)
(***************************************************************************)
EXTENDS AgentStore

CONSTANTS
  Tokens,      \* legacy channel tokens in the table settings
  Defaults,    \* default jobs, six in the code
  Own,         \* a job of the user
  Absent,      \* no database waits, no archive was written
  MaxStarts

ASSUME OwnAssumption == Own \notin Defaults

VARIABLES
  up,        \* "off", "schema" while the database is opened, or "on"
  channels,  \* rows of agent_channels made of a token: <<token, agent, start>>
  jobs,      \* how many rows of cron_jobs each job has
  seed,      \* the task that adds the defaults: "off", "count" or "add"
  rest,      \* tokens or defaults that the start has still to add
  target,    \* the oldest agent, to whom they go
  archive,   \* the zip file of the last export
  pending,   \* the database that the next start takes over
  restored,  \* agents that came back with a database
  starts

startVars == <<up, channels, jobs, seed, rest, target, archive, pending, restored, starts>>
moved     == <<archive, pending, restored>>

Database == [rows |-> rows, owned |-> owned, version |-> version,
             channels |-> channels, jobs |-> jobs]

Oldest == CHOOSE a \in rows : \A b \in rows : a <= b
NoJobs == [j \in Defaults \cup {Own} |-> 0]

-----------------------------------------------------------------------------
(* Starting                                                                *)

\* A database left by an import takes the place of the old one.
Start ==
  /\ up = "off" /\ starts < MaxStarts
  /\ up' = "schema" /\ starts' = starts + 1
  /\ IF pending = Absent THEN UNCHANGED <<table, channels, jobs, pending, restored>>
     ELSE /\ rows' = pending.rows /\ owned' = pending.owned /\ version' = pending.version
          /\ channels' = pending.channels /\ jobs' = pending.jobs
          /\ restored' = restored \cup pending.rows
          /\ pending' = Absent
  /\ rest' = IF channels' = {} /\ rows' # {} THEN Tokens ELSE {}
  /\ target' = IF rest' = {} THEN 0 ELSE CHOOSE a \in rows' : \A b \in rows' : a <= b
  /\ UNCHANGED <<homes, cache, task, made, begun, seed, archive>>

\* init_schema: one INSERT for each token.
Migrate ==
  /\ up = "schema"
  /\ \E t \in rest :
       /\ channels' = channels \cup {<<t, target, starts>>}
       /\ rest' = rest \ {t}
  /\ UNCHANGED <<agentVars, up, jobs, seed, target, moved, starts>>

\* The schema is there: the app comes up and spawns the task of the seeds.
Opened ==
  /\ up = "schema" /\ rest = {}
  /\ up' = "on" /\ seed' = "count" /\ target' = 0
  /\ UNCHANGED <<agentVars, channels, jobs, rest, moved, starts>>

\* Mutant: only the user's jobs are counted.
CountOwnJobs ==
  /\ seed = "count"
  /\ IF jobs[Own] = 0 /\ rows # {}
     THEN seed' = "add" /\ rest' = Defaults /\ target' = Oldest
     ELSE seed' = "off" /\ UNCHANGED <<rest, target>>
  /\ UNCHANGED <<agentVars, up, channels, jobs, moved, starts>>

\* seed_default_jobs: only when there is no job and some agent.
CountJobs ==
  /\ seed = "count"
  /\ IF jobs = NoJobs /\ rows # {}
     THEN seed' = "add" /\ rest' = Defaults /\ target' = Oldest
     ELSE seed' = "off" /\ UNCHANGED <<rest, target>>
  /\ UNCHANGED <<agentVars, up, channels, jobs, moved, starts>>

AddDefault ==
  /\ seed = "add"
  /\ \/ \E j \in rest :
          /\ jobs' = [jobs EXCEPT ![j] = @ + 1]
          /\ rest' = rest \ {j}
          /\ UNCHANGED <<seed, target>>
     \/ rest = {} /\ seed' = "off" /\ target' = 0 /\ UNCHANGED <<jobs, rest>>
  /\ UNCHANGED <<agentVars, up, channels, moved, starts>>

\* The process ends; what it was doing is lost, and so is the cache.
Stop ==
  /\ up # "off"
  /\ up' = "off" /\ seed' = "off" /\ rest' = {} /\ target' = 0
  /\ task' = [c \in Clients |-> Idle]
  /\ cache' = [a \in Agents |-> Nobody]
  /\ UNCHANGED <<table, homes, made, begun, channels, jobs, moved, starts>>

-----------------------------------------------------------------------------
(* The user                                                                *)

\* Channels are deleted one by one; those of a deleted agent go with its row.
DeleteChannel ==
  /\ up = "on"
  /\ \E ch \in channels : channels' = channels \ {ch}
  /\ Command
  /\ UNCHANGED <<table, homes, cache, task, made, up, jobs, seed, rest, target, moved, starts>>

ChangeJobs ==
  /\ up = "on"
  /\ \/ jobs[Own] = 0 /\ jobs' = [jobs EXCEPT ![Own] = 1]
     \/ \E j \in DOMAIN jobs : jobs[j] > 0 /\ jobs' = [jobs EXCEPT ![j] = @ - 1]
  /\ Command
  /\ UNCHANGED <<table, homes, cache, task, made, up, channels, seed, rest, target, moved, starts>>

Export ==
  /\ up = "on" /\ archive = Absent /\ rows # {}
  /\ archive' = Database
  /\ Command
  /\ UNCHANGED <<table, homes, cache, task, made, up, channels, jobs, seed, rest, target, pending, restored, starts>>

\* The database waits for the next start.  The workspaces, which the archive
\* keeps as agents/agents/<id>, are written one directory too deep.
Import ==
  /\ up = "on" /\ archive # Absent /\ restored = {} /\ pending = Absent
  /\ pending' = archive
  /\ Command
  /\ UNCHANGED <<table, homes, cache, task, made, up, channels, jobs, seed, rest, target, archive, restored, starts>>

\* The commands on agents.
Commands ==
  /\ up = "on" /\ AgentNext
  /\ channels' = {ch \in channels : ch[2] \in rows' \/ ch[2] \notin rows}
  /\ UNCHANGED <<up, jobs, seed, rest, target, moved, starts>>

-----------------------------------------------------------------------------
Init ==
  /\ AgentInit
  /\ up = "off" /\ channels = {} /\ jobs = NoJobs /\ seed = "off" /\ rest = {} /\ target = 0
  /\ archive = Absent /\ pending = Absent /\ restored = {} /\ starts = 0

Next ==
  \/ Start \/ Migrate \/ Opened \/ CountJobs \/ AddDefault \/ Stop
  \/ DeleteChannel \/ ChangeJobs \/ Export \/ Import \/ Commands

\* Requests that were begun go on, and time passes.
startAll == <<agentVars, startVars>>
FinishOf(c) == up = "on" /\ Finish(c) /\ Commands
ExpireOf(a) == up = "on" /\ Expire(a) /\ Commands
Spec ==
  /\ Init /\ [][Next]_startAll
  /\ \A c \in Clients : WF_startAll(FinishOf(c))
  /\ \A a \in Agents : WF_startAll(ExpireOf(a))

-----------------------------------------------------------------------------
(* Properties                                                              *)

StartTypeOK ==
  /\ AgentTypeOK
  /\ up \in {"off", "schema", "on"} /\ seed \in {"off", "count", "add"}
  /\ channels \subseteq Tokens \X Agents \X (1..MaxStarts)
  /\ rest \subseteq Tokens \cup Defaults /\ starts \in 0..MaxStarts

\* An agent with a row has its workspace, wherever the process ends and
\* however its deletion fails; agents that an import brought back are not
\* meant.
RowsHaveHomes == rows \ restored \subseteq homes

\* Starts, cut off anywhere, do not repeat what an earlier one did: a legacy
\* token is one channel at most, and a default job is there once at most.
StartsDoNotRepeat ==
  /\ \A x, y \in channels : x[1] = y[1] => x = y
  /\ \A j \in Defaults : jobs[j] <= 1

\* A change of an agent, or its deletion, shows in the cache in the end, even
\* when a reader puts back what it read before.
CurrentEntry(a) == Fresh(a) => a \in rows /\ cache[a].version = version[a]
ChangesAreSeen == \A a \in Agents : []<>CurrentEntry(a)

\* What import_app_data is said to do: restore the agents' workspaces, and
\* the database.
ImportRestoresHomes == [][pending' \notin {Absent, pending} => archive.rows \subseteq homes']_startAll
=============================================================================
