----------------------------- MODULE AgentStore -----------------------------
(***************************************************************************)
(* The agents: their rows in the table agents, their workspace directories *)
(* and the cache of rows that turns read (agent/agent_store.rs), with the  *)
(* commands that create, copy, import, change and delete them              *)
(* (handlers/agents.rs, gateway/api.rs).                                   *)
(*                                                                         *)
(* An agent is a number, given in the order of creation; each is created   *)
(* once.  Directories can be made and removed; a copy that fails leaves    *)
(* its directory, as a crash does.                                         *)
(***************************************************************************)
EXTENDS Naturals, FiniteSets

CONSTANTS
  Agents,   \* 1..n
  Clients,  \* tasks: commands, gateway requests, turns
  Nobody,   \* no cache entry
  MaxCommands  \* how many commands there are

ASSUME AgentsAssumption == Agents \subseteq Nat /\ 1 \in Agents

VARIABLES
  rows,     \* agents with a row
  homes,    \* agents with a workspace directory
  owned,    \* agents that rows of other tables refer to: sessions, memories,
            \* vectors and MCP servers, without ON DELETE CASCADE
  version,  \* what the row of each says
  cache,    \* the entries of get_cached
  task,     \* what each client is doing
  made,     \* agents created so far
  begun     \* commands so far

agentVars == <<rows, homes, owned, version, cache, task, made, begun>>
table     == <<rows, owned, version>>

Idle == [pc |-> "idle", agent |-> 0, version |-> 0]
Is(c, pc) == task[c].pc = pc
Goto(c, pc, a, v) == task' = [task EXCEPT ![c] = [pc |-> pc, agent |-> a, version |-> v]]
Return(c) == task' = [task EXCEPT ![c] = Idle]
Of(c) == task[c].agent

Command == begun < MaxCommands /\ begun' = begun + 1

Forget(a) == cache' = [cache EXCEPT ![a] = Nobody]

-----------------------------------------------------------------------------
(* Creating                                                                *)

\* register, clone_agent and import_agent_bundle make the directory first; a
\* clone also needs the row of its original, and copies its files.
NewAgent == LET rest == Agents \ made IN CHOOSE a \in rest : \A b \in rest : a <= b

Create(c) ==
  /\ Is(c, "idle") /\ made # Agents
  /\ made' = made \cup {NewAgent}
  /\ homes' = homes \cup {NewAgent}
  /\ \/ Goto(c, "insert", NewAgent, 0)
     \/ \E a \in rows : Goto(c, "insert", NewAgent, version[a])
     \/ Goto(c, "import", NewAgent, 0)
  /\ Command
  /\ UNCHANGED <<table, cache>>

InsertRow(c) ==
  /\ Is(c, "insert") \/ Is(c, "import")
  /\ rows' = rows \cup {Of(c)}
  /\ version' = [version EXCEPT ![Of(c)] = task[c].version]
  /\ Forget(Of(c))
  /\ IF Is(c, "import") THEN Goto(c, "servers", Of(c), 0) ELSE Return(c)
  /\ UNCHANGED <<homes, owned, made, begun>>

\* The MCP servers of a bundle; the error of a missing agent is dropped.
ImportServers(c) ==
  /\ Is(c, "servers")
  /\ owned' = owned \cup (rows \cap {Of(c)})
  /\ Return(c)
  /\ UNCHANGED <<rows, homes, version, cache, made, begun>>

-----------------------------------------------------------------------------
(* Deleting                                                                *)

\* Mutant: the directory goes with the first statement.
HomeFirst(c) ==
  /\ Is(c, "idle")
  /\ \E a \in made : Goto(c, "delete", a, 0) /\ homes' = homes \ {a}
  /\ Command
  /\ UNCHANGED <<table, cache, made>>

\* After the automatic backup the path is read.
BeginDelete(c) ==
  /\ Is(c, "idle")
  /\ \E a \in made : Goto(c, "delete", a, 0)
  /\ Command
  /\ UNCHANGED <<table, homes, cache, made>>

\* Foreign keys are on: the row of an agent others refer to stays.
DeleteRow(c) ==
  /\ Is(c, "delete")
  /\ IF Of(c) \in rows \ owned
     THEN rows' = rows \ {Of(c)} /\ Goto(c, "rmdir", Of(c), 0)
     ELSE Return(c) /\ UNCHANGED rows
  /\ UNCHANGED <<homes, owned, version, cache, made, begun>>

RemoveHome(c) ==
  /\ Is(c, "rmdir")
  /\ homes' \in {homes, homes \ {Of(c)}}
  /\ Forget(Of(c))
  /\ Return(c)
  /\ UNCHANGED <<table, made, begun>>

-----------------------------------------------------------------------------
(* Changing and reading                                                    *)

UpdateRow(c) ==
  /\ Is(c, "idle")
  /\ \E a \in rows :
       /\ version' = [version EXCEPT ![a] = @ + 1]
       /\ Goto(c, "updated", a, 0)
  /\ Command
  /\ UNCHANGED <<rows, homes, owned, cache, made>>

InvalidateCache(c) ==
  /\ Is(c, "updated")
  /\ Forget(Of(c)) /\ Return(c)
  /\ UNCHANGED <<table, homes, made, begun>>

Fresh(a) == cache[a] # Nobody /\ cache[a].fresh

\* get_cached: a fresh entry is used; otherwise the row is read, and put into
\* the cache later.
ReadRow(c) ==
  /\ Is(c, "idle")
  /\ \E a \in rows : ~ Fresh(a) /\ Goto(c, "put", a, version[a])
  /\ Command
  /\ UNCHANGED <<table, homes, cache, made>>

PutEntry(c) ==
  /\ Is(c, "put")
  /\ cache' = [cache EXCEPT ![Of(c)] = [version |-> task[c].version, fresh |-> TRUE]]
  /\ Return(c)
  /\ UNCHANGED <<table, homes, made, begun>>

\* Mutant: an entry is good until it is invalidated.
NeverExpires(a) == FALSE /\ UNCHANGED agentVars

\* Five seconds have passed since the entry was put.
Expire(a) ==
  /\ Fresh(a)
  /\ cache' = [cache EXCEPT ![a].fresh = FALSE]
  /\ UNCHANGED <<table, homes, task, made, begun>>

\* A turn opens a session, or writes a memory; sessions can be deleted.
Refer(a) ==
  /\ a \in rows
  /\ owned' \in {owned \cup {a}, owned \ {a}} \ {owned}
  /\ Command
  /\ UNCHANGED <<rows, homes, version, cache, task, made>>

-----------------------------------------------------------------------------
AgentInit ==
  /\ rows \in {{}, {1}} /\ homes = rows /\ made = rows /\ owned = {} /\ begun = 0
  /\ version = [a \in Agents |-> 0]
  /\ cache = [a \in Agents |-> Nobody]
  /\ task = [c \in Clients |-> Idle]

Finish(c) == \/ InsertRow(c) \/ ImportServers(c) \/ DeleteRow(c) \/ RemoveHome(c)
             \/ InvalidateCache(c) \/ PutEntry(c)

AgentNext ==
  \/ \E c \in Clients : Create(c) \/ BeginDelete(c) \/ UpdateRow(c) \/ ReadRow(c) \/ Finish(c)
  \/ \E a \in Agents : Expire(a) \/ Refer(a)

AgentTypeOK ==
  /\ {rows, homes, owned, made} \subseteq SUBSET Agents
  /\ version \in [Agents -> 0..MaxCommands]
  /\ cache \in [Agents -> [version : 0..MaxCommands, fresh : BOOLEAN] \cup {Nobody}]
  /\ begun \in 0..MaxCommands
=============================================================================
