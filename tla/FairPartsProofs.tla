--------------------------- MODULE FairPartsProofs ---------------------------
(***************************************************************************)
(* The safety of the two parts that MCFairParts puts side by side, for any *)
(* values of the constants: the start of the app with the agents, and the  *)
(* MCP servers.                                                            *)
(***************************************************************************)
EXTENDS MCFairParts, TLAPS, WellFoundedInduction

-----------------------------------------------------------------------------
(* That an agent with a row has its workspace.  The directory is made      *)
(* before the row and removed after it; what makes this enough is that an  *)
(* agent is created once, so that nobody inserts the row of an agent whose *)
(* directory goes.                                                         *)

Inserts(c) == task[c].pc \in {"insert", "import"}
Removes(c) == task[c].pc = "rmdir"

\* A row that is to be inserted is new, and its workspace is there.
InsertInv ==
  \A c \in Clients : Inserts(c) =>
    /\ Of(c) \in homes \ rows
    /\ \A d \in Clients : (Inserts(d) \/ Removes(d)) /\ Of(d) = Of(c) => d = c

RemoveInv == \A c \in Clients : Removes(c) => Of(c) \notin rows

\* All that is known of agents is of such as were created.
MadeInv ==
  /\ rows \cup homes \subseteq made /\ made \subseteq Agents
  /\ \A c \in Clients : Is(c, "idle") \/ Of(c) \in made
  /\ pending = Absent \/ pending.rows \subseteq made
  /\ archive = Absent \/ archive.rows \subseteq made

HomeInv ==
  /\ DOMAIN task = Clients
  /\ up # "on" => \A c \in Clients : Is(c, "idle")
  /\ RowsHaveHomes /\ InsertInv /\ RemoveInv /\ MadeInv

\* No agent, or the first with its workspace.
LEMMA HomeInit == Init => HomeInv
BY AgentsAssumption DEF Init, AgentInit, HomeInv, RowsHaveHomes, InsertInv, RemoveInv, MadeInv, Inserts, Removes,
       Is, Of, Idle

\* Any set of numbers that is not empty has a least one, so a new agent is new.
LEMMA NewIsNew ==
  ASSUME made \subseteq Agents, made # Agents
  PROVE  NewAgent \in Agents \ made
<1> DEFINE R == OpToRel(<, Nat)
           U == Agents \ made
<1>1. IsWellFoundedOn(R, Nat)
  BY NatLessThanWellFounded
<1>2. U \in SUBSET Nat /\ U # {}
  BY AgentsAssumption
<1>3. PICK m \in U : \A n \in U : ~ (<<n, m>> \in R)
  <2> HIDE DEF R, U
  <2>. QED
    BY <1>1, <1>2, WFMin
<1>4. \A k, n \in Nat : ~ (<<n, k>> \in R) => k <= n
  BY DEF OpToRel
<1>5. \E k \in U : \A n \in U : k <= n
  <2> HIDE DEF R, U
  <2>. QED
    BY <1>2, <1>3, <1>4
<1>. QED
  BY <1>5 DEF NewAgent

\* Each statement of a command on agents.
LEMMA CommandStep ==
  ASSUME HomeInv, Commands
  PROVE  HomeInv'
<1> USE DEF HomeInv, RowsHaveHomes, InsertInv, RemoveInv, MadeInv, Inserts, Removes, Is, Of, Idle,
            Goto, Return, table
<1>1. up = "on" /\ AgentNext /\ UNCHANGED <<up, archive, pending, restored>>
  BY DEF Commands, moved
<1>2. ASSUME NEW c \in Clients, Create(c) PROVE HomeInv'
  <2>1. NewAgent \in Agents \ made
    BY <1>2, NewIsNew DEF Create
  <2>2. PICK pc, v :
          pc \in {"insert", "import"} /\ task' = [task EXCEPT ![c] = [pc |-> pc, agent |-> NewAgent, version |-> v]]
    BY <1>2 DEF Create
  <2>3. /\ made' = made \cup {NewAgent} /\ homes' = homes \cup {NewAgent} /\ rows' = rows
        /\ task[c].pc = "idle"
    BY <1>2 DEF Create
  <2>4. \A d \in Clients : /\ d # c => task'[d] = task[d]
                           /\ task'[c].pc = pc /\ task'[c].agent = NewAgent
                           /\ task[d].pc # "idle" => task[d].agent # NewAgent
    BY <2>1, <2>2
  <2>5. InsertInv'
    BY <2>1, <2>2, <2>3, <2>4
  <2>6. RemoveInv' /\ MadeInv'
    BY <1>1, <2>1, <2>2, <2>3, <2>4
  <2>. QED
    BY <1>1, <2>2, <2>3, <2>5, <2>6
<1>3. ASSUME NEW c \in Clients, InsertRow(c) PROVE HomeInv'
  <2>1. /\ rows' = rows \cup {task[c].agent} /\ Inserts(c) /\ UNCHANGED <<homes, made>>
        /\ \/ task' = [task EXCEPT ![c] = [pc |-> "servers", agent |-> task[c].agent, version |-> 0]]
           \/ task' = [task EXCEPT ![c] = [pc |-> "idle", agent |-> 0, version |-> 0]]
    BY <1>3 DEF InsertRow
  <2>. QED
    BY <1>1, <2>1
<1>4. ASSUME NEW c \in Clients, ImportServers(c) \/ InvalidateCache(c) \/ PutEntry(c) PROVE HomeInv'
  <2>1. task' = [task EXCEPT ![c] = [pc |-> "idle", agent |-> 0, version |-> 0]]
        /\ UNCHANGED <<rows, homes, made>>
    BY <1>4 DEF ImportServers, InvalidateCache, PutEntry
  <2>. QED
    BY <1>1, <2>1
<1>5. ASSUME NEW c \in Clients, BeginDelete(c) \/ UpdateRow(c) \/ ReadRow(c) PROVE HomeInv'
  <2>1. PICK pc, a, v :
          /\ pc \in {"delete", "updated", "put"} /\ a \in made
          /\ task' = [task EXCEPT ![c] = [pc |-> pc, agent |-> a, version |-> v]]
    BY <1>5 DEF BeginDelete, UpdateRow, ReadRow
  <2>2. UNCHANGED <<rows, homes, made>>
    BY <1>5 DEF BeginDelete, UpdateRow, ReadRow
  <2>. QED
    BY <1>1, <2>1, <2>2
<1>6. ASSUME NEW c \in Clients, DeleteRow(c) PROVE HomeInv'
  <2>1. UNCHANGED <<homes, made>> /\ task[c].pc = "delete"
        /\ \/ /\ rows' = rows \ {task[c].agent} /\ task[c].agent \in rows
              /\ task' = [task EXCEPT ![c] = [pc |-> "rmdir", agent |-> task[c].agent, version |-> 0]]
           \/ /\ rows' = rows
              /\ task' = [task EXCEPT ![c] = [pc |-> "idle", agent |-> 0, version |-> 0]]
    BY <1>6 DEF DeleteRow
  <2>. QED
    BY <1>1, <2>1
<1>7. ASSUME NEW c \in Clients, RemoveHome(c) PROVE HomeInv'
  <2>1. homes \ {task[c].agent} \subseteq homes' /\ homes' \subseteq homes /\ task[c].pc = "rmdir"
        /\ UNCHANGED <<rows, made>>
        /\ task' = [task EXCEPT ![c] = [pc |-> "idle", agent |-> 0, version |-> 0]]
    BY <1>7 DEF RemoveHome
  <2>. QED
    BY <1>1, <2>1
<1>8. ASSUME NEW a \in Agents, Expire(a) \/ Refer(a) PROVE HomeInv'
  <2>1. UNCHANGED <<rows, homes, task, made>>
    BY <1>8 DEF Expire, Refer
  <2>. QED
    BY <1>1, <2>1
<1>. QED
  BY <1>1, <1>2, <1>3, <1>4, <1>5, <1>6, <1>7, <1>8 DEF AgentNext, Finish

\* The start, the end, the user's other commands and those on agents.
LEMMA HomeStep ==
  ASSUME HomeInv, [Next]_startAll
  PROVE  HomeInv'
<1> USE DEF HomeInv, RowsHaveHomes, InsertInv, RemoveInv, MadeInv, Inserts, Removes, Is, Of
<1>1. CASE Start
  <2>1. /\ \/ UNCHANGED <<rows, pending, restored>>
           \/ /\ pending # Absent /\ rows' = pending.rows /\ restored' = restored \cup pending.rows
              /\ pending' = Absent
        /\ up = "off" /\ up' = "schema" /\ UNCHANGED <<homes, task, made, archive>>
    BY <1>1 DEF Start, table
  <2>. QED
    BY <2>1
<1>2. CASE Migrate \/ Opened \/ CountJobs \/ AddDefault
  BY <1>2 DEF Migrate, Opened, CountJobs, AddDefault, agentVars, moved
<1>3. CASE Stop
  BY <1>3 DEF Stop, Idle, table, moved
<1>4. CASE DeleteChannel \/ ChangeJobs \/ Export \/ Import
  <2>1. UNCHANGED <<rows, homes, task, made, up, restored>>
    BY <1>4 DEF DeleteChannel, ChangeJobs, Export, Import, table, moved
  <2>2. /\ archive' = archive \/ archive'.rows = rows
        /\ pending' = pending \/ pending' = archive
    BY <1>4 DEF DeleteChannel, ChangeJobs, Export, Import, Database, moved
  <2>. QED
    BY <2>1, <2>2
<1>5. CASE Commands
  BY <1>5, CommandStep
<1>6. CASE UNCHANGED startAll
  BY <1>6 DEF startAll, agentVars, startVars
<1>. QED
  BY <1>1, <1>2, <1>3, <1>4, <1>5, <1>6 DEF Next

\* Register, clone, import and delete an agent in any order, cut off anywhere, and with
\* directories that cannot be removed: a row always has its workspace, unless an import
\* of the app's data brought it back.
THEOREM HomesOutliveRows == Spec => []RowsHaveHomes
<1>1. Init => HomeInv
  BY HomeInit
<1>2. HomeInv /\ [Next]_startAll => HomeInv'
  BY HomeStep
<1>3. HomeInv => RowsHaveHomes
  BY DEF HomeInv
<1>. QED
  BY <1>1, <1>2, <1>3, PTL DEF Spec
-----------------------------------------------------------------------------
(* That starts repeat nothing.  A start that has tokens to turn into       *)
(* channels found no channel, and the task that has defaults to add found  *)
(* no job; nobody else adds either.                                        *)

OneEach(chs) == \A x, y \in chs : x[1] = y[1] => x = y

SeedsOnce(js) == js \in [Defaults \cup {Own} -> Nat] /\ \A j \in Defaults : js[j] <= 1

SavedInv(d) == d = Absent \/ (OneEach(d.channels) /\ SeedsOnce(d.jobs))

StartInv ==
  /\ OneEach(channels) /\ SeedsOnce(jobs)
  /\ SavedInv(pending) /\ SavedInv(archive)
  /\ seed # "off" => up = "on"
  /\ up = "schema" => \A x \in channels : x[1] \notin rest
  /\ seed = "add" => \A j \in rest : j \in Defaults /\ jobs[j] = 0

LEMMA StartInit == Init => StartInv
BY DEF Init, AgentInit, StartInv, OneEach, SeedsOnce, SavedInv, NoJobs

LEMMA StartStep ==
  ASSUME StartInv, [Next]_startAll
  PROVE  StartInv'
<1> USE DEF StartInv
<1>1. CASE Start
  <2>1. CASE pending = Absent
    <3>1. /\ up' = "schema" /\ UNCHANGED <<channels, jobs, pending, archive, seed>> /\ seed = "off"
          /\ rest' = IF channels = {} /\ rows' # {} THEN Tokens ELSE {}
      BY <1>1, <2>1 DEF Start
    <3> QED BY <3>1 DEF SavedInv
  <2>2. CASE pending # Absent
    <3>1. /\ up' = "schema" /\ UNCHANGED <<archive, seed>> /\ seed = "off"
          /\ channels' = pending.channels /\ jobs' = pending.jobs /\ pending' = Absent
          /\ rest' = IF channels' = {} /\ rows' # {} THEN Tokens ELSE {}
      BY <1>1, <2>2 DEF Start
    <3> QED BY <2>2, <3>1 DEF SavedInv
  <2> QED BY <2>1, <2>2
<1>2. CASE Migrate
  <2>1. PICK t \in rest : channels' = channels \cup {<<t, target, starts>>} /\ rest' = rest \ {t}
    BY <1>2 DEF Migrate
  <2>2. up = "schema" /\ UNCHANGED <<up, jobs, seed, pending, archive>>
    BY <1>2 DEF Migrate, moved
  <2>3. OneEach(channels') /\ \A x \in channels' : x[1] \notin rest'
    BY <2>1, <2>2 DEF OneEach
  <2> QED BY <2>1, <2>2, <2>3
<1>3. CASE Opened
  BY <1>3 DEF Opened, moved
<1>4. CASE CountJobs
  <2>1. /\ \/ seed' = "add" /\ rest' = Defaults /\ jobs = NoJobs
           \/ seed' = "off" /\ rest' = rest
        /\ seed = "count" /\ UNCHANGED <<up, channels, jobs, pending, archive>>
    BY <1>4 DEF CountJobs, moved
  <2>2. up = "on" /\ \A j \in Defaults : jobs = NoJobs => jobs[j] = 0
    BY <2>1 DEF NoJobs
  <2> QED BY <2>1, <2>2
<1>5. CASE AddDefault
  <2>1. /\ seed = "add" /\ UNCHANGED <<up, channels, pending, archive>>
        /\ \/ \E j \in rest : /\ jobs' = [jobs EXCEPT ![j] = @ + 1] /\ rest' = rest \ {j}
                              /\ UNCHANGED seed
           \/ seed' = "off" /\ UNCHANGED <<jobs, rest>>
    BY <1>5 DEF AddDefault, moved
  <2>2. CASE seed' = "off" /\ UNCHANGED <<jobs, rest>>
    BY <2>1, <2>2
  <2>3. ASSUME NEW j \in rest, jobs' = [jobs EXCEPT ![j] = @ + 1], rest' = rest \ {j}, UNCHANGED seed
        PROVE  StartInv'
    <3>1. j \in Defaults /\ jobs[j] = 0
      BY <2>1
    <3>2. SeedsOnce(jobs') /\ \A k \in Defaults \ {j} : jobs'[k] = jobs[k]
      BY <2>3, <3>1 DEF SeedsOnce
    <3> QED BY <2>1, <2>3, <3>2
  <2> QED BY <2>1, <2>2, <2>3
<1>6. CASE Stop
  BY <1>6 DEF Stop, moved
<1>7. CASE DeleteChannel
  <2>1. /\ channels' \subseteq channels /\ UNCHANGED <<up, jobs, seed, rest, pending, archive>>
    BY <1>7 DEF DeleteChannel, moved
  <2> QED BY <2>1 DEF OneEach
<1>8. CASE ChangeJobs
  <2>1. UNCHANGED <<up, channels, seed, rest, pending, archive>>
    BY <1>8 DEF ChangeJobs, moved
  <2>2. SeedsOnce(jobs') /\ \A j \in Defaults : jobs[j] = 0 => jobs'[j] = 0
    <3>1. CASE jobs' = [jobs EXCEPT ![Own] = 1]
      BY <3>1, OwnAssumption DEF SeedsOnce
    <3>2. CASE \E j \in DOMAIN jobs : jobs[j] > 0 /\ jobs' = [jobs EXCEPT ![j] = @ - 1]
      <4>1. PICK j \in DOMAIN jobs : jobs[j] > 0 /\ jobs' = [jobs EXCEPT ![j] = @ - 1]
        BY <3>2
      <4>2. j \in Defaults \cup {Own} /\ jobs[j] - 1 \in Nat
        BY <4>1 DEF SeedsOnce
      <4> QED BY <4>1, <4>2 DEF SeedsOnce
    <3> QED BY <1>8, <3>1, <3>2 DEF ChangeJobs
  <2> QED BY <2>1, <2>2
<1>9. CASE Export
  <2>1. archive' = Database /\ UNCHANGED <<up, channels, jobs, seed, rest, pending>>
    BY <1>9 DEF Export
  <2>2. SavedInv(archive')
    BY <2>1 DEF Database, SavedInv
  <2> QED BY <2>1, <2>2
<1>10. CASE Import
  BY <1>10 DEF Import
<1>11. CASE Commands
  <2>1. channels' \subseteq channels /\ UNCHANGED <<up, jobs, seed, rest, pending, archive>>
    BY <1>11 DEF Commands, moved
  <2> QED BY <2>1 DEF OneEach
<1>12. CASE UNCHANGED startAll
  BY <1>12 DEF startAll, startVars
<1> QED BY <1>1, <1>2, <1>3, <1>4, <1>5, <1>6, <1>7, <1>8, <1>9, <1>10, <1>11, <1>12 DEF Next

\* However often the app is started, cut off anywhere, and with databases exported and
\* imported: a legacy token is never two channels, and a default job never there twice.
THEOREM StartsRepeatNothing == Spec => []StartsDoNotRepeat
<1>1. StartInv => StartsDoNotRepeat
  BY DEF StartInv, OneEach, SeedsOnce, StartsDoNotRepeat
<1>2. StartInv /\ [Next]_startAll => StartInv'
  BY StartStep
<1> QED BY <1>1, <1>2, StartInit, PTL DEF Spec

-----------------------------------------------------------------------------
(* The MCP servers.  The lock is held by who connects or waits, and as     *)
(* long as nobody stopped waiting for an answer and the server asked for   *)
(* nothing itself, what is on its way on a connection is what the waiting  *)
(* call asked for.                                                         *)

McpShape ==
  /\ DOMAIN caller = Turns \cup Jobs /\ DOMAIN conn = Servers
  /\ \A p \in Turns \cup Jobs : {"pc", "todo", "offered", "asked", "server"} \subseteq DOMAIN caller[p]
  /\ \A s \in Servers : {"state", "queue", "pipe", "shifted"} \subseteq DOMAIN conn[s]

LockInv == \A p \in Turns \cup Jobs : caller[p].pc \in {"connect", "waiting"} => holder = p

Waits(p, s) == caller[p].pc = "waiting" /\ caller[p].server = s

Empty(c) == c.queue = <<>> /\ c.pipe = <<>>

\* The question is in the server's hands, its answer is in the pipe, or the
\* server has exited.
Carries(c, q) ==
  \/ c.pipe = <<>> /\ c.queue \in {<<>>, <<q>>}
  \/ c.queue = <<>> /\ c.pipe = <<q>>

PipeInv ==
  \A s \in Servers :
    /\ conn[s].state \notin {"up", "chatty"} => conn[s].queue = <<>>
    /\ ~ conn[s].shifted => /\ \A p \in Turns \cup Jobs : Waits(p, s) => Carries(conn[s], caller[p].asked)
                            /\ (\A p \in Turns \cup Jobs : ~ Waits(p, s)) => Empty(conn[s])

ServerInv == \A p \in Turns \cup Jobs : caller[p].pc = "waiting" => caller[p].server \in Servers

McpInv == McpShape /\ LockInv /\ ServerInv /\ PipeInv

LEMMA McpInit == Mcp!Init => McpInv
<1> SUFFICES ASSUME Mcp!Init PROVE McpInv
  OBVIOUS
<1>1. caller = [p \in Turns \cup Jobs |-> Mcp!Away] /\ conn = [s \in Servers |-> Mcp!Gone]
  BY DEF Mcp!Init, Mcp!Callers
<1>2. McpShape
  BY <1>1 DEF McpShape, Mcp!Away, Mcp!Gone
<1>3. LockInv /\ ServerInv /\ PipeInv
  BY <1>1 DEF LockInv, ServerInv, PipeInv, Waits, Empty, Mcp!Away, Mcp!Gone
<1> QED BY <1>2, <1>3 DEF McpInv

\* Nobody waits while the lock is free, or held by one who connects.
LEMMA NobodyWaits ==
  ASSUME McpInv, NEW p \in Turns \cup Jobs, holder = None \/ (holder = p /\ caller[p].pc # "waiting")
  PROVE  \A r \in Turns \cup Jobs : caller[r].pc # "waiting"
BY McpAssumption DEF McpInv, LockInv

\* A step that leaves the connections and who waits for what as they are.
LEMMA McpQuiet ==
  ASSUME McpInv, UNCHANGED conn, McpShape', LockInv',
         \A p \in Turns \cup Jobs :
           /\ caller'[p].pc = "waiting" <=> caller[p].pc = "waiting"
           /\ caller[p].pc = "waiting" => caller'[p] = caller[p]
  PROVE  McpInv'
<1>1. \A p \in Turns \cup Jobs, s \in Servers : Waits(p, s)' <=> Waits(p, s)
  BY DEF Waits
<1>2. ServerInv'
  BY DEF McpInv, ServerInv
<1>3. PipeInv'
  BY <1>1 DEF McpInv, PipeInv, Waits
<1> QED BY <1>2, <1>3 DEF McpInv

\* A step of a caller that does not wait, and takes no lock that is held.
LEMMA CallerStep ==
  ASSUME McpInv, NEW p \in Turns \cup Jobs,
         \/ Mcp!Begin(p) \/ Mcp!Stamp(p) \/ Mcp!Refreshed(p) \/ Mcp!Offer(p) \/ Mcp!EndTurn(p)
         \/ Mcp!DropJob(p) /\ caller[p].pc # "waiting"
  PROVE  McpInv'
<1> USE DEF Mcp!At
<1>1. /\ UNCHANGED conn /\ caller[p].pc # "waiting"
      /\ \/ holder' = holder
         \/ holder = p /\ holder' = None
  BY DEF Mcp!Begin, Mcp!Stamp, Mcp!Refreshed, Mcp!Offer, Mcp!EndTurn, Mcp!DropJob, Mcp!Unlock
<1>2. /\ McpShape' /\ caller'[p].pc \in {"idle", "stamp", "lock", "offer", "ready"}
      /\ \A r \in (Turns \cup Jobs) \ {p} : caller'[r] = caller[r]
  <2> USE <1>1
  <2>1. CASE Mcp!Begin(p)
    BY <2>1 DEF McpInv, McpShape, Mcp!Begin
  <2>2. CASE Mcp!Stamp(p) \/ Mcp!Refreshed(p)
    BY <2>2 DEF McpInv, McpShape, Mcp!Stamp, Mcp!Refreshed, Mcp!Goto
  <2>3. CASE Mcp!Offer(p)
    BY <2>3 DEF McpInv, McpShape, Mcp!Offer
  <2>4. CASE Mcp!EndTurn(p) \/ Mcp!DropJob(p)
    BY <2>4 DEF McpInv, McpShape, Mcp!EndTurn, Mcp!DropJob, Mcp!Away
  <2> QED BY <2>1, <2>2, <2>3, <2>4
<1>3. LockInv'
  BY <1>1, <1>2 DEF McpInv, LockInv
<1> QED BY <1>1, <1>2, <1>3, McpQuiet

\* Connections are stopped and made while nobody waits, so they are empty.
LEMMA ConnectStep ==
  ASSUME McpInv, NEW p \in Turns \cup Jobs, Mcp!StopStale(p) \/ Mcp!Connect(p)
  PROVE  McpInv'
<1> USE DEF Mcp!At
<1>1. /\ \A r \in Turns \cup Jobs : caller[r].pc # "waiting"
      /\ holder' = p /\ caller[p].pc \in {"lock", "connect"}
      /\ holder = None \/ holder = p
  <2>1. caller[p].pc \in {"lock", "connect"} /\ holder' = p /\ (holder = None \/ holder = p)
    BY DEF Mcp!StopStale, Mcp!Connect, Mcp!Lock, McpInv, LockInv
  <2> QED BY <2>1, NobodyWaits
<1>2. /\ McpShape' /\ caller'[p].pc = "connect"
      /\ \A r \in (Turns \cup Jobs) \ {p} : caller'[r] = caller[r]
      /\ \A s \in Servers : conn'[s] \in {conn[s], Mcp!Gone, Mcp!Opened}
  <2>1. CASE Mcp!StopStale(p)
    BY <2>1 DEF McpInv, McpShape, Mcp!StopStale, Mcp!Gone
  <2>2. CASE Mcp!Connect(p)
    <3>1. PICK s \in caller[p].todo :
            /\ caller' = [caller EXCEPT ![p].todo = @ \ {s}]
            /\ conn' = [conn EXCEPT ![s] = Mcp!Opened] \/ UNCHANGED conn
      BY <2>2 DEF Mcp!Connect
    <3>2. caller[p].pc = "connect"
      BY <2>2 DEF Mcp!Connect
    <3> QED BY <3>1, <3>2 DEF McpInv, McpShape, Mcp!Opened, Mcp!Gone
  <2> QED BY <2>1, <2>2
<1>3. LockInv'
  BY <1>1, <1>2, McpAssumption DEF McpInv, LockInv
<1>4. \A r \in Turns \cup Jobs : caller'[r].pc # "waiting"
  BY <1>1, <1>2
<1>5. \A s \in Servers : /\ conn[s].state \notin {"up", "chatty"} => conn[s].queue = <<>>
                         /\ ~ conn[s].shifted => Empty(conn[s])
  BY <1>1 DEF McpInv, PipeInv, Waits
<1>6. Mcp!Gone.queue = <<>> /\ Empty(Mcp!Gone) /\ Mcp!Opened.queue = <<>> /\ Empty(Mcp!Opened)
  BY DEF Mcp!Gone, Mcp!Opened, Empty
<1>7. PipeInv'
  <2> SUFFICES ASSUME NEW s \in Servers
               PROVE  /\ conn'[s].state \notin {"up", "chatty"} => conn'[s].queue = <<>>
                      /\ ~ conn'[s].shifted => Empty(conn'[s])
    BY <1>4 DEF PipeInv, Waits
  <2> QED BY <1>2, <1>5, <1>6
<1> QED BY <1>2, <1>3, <1>4, <1>7 DEF McpInv, ServerInv

\* A call takes a connection that nobody uses.
LEMMA CallStep == ASSUME McpInv, NEW p \in Turns \cup Jobs, Mcp!Call(p) PROVE McpInv'
<1> USE DEF Mcp!At
<1>1. PICK s \in Servers :
        /\ conn[s].state \in {"up", "chatty"}
        /\ conn' = [conn EXCEPT ![s].queue = Append(@, calls + 1)]
        /\ caller' = [caller EXCEPT ![p].pc = "waiting", ![p].asked = calls + 1, ![p].server = s]
  BY DEF Mcp!Call, Mcp!Running
<1>2. /\ holder = None /\ holder' = p
      /\ \A r \in Turns \cup Jobs : caller[r].pc # "waiting"
  BY NobodyWaits DEF Mcp!Call, Mcp!Lock
<1>3. /\ McpShape' /\ caller'[p].pc = "waiting" /\ caller'[p].asked = calls + 1 /\ caller'[p].server = s
      /\ \A r \in (Turns \cup Jobs) \ {p} : caller'[r] = caller[r]
      /\ conn'[s].state = conn[s].state /\ conn'[s].shifted = conn[s].shifted
      /\ conn'[s].pipe = conn[s].pipe /\ conn'[s].queue = Append(conn[s].queue, calls + 1)
      /\ \A t \in Servers \ {s} : conn'[t] = conn[t]
  BY <1>1 DEF McpInv, McpShape
<1>4. LockInv'
  BY <1>2, <1>3, McpAssumption DEF McpInv, LockInv
<1>5. PipeInv'
  <2>1. ~ conn[s].shifted => Carries(conn'[s], calls + 1)
    <3>1. Append(<<>>, calls + 1) = <<calls + 1>>
      OBVIOUS
    <3>2. ~ conn[s].shifted => Empty(conn[s])
      BY <1>2 DEF McpInv, PipeInv, Waits
    <3> QED BY <1>3, <3>1, <3>2 DEF Carries, Empty
  <2>2. \A r \in Turns \cup Jobs, t \in Servers : Waits(r, t)' <=> r = p /\ t = s
    BY <1>2, <1>3 DEF Waits
  <2>3. \A t \in Servers : ~ conn[t].shifted => Empty(conn[t])
    BY <1>2 DEF McpInv, PipeInv, Waits
  <2>4. \A t \in Servers : conn'[t].state \notin {"up", "chatty"} => conn'[t].queue = <<>>
    BY <1>1, <1>3 DEF McpInv, PipeInv
  <2>5. ASSUME NEW t \in Servers, ~ conn'[t].shifted
        PROVE  /\ \A r \in Turns \cup Jobs : Waits(r, t)' => Carries(conn'[t], caller'[r].asked)
               /\ (\A r \in Turns \cup Jobs : ~ Waits(r, t)') => Empty(conn'[t])
    <3>1. CASE t = s
      BY <1>3, <2>1, <2>2, <2>5, <3>1
    <3>2. CASE t # s
      BY <1>3, <2>2, <2>3, <2>5, <3>2
    <3> QED BY <3>1, <3>2
  <2> QED BY <2>4, <2>5 DEF PipeInv
<1> QED BY <1>2, <1>3, <1>4, <1>5 DEF McpInv, ServerInv

\* A caller has its answer, learns that the server has exited, or waits no longer;
\* then the connection is empty, or known as one that somebody left.
LEMMA AwaitStep ==
  ASSUME McpInv, NEW p \in Turns \cup Jobs,
         Mcp!Await(p) \/ (Mcp!DropJob(p) /\ caller[p].pc = "waiting")
  PROVE  McpInv'
<1> USE DEF Mcp!At
<1> DEFINE s == caller[p].server
<1>1. caller[p].pc = "waiting" /\ holder = p /\ s \in Servers
  BY DEF Mcp!Await, Mcp!Receive, Mcp!ReadClosed, Mcp!TimeOut, McpInv, LockInv, ServerInv
<1>2. /\ McpShape' /\ caller'[p].pc \in {"idle", "ready"}
      /\ \A r \in (Turns \cup Jobs) \ {p} : caller'[r] = caller[r]
      /\ \A t \in Servers \ {s} : conn'[t] = conn[t]
  <2>1. /\ DOMAIN caller' = Turns \cup Jobs /\ caller'[p].pc \in {"idle", "ready"}
        /\ \A r \in Turns \cup Jobs : {"pc", "todo", "offered", "asked", "server"} \subseteq DOMAIN caller'[r]
        /\ \A r \in (Turns \cup Jobs) \ {p} : caller'[r] = caller[r]
    BY DEF McpInv, McpShape, Mcp!Await, Mcp!Receive, Mcp!ReadClosed, Mcp!TimeOut, Mcp!DropJob,
           Mcp!Answered, Mcp!Away
  <2>2. /\ DOMAIN conn' = Servers
        /\ \A t \in Servers : {"state", "queue", "pipe", "shifted"} \subseteq DOMAIN conn'[t]
        /\ \A t \in Servers \ {s} : conn'[t] = conn[t]
    BY DEF McpInv, McpShape, Mcp!Await, Mcp!Receive, Mcp!ReadClosed, Mcp!TimeOut, Mcp!DropJob,
           Mcp!Abandoned
  <2> QED BY <2>1, <2>2 DEF McpShape
<1>3. LockInv' /\ \A r \in Turns \cup Jobs : caller'[r].pc # "waiting"
  BY <1>1, <1>2 DEF McpInv, LockInv
<1>4. conn[s].shifted \/ Carries(conn[s], caller[p].asked)
  BY <1>1 DEF McpInv, PipeInv, Waits
<1>5. /\ conn'[s].state \notin {"up", "chatty"} => conn'[s].queue = <<>>
      /\ ~ conn'[s].shifted => Empty(conn'[s])
  <2>0. conn[s].state \notin {"up", "chatty"} => conn[s].queue = <<>>
    BY <1>1 DEF McpInv, PipeInv
  <2>1. CASE Mcp!Receive(p)
    <3>1. /\ conn'[s].pipe = Tail(conn[s].pipe) /\ conn'[s].queue = conn[s].queue
          /\ conn'[s].shifted = conn[s].shifted /\ conn'[s].state = conn[s].state /\ conn[s].pipe # <<>>
      BY <1>1, <2>1 DEF McpInv, McpShape, Mcp!Receive
    <3>2. Tail(<<caller[p].asked>>) = <<>>
      OBVIOUS
    <3> HIDE DEF s
    <3> QED BY <1>4, <2>0, <3>1, <3>2 DEF Carries, Empty
  <2>2. CASE Mcp!ReadClosed(p)
    BY <1>4, <2>0, <2>2 DEF Mcp!ReadClosed, Empty
  <2>3. CASE Mcp!Abandoned(s)
    BY <1>1, <2>0, <2>3 DEF McpInv, McpShape, Mcp!Abandoned, Empty
  <2> QED BY <2>1, <2>2, <2>3 DEF Mcp!Await, Mcp!TimeOut, Mcp!DropJob
<1>6. PipeInv'
  <2> SUFFICES ASSUME NEW t \in Servers
               PROVE  /\ conn'[t].state \notin {"up", "chatty"} => conn'[t].queue = <<>>
                      /\ ~ conn'[t].shifted => Empty(conn'[t])
    BY <1>3 DEF PipeInv, Waits
  <2>1. CASE t = s
    BY <1>5, <2>1
  <2>2. CASE t # s
    <3>1. \A r \in Turns \cup Jobs : ~ Waits(r, t)
      BY <1>1, <2>2 DEF Waits, McpInv, LockInv
    <3> QED BY <1>2, <2>2, <3>1 DEF McpInv, PipeInv
  <2> QED BY <2>1, <2>2
<1> QED BY <1>2, <1>3, <1>6 DEF McpInv, ServerInv

\* The server answers what it was asked, asks something, exits, or begins to chat.
LEMMA ServerStep ==
  ASSUME McpInv, NEW s \in Servers, Mcp!Answer(s) \/ Mcp!Ask(s) \/ Mcp!Change(s)
  PROVE  McpInv'
<1>1. UNCHANGED <<caller, holder>>
  BY DEF Mcp!Answer, Mcp!Ask, Mcp!Change
<1>2. McpShape' /\ (conn[s].shifted => conn'[s].shifted) /\ \A t \in Servers \ {s} : conn'[t] = conn[t]
  BY <1>1 DEF McpInv, McpShape, Mcp!Answer, Mcp!Ask, Mcp!Change
<1>3. /\ conn'[s].state \notin {"up", "chatty"} => conn'[s].queue = <<>>
      /\ conn'[s].shifted \/ \A q : Carries(conn[s], q) => Carries(conn'[s], q)
      /\ conn'[s].shifted \/ (Empty(conn[s]) => Empty(conn'[s]))
  <2>1. CASE Mcp!Answer(s)
    <3>1. /\ conn[s].state \in {"up", "chatty"} /\ conn'[s].state = conn[s].state
          /\ conn[s].queue # <<>> /\ conn'[s].queue = Tail(conn[s].queue)
          /\ conn'[s].pipe = Append(conn[s].pipe, Head(conn[s].queue))
      BY <2>1 DEF McpInv, McpShape, Mcp!Answer, Mcp!Running
    <3>2. \A q : Tail(<<q>>) = <<>> /\ Append(<<>>, Head(<<q>>)) = <<q>>
      OBVIOUS
    <3> QED BY <3>1, <3>2 DEF Carries, Empty
  <2>2. CASE Mcp!Change(s)
    <3>1. /\ conn'[s].pipe = conn[s].pipe
          /\ \/ conn'[s].queue = <<>>
             \/ conn'[s].queue = conn[s].queue /\ conn'[s].state = "chatty"
      BY <2>2 DEF McpInv, McpShape, Mcp!Change
    <3> QED BY <3>1 DEF Carries, Empty
  <2>3. CASE Mcp!Ask(s)
    BY <2>3 DEF McpInv, McpShape, Mcp!Ask, Mcp!Running
  <2> QED BY <2>1, <2>2, <2>3
<1>4. PipeInv'
  <2>1. \A p \in Turns \cup Jobs, t \in Servers : Waits(p, t)' <=> Waits(p, t)
    BY <1>1 DEF Waits
  <2> QED BY <1>1, <1>2, <1>3, <2>1 DEF McpInv, PipeInv
<1> QED BY <1>1, <1>2, <1>4 DEF McpInv, LockInv, ServerInv

LEMMA McpStep == McpInv /\ [Mcp!Next]_(Mcp!vars) => McpInv'
<1> SUFFICES ASSUME McpInv, [Mcp!Next]_(Mcp!vars) PROVE McpInv'
  OBVIOUS
<1>1. ASSUME NEW p \in Turns \cup Jobs,
             \/ Mcp!Begin(p) \/ Mcp!Refresh(p) \/ Mcp!Call(p) \/ Mcp!Await(p) \/ Mcp!EndTurn(p)
             \/ Mcp!DropJob(p)
      PROVE  McpInv'
  BY <1>1, CallerStep, ConnectStep, CallStep, AwaitStep DEF Mcp!Refresh
<1>2. CASE Mcp!User \/ (\E a \in Agents : Mcp!Expire(a)) \/ UNCHANGED Mcp!vars
  <2>1. UNCHANGED <<conn, holder, caller>>
    BY <1>2 DEF Mcp!User, Mcp!InvalidateCache, Mcp!AddServer, Mcp!ImportServer, Mcp!RemoveServer,
                Mcp!ToggleServer, Mcp!Command, Mcp!Expire, Mcp!vars
  <2> QED BY <2>1, McpQuiet DEF McpInv, McpShape, LockInv
<1>3. ASSUME NEW s \in Servers, Mcp!Answer(s) \/ Mcp!Ask(s) \/ Mcp!Change(s) PROVE McpInv'
  BY <1>3, ServerStep
<1> QED BY <1>1, <1>2, <1>3 DEF Mcp!Next, Mcp!Callers

\* However turns, jobs, refreshes and exits interleave, a waiting call reads the answer
\* to what it asked, as long as on its connection no earlier call stopped waiting and the
\* server sent no request of its own.  While neither happens the one lock stands in for
\* the comparison of ids that send_request does not make; after either, it does not.
THEOREM CallsReadTheirAnswers == Mcp!Spec => []OwnAnswer
<1>1. McpInv => OwnAnswer
  <2> SUFFICES ASSUME McpInv, NEW p \in Turns \cup Jobs, caller[p].pc = "waiting",
                      conn[caller[p].server].pipe # <<>>
               PROVE  Head(conn[caller[p].server].pipe) = caller[p].asked \/ conn[caller[p].server].shifted
    BY DEF OwnAnswer, Mcp!OwnAnswer, Mcp!Callers, Mcp!At
  <2>1. Head(<<caller[p].asked>>) = caller[p].asked
    OBVIOUS
  <2> QED BY <2>1 DEF McpInv, ServerInv, PipeInv, Waits, Carries
<1> QED BY <1>1, McpInit, McpStep, PTL DEF Mcp!Spec

=============================================================================
