----------------------------- MODULE McpServers -----------------------------
(***************************************************************************)
(* The connections to MCP servers (agent/mcp_manager.rs, agent/mcp.rs):    *)
(* one map for all agents, behind one lock that is held while servers are  *)
(* stopped and connected and while a tool call waits for its answer.       *)
(* Agent turns and scheduled jobs refresh the map for their agent, unless  *)
(* they did less than 30 seconds ago, and then call tools by the server's  *)
(* name.  The user's commands change the rows of the servers.              *)
(*                                                                         *)
(* A stdio server reads requests from a pipe and answers them in order; it *)
(* may be slow, fall silent, write lines nobody asked for, send requests   *)
(* of its own, or exit.  Over HTTP each request has a response of its own. *)
(* Calls are numbered; an answer is the number of the call it answers, and *)
(* a request of the server's is 0.  The handshake of a new connection is   *)
(* one step; a request of the server's within it makes it fail.  The       *)
(* status column, which is only shown to the user, is left out, and with   *)
(* it the test of a connection.  Assumed: database calls succeed; and a    *)
(* server sends one request of its own on a connection, none where an      *)
(* answer is left over already.                                            *)
(***************************************************************************)
EXTENDS Naturals, Sequences, FiniteSets

CONSTANTS
  Servers, Agents,
  AgentOf,      \* whose server it is
  NameOf,       \* the name its tools are called by; names need not differ
  TransportOf,  \* stdio or http
  Turns, Jobs,  \* what refreshes and calls: agent turns, jobs of the scheduler
  WorksFor,     \* the agent of each of them
  None,
  Configured,   \* the servers that are there and enabled at first
  MaxCalls,     \* how many tool calls there are
  MaxCommands   \* how many commands the user gives

Callers == Turns \cup Jobs
Names   == {NameOf[s] : s \in Servers}

VARIABLES
  rows,      \* mcp_servers: whether the row is there and enabled
  fresh,     \* the agents whose last_fetch is less than 30 seconds ago
  conn,      \* clients: the connections in the map, what is in their pipes, and whether
             \* a line may come there that nobody waits for
  holder,    \* who holds the lock of clients
  caller,    \* where each turn and job is
  user,      \* whether a command has still to invalidate the cache
  commands,  \* how many commands there were
  calls      \* how many calls were sent

database == <<rows, user, commands>>
vars     == <<rows, fresh, conn, holder, caller, user, commands, calls>>

Gone   == [state |-> "none", queue |-> <<>>, pipe |-> <<>>, shifted |-> FALSE]
Opened == [Gone EXCEPT !.state = "up"]
Away   == [pc |-> "idle", todo |-> {}, offered |-> {}, asked |-> 0, server |-> None]

InMap(s)   == conn[s].state # "none"
Running(s) == conn[s].state \in {"up", "chatty"}
At(p, pc)  == caller[p].pc = pc

Goto(p, pc) == caller' = [caller EXCEPT ![p].pc = pc]
Lock(p)     == holder = None /\ holder' = p
Unlock(p)   == holder = p /\ holder' = None

Init ==
  /\ rows = [s \in Servers |-> IF s \in Configured THEN "enabled" ELSE "new"]
  /\ fresh = {}
  /\ conn = [s \in Servers |-> Gone]
  /\ holder = None
  /\ caller = [p \in Callers |-> Away]
  /\ user = "idle"
  /\ commands = 0
  /\ calls = 0

-----------------------------------------------------------------------------
(* the user's commands: they change the row, then invalidate the cache     *)

Exists(s) == rows[s] \in {"enabled", "disabled"}

Command(next) ==
  /\ user = "idle" /\ commands < MaxCommands
  /\ commands' = commands + 1
  /\ user' = next
  /\ UNCHANGED <<fresh, conn, holder, caller, calls>>

AddServer(s) ==
  /\ rows[s] = "new"
  /\ rows' = [rows EXCEPT ![s] = "enabled"]
  /\ Command("invalidate")

\* Servers imported from another program's settings do not invalidate the cache.
ImportServer(s) ==
  /\ rows[s] = "new"
  /\ rows' = [rows EXCEPT ![s] = "enabled"]
  /\ Command("idle")

RemoveServer(s) ==
  /\ Exists(s)
  /\ rows' = [rows EXCEPT ![s] = "deleted"]
  /\ Command("invalidate")

ToggleServer(s) ==
  /\ Exists(s)
  /\ \E state \in {"enabled", "disabled"} : rows' = [rows EXCEPT ![s] = state]
  /\ Command("invalidate")

InvalidateCache ==
  /\ user = "invalidate"
  /\ fresh' = {}
  /\ user' = "idle"
  /\ UNCHANGED <<rows, conn, holder, caller, commands, calls>>

Expire(a) ==
  /\ a \in fresh
  /\ fresh' = fresh \ {a}
  /\ UNCHANGED <<database, conn, holder, caller, calls>>

-----------------------------------------------------------------------------
(* start_servers_for_agent and get_tool_definitions                        *)

\* Mutant: the query does not ask for enabled = 1.
EnabledOrNot(a) == {s \in Servers : AgentOf[s] = a /\ Exists(s)}

EnabledOf(a) == {s \in Servers : AgentOf[s] = a /\ rows[s] = "enabled"}

\* Within 30 seconds of its last refresh an agent uses the map as it is.
Begin(p) ==
  /\ At(p, "idle")
  /\ caller' =
       [caller EXCEPT ![p] =
          IF WorksFor[p] \in fresh THEN [@ EXCEPT !.pc = "offer"]
          ELSE [@ EXCEPT !.pc = "stamp", !.todo = EnabledOf(WorksFor[p])]]
  /\ UNCHANGED <<database, fresh, conn, holder, calls>>

Stamp(p) ==
  /\ At(p, "stamp")
  /\ fresh' = fresh \cup {WorksFor[p]}
  /\ Goto(p, "lock")
  /\ UNCHANGED <<database, conn, holder, calls>>

\* Every connection is stopped that is not to one of the servers read above,
\* whichever agent it belongs to.
StopStale(p) ==
  LET wanted == caller[p].todo IN
  /\ At(p, "lock") /\ Lock(p)
  /\ conn' = [s \in Servers |-> IF s \in wanted THEN conn[s] ELSE Gone]
  /\ caller' = [caller EXCEPT ![p].pc = "connect",
                              ![p].todo = {s \in wanted : ~InMap(s)}]
  /\ UNCHANGED <<database, fresh, calls>>

\* A server that cannot be reached is left out.
Connect(p) ==
  /\ At(p, "connect")
  /\ \E s \in caller[p].todo :
       /\ caller' = [caller EXCEPT ![p].todo = @ \ {s}]
       /\ \/ conn' = [conn EXCEPT ![s] = Opened]
          \/ UNCHANGED conn
  /\ UNCHANGED <<database, fresh, holder, calls>>

Refreshed(p) ==
  /\ At(p, "connect") /\ caller[p].todo = {}
  /\ Unlock(p)
  /\ Goto(p, "offer")
  /\ UNCHANGED <<database, fresh, conn, calls>>

\* A turn is offered the tools of all connections; a job knows which it calls.
Offer(p) ==
  /\ At(p, "offer") /\ (p \in Turns => holder = None)
  /\ caller' =
       [caller EXCEPT ![p].pc = "ready",
          ![p].offered = IF p \in Jobs THEN Names
                         ELSE {NameOf[s] : s \in {t \in Servers : InMap(t)}}]
  /\ UNCHANGED <<database, fresh, conn, holder, calls>>

-----------------------------------------------------------------------------
(* call_tool                                                               *)

\* Mutant: the lock is let go once the request is written.
CallUnlocked(p) ==
  /\ At(p, "ready") /\ calls < MaxCalls
  /\ holder = None
  /\ \E s \in Servers :
       /\ Running(s) /\ NameOf[s] \in caller[p].offered
       /\ conn' = [conn EXCEPT ![s].queue = Append(@, calls + 1)]
       /\ caller' = [caller EXCEPT ![p].pc = "waiting", ![p].asked = calls + 1,
                                   ![p].server = s]
  /\ calls' = calls + 1
  /\ UNCHANGED <<database, fresh, holder>>

\* The first connection of that name is asked, whosever it is.  Writing to a
\* server that has exited fails at once.
Call(p) ==
  /\ At(p, "ready") /\ calls < MaxCalls
  /\ Lock(p)
  /\ \E s \in Servers :
       /\ Running(s) /\ NameOf[s] \in caller[p].offered
       /\ conn' = [conn EXCEPT ![s].queue = Append(@, calls + 1)]
       /\ caller' = [caller EXCEPT ![p].pc = "waiting", ![p].asked = calls + 1,
                                   ![p].server = s]
  /\ calls' = calls + 1
  /\ UNCHANGED <<database, fresh>>

Answered(p) ==
  caller' = [caller EXCEPT ![p].pc = "ready", ![p].asked = 0, ![p].server = None]

\* The next line in the pipe that has an id is taken for the response: which id
\* is not looked at, nor whether the line is a request.
Receive(p) ==
  LET s == caller[p].server IN
  /\ At(p, "waiting") /\ conn[s].pipe # <<>>
  /\ conn' = [conn EXCEPT ![s].pipe = Tail(@)]
  /\ Answered(p) /\ Unlock(p)
  /\ UNCHANGED <<database, fresh, calls>>

ReadClosed(p) ==
  /\ At(p, "waiting")
  /\ conn[caller[p].server].state = "dead" /\ conn[caller[p].server].pipe = <<>>
  /\ Answered(p) /\ Unlock(p)
  /\ UNCHANGED <<database, fresh, conn, calls>>

\* The caller no longer waits; over stdio the answer still comes.
Abandoned(s) ==
  conn' = [conn EXCEPT ![s] =
             IF TransportOf[s] = "http" THEN [@ EXCEPT !.queue = <<>>, !.pipe = <<>>]
             ELSE [@ EXCEPT !.shifted = TRUE]]

\* Mutant: reading from a child process has no time limit.
TimeOutHttp(p) ==
  LET s == caller[p].server IN
  /\ At(p, "waiting") /\ conn[s].pipe = <<>> /\ TransportOf[s] = "http"
  /\ Abandoned(s) /\ Answered(p) /\ Unlock(p)
  /\ UNCHANGED <<database, fresh, calls>>

\* No line for 30 seconds; a server that writes other lines is waited for.
TimeOut(p) ==
  LET s == caller[p].server IN
  /\ At(p, "waiting") /\ conn[s].pipe = <<>>
  /\ conn[s].state # "chatty"
  /\ Abandoned(s) /\ Answered(p) /\ Unlock(p)
  /\ UNCHANGED <<database, fresh, calls>>

EndTurn(p) ==
  /\ At(p, "ready")
  /\ caller' = [caller EXCEPT ![p] = Away]
  /\ UNCHANGED <<database, fresh, conn, holder, calls>>

\* The time limit of a scheduled job drops it wherever it waits.
DropJob(p) ==
  /\ p \in Jobs /\ ~At(p, "idle")
  /\ caller' = [caller EXCEPT ![p] = Away]
  /\ IF At(p, "waiting") THEN Abandoned(caller[p].server) ELSE UNCHANGED conn
  /\ holder' = IF holder = p THEN None ELSE holder
  /\ UNCHANGED <<database, fresh, calls>>

-----------------------------------------------------------------------------
(* the servers                                                             *)

Answer(s) ==
  /\ Running(s) /\ conn[s].queue # <<>>
  /\ conn' = [conn EXCEPT ![s].queue = Tail(@), ![s].pipe = Append(@, Head(conn[s].queue))]
  /\ UNCHANGED <<database, fresh, holder, caller, calls>>

\* A ping, or another request of the server's own: nobody answers it.
Ask(s) ==
  /\ Running(s) /\ TransportOf[s] = "stdio" /\ ~conn[s].shifted
  /\ conn' = [conn EXCEPT ![s].pipe = Append(@, 0), ![s].shifted = TRUE]
  /\ UNCHANGED <<database, fresh, holder, caller, calls>>

\* The server exits, or starts to write to its output what nobody waits for.
Change(s) ==
  /\ \/ Running(s) /\ conn' = [conn EXCEPT ![s].state = "dead", ![s].queue = <<>>]
     \/ /\ TransportOf[s] = "stdio" /\ conn[s].state = "up"
        /\ conn' = [conn EXCEPT ![s].state = "chatty"]
  /\ UNCHANGED <<database, fresh, holder, caller, calls>>

-----------------------------------------------------------------------------
(* the specification                                                       *)

User ==
  \/ InvalidateCache
  \/ \E s \in Servers : \/ AddServer(s) \/ ImportServer(s) \/ RemoveServer(s)
                        \/ ToggleServer(s)

Refresh(p) == Stamp(p) \/ StopStale(p) \/ Connect(p) \/ Refreshed(p) \/ Offer(p)
Await(p)   == Receive(p) \/ ReadClosed(p) \/ TimeOut(p)

Next ==
  \/ User
  \/ \E a \in Agents : Expire(a)
  \/ \E p \in Callers : Begin(p) \/ Refresh(p) \/ Call(p) \/ Await(p) \/ EndTurn(p) \/ DropJob(p)
  \/ \E s \in Servers : Answer(s) \/ Ask(s) \/ Change(s)

\* Tasks run, tokio's mutex is granted in the order it is asked for, a handshake
\* and a read have their time limits.  Nobody has to call, and no server to answer.
Fairness ==
  \A p \in Callers :
    /\ WF_vars(Stamp(p)) /\ WF_vars(Connect(p)) /\ WF_vars(Refreshed(p))
    /\ SF_vars(StopStale(p)) /\ SF_vars(Offer(p)) /\ WF_vars(Await(p))

Spec == Init /\ [][Next]_vars /\ Fairness

-----------------------------------------------------------------------------
(* properties                                                              *)

\* The types; the lock is held exactly by who connects or waits for an answer,
\* and what is asked of a server is in its map.
TypeOK ==
  /\ rows \in [Servers -> {"new", "enabled", "disabled", "deleted"}]
  /\ fresh \subseteq Agents
  /\ conn \in [Servers -> [state : {"none", "up", "chatty", "dead"},
                           queue : Seq(1..MaxCalls), pipe : Seq(0..MaxCalls),
                           shifted : BOOLEAN]]
  /\ holder \in Callers \cup {None}
  /\ caller \in [Callers -> [pc : {"idle", "stamp", "lock", "connect", "offer", "ready", "waiting"},
                             todo : SUBSET Servers, offered : SUBSET Names,
                             asked : 0..MaxCalls, server : Servers \cup {None}]]
  /\ user \in {"idle", "invalidate"}
  /\ commands \in 0..MaxCommands
  /\ calls \in 0..MaxCalls

\* What a waiting call would read next is the answer to what it asked, however turns,
\* jobs, refreshes and exits interleave, as long as on this connection no earlier call
\* stopped waiting and the server sent no request of its own: send_request compares no
\* ids, so that either puts a line before the answers of all later calls.
OwnAnswer ==
  \A p \in Callers :
    LET c == conn[caller[p].server] IN
    At(p, "waiting") /\ c.pipe # <<>> => Head(c.pipe) = caller[p].asked \/ c.shifted

\* Nobody waits for ever for the one lock of all agents, or for a server that is
\* slow, silent or gone, unless some server keeps writing lines that are no answer:
\* each of them starts the 30 seconds again.
CallersGetThrough ==
  \A p \in Callers :
    []<>(\/ caller[p].pc \in {"idle", "ready"}
         \/ \E s \in Servers : conn[s].state = "chatty")

\* A server that is removed or disabled for good is stopped for good, though turns
\* may connect to it again that read the rows before: the next refresh, of any agent,
\* stops it.
RemovedIsStopped ==
  \A s \in Servers :
    <>[](rows[s] # "enabled") /\ []<>(\E p \in Callers : caller[p].pc = "connect")
      => <>[](conn[s].state = "none")
=============================================================================
