--------------------------- MODULE MCFairParts ---------------------------
(* Finite instances of two parts whose properties rest on fairness: the     *)
(* MCP servers, and the start of the app with the agents.  They share no    *)
(* state: a behaviour is one of the one or of the other.                    *)
EXTENDS AppStart, Sequences, TLC

CONSTANTS Servers, AgentOf, NameOf, TransportOf, Turns, Jobs, WorksFor, None, Configured,
          MaxCalls, MaxMcpCommands, s1, s2, t1, j1
TwoOwners  == (s1 :> 1) @@ (s2 :> 2)
SameName   == (s1 :> "files") @@ (s2 :> "files")
OneOfEach  == (s1 :> "stdio") @@ (s2 :> "http")
Work       == (t1 :> 1) @@ (j1 :> 2)

ASSUME McpAssumption ==
  /\ None \notin Servers \cup Turns \cup Jobs
  /\ Turns \cap Jobs = {}
  /\ AgentOf \in [Servers -> Agents] /\ WorksFor \in [Turns \cup Jobs -> Agents]
  /\ TransportOf \in [Servers -> {"stdio", "http"}]
  /\ Configured \subseteq Servers /\ MaxCalls \in Nat /\ MaxMcpCommands \in Nat

VARIABLES part, servers, fresh, conn, holder, caller, user, commands, calls
Runs(p) == part = p

mcpVars == <<servers, fresh, conn, holder, caller, user, commands, calls>>
Mcp == INSTANCE McpServers WITH rows <- servers, MaxCommands <- MaxMcpCommands

-----------------------------------------------------------------------------
fairVars == <<part, mcpVars, startAll>>

PartsInit ==
  /\ Init /\ Mcp!Init
  /\ \/ Runs("servers") /\ rows = {}
     \/ Runs("start")

PartsNext ==
  \/ Runs("servers") /\ Mcp!Next /\ UNCHANGED <<part, startAll>>
  \/ Runs("start") /\ Next /\ UNCHANGED <<part, mcpVars>>

\* The fairness of McpServers and of AppStart, for the part that runs.
PartsSpec ==
  /\ PartsInit /\ [][PartsNext]_fairVars
  /\ \A p \in Turns \cup Jobs :
       /\ WF_mcpVars(Runs("servers") /\ Mcp!Stamp(p)) /\ WF_mcpVars(Runs("servers") /\ Mcp!Connect(p))
       /\ WF_mcpVars(Runs("servers") /\ Mcp!Refreshed(p)) /\ WF_mcpVars(Runs("servers") /\ Mcp!Await(p))
       /\ SF_mcpVars(Runs("servers") /\ Mcp!StopStale(p)) /\ SF_mcpVars(Runs("servers") /\ Mcp!Offer(p))
  /\ \A c \in Clients : WF_startAll(Runs("start") /\ FinishOf(c))
  /\ \A a \in Agents : WF_startAll(Runs("start") /\ ExpireOf(a))

-----------------------------------------------------------------------------
\* What a waiting call would read next is the answer to what it asked, unless a line that
\* nobody waits for is before it.
OwnAnswer == Mcp!OwnAnswer

\* Nobody waits for ever for the lock of all agents, or for a server.
CallersGetThrough ==
  \A p \in Turns \cup Jobs :
    []<>(\/ caller[p].pc \in {"idle", "ready"}
         \/ \E s \in Servers : conn[s].state = "chatty")

\* A server that is removed or disabled for good is stopped for good by the next refresh.
RemovedIsStopped ==
  \A s \in Servers :
    <>[](servers[s] # "enabled") /\ []<>(\E p \in Turns \cup Jobs : caller[p].pc = "connect")
      => <>[](conn[s].state = "none")
=============================================================================
