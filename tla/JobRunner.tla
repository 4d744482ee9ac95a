----------------------------- MODULE JobRunner -----------------------------
(***************************************************************************)
(* How a run of a job is executed (scheduler/runner.rs), the heartbeat of  *)
(* the agents (scheduler/heartbeat.rs), the dreams (agent/dreaming.rs),    *)
(* and the sessions that they talk in and that a command cleans up         *)
(* (handlers/sessions.rs).  When a job runs is CronScheduler's matter, a   *)
(* turn is Conversation's and AgentTurn's.                                 *)
(***************************************************************************)
EXTENDS Naturals, FiniteSets, FiniteSetsExt

CONSTANTS
  People,        \* the agents, by age
  Executions,    \* runs under way at once
  Heart,         \* the heartbeat, in the engine's own task
  Titles,        \* "[cron] " and the name of a job
  Heartbeat,     \* the title "[heartbeat]"
  Retries,       \* retry.max_attempts
  MaxRuns, MaxSessions, MaxCleanings

Actors == Executions \cup {Heart}
Phases == {"light", "rem"}

VARIABLES
  agents,     \* those that have a row
  sessions,   \* chat_sessions: id, agent and title
  run,        \* what each actor is doing
  children,   \* the shells that each has started and that still run
  due,        \* the agents whose heartbeat is still to come in this round
  dreams,     \* the files of the day under memory/dreaming
  wikis,      \* the agents with a WIKI.md
  cleaning,   \* the sessions that the command still removes
  overlapped, \* sessions that two actors have looked for at once
  created, runs, cleanings

used    == <<created, runs, cleanings>>
runVars == <<agents, sessions, run, children, due, dreams, wikis, cleaning, overlapped, used>>

NoRun == [pc |-> "idle", kind |-> "none", agent |-> 0, title |-> Heartbeat, attempt |-> 0]
At(x, pc) == run[x].pc = pc
Goto(x, pc) == run' = [run EXCEPT ![x].pc = pc]
Key(x) == <<run[x].agent, run[x].title>>
SessionsOf(key) == {s \in sessions : <<s.agent, s.title>> = key}

-----------------------------------------------------------------------------
(* Runs                                                                    *)

Begin(x, kind, a, title) ==
  /\ At(x, "idle") /\ runs < MaxRuns
  /\ runs' = runs + 1
  /\ run' = [run EXCEPT ![x] =
               [pc |-> "attempt", kind |-> kind, agent |-> a, title |-> title, attempt |-> 1]]
  /\ UNCHANGED <<agents, sessions, children, due, dreams, wikis, cleaning, overlapped, created, cleanings>>

\* execute_with_retry: the result of an attempt.
Succeeds(x) == run' = [run EXCEPT ![x] = NoRun]
Fails(x) ==
  run' = [run EXCEPT ![x] = IF x # Heart /\ @.attempt <= Retries
                            THEN [@ EXCEPT !.pc = "wait"] ELSE NoRun]

Retry(x) ==
  /\ At(x, "wait")
  /\ run' = [run EXCEPT ![x].pc = "attempt", ![x].attempt = @ + 1]
  /\ UNCHANGED <<agents, sessions, children, due, dreams, wikis, cleaning, overlapped, used>>

\* execute_inner; a session, a dream and a server need the agent and what it is
\* configured with.
Attempt(x) ==
  /\ At(x, "attempt")
  /\ CASE run[x].kind = "shell" ->
            Goto(x, "shell") /\ children' = [children EXCEPT ![x] = @ + 1]
       [] run[x].kind = "agent" ->
            /\ Fails(x) \/ (run[x].agent \in agents /\ Goto(x, "find"))
            /\ UNCHANGED children
       [] run[x].kind = "dreaming" ->
            /\ Fails(x) \/ (run[x].agent \in agents /\ Goto(x, "dream"))
            /\ UNCHANGED children
       [] run[x].kind = "mcp" ->
            /\ Fails(x) \/ Goto(x, "mcp")
            /\ UNCHANGED children
  /\ UNCHANGED <<agents, sessions, due, dreams, wikis, cleaning, overlapped, used>>

\* execute drops the attempt; a shell that it started runs on.
TimeOut(x) ==
  /\ x # Heart /\ run[x].pc \notin {"idle", "wait"}
  /\ Fails(x)
  /\ UNCHANGED <<agents, sessions, children, due, dreams, wikis, cleaning, overlapped, used>>

\* The child of the attempt ends, or one that was left behind.
ShellEnds(x) ==
  /\ children[x] > 0
  /\ children' = [children EXCEPT ![x] = @ - 1]
  /\ \/ At(x, "shell") /\ (Succeeds(x) \/ Fails(x))
     \/ (At(x, "shell") => children[x] > 1) /\ UNCHANGED run
  /\ UNCHANGED <<agents, sessions, due, dreams, wikis, cleaning, overlapped, used>>

McpEnds(x) ==
  /\ At(x, "mcp") /\ (Succeeds(x) \/ Fails(x))
  /\ UNCHANGED <<agents, sessions, children, due, dreams, wikis, cleaning, overlapped, used>>

-----------------------------------------------------------------------------
(* Sessions                                                                *)

\* Mutant: the strategy "new" of the job, which execute_agent ignores.
FindNone(x) ==
  /\ At(x, "find")
  /\ Goto(x, "create")
  /\ UNCHANGED <<agents, sessions, children, due, dreams, wikis, cleaning, overlapped, used>>

Find(x) ==
  /\ At(x, "find")
  /\ IF SessionsOf(Key(x)) # {} THEN Goto(x, "turn") ELSE Goto(x, "create")
  /\ overlapped' = IF \E y \in Actors \ {x} : At(y, "create") /\ Key(y) = Key(x)
                   THEN overlapped \cup {Key(x)} ELSE overlapped
  /\ UNCHANGED <<agents, sessions, children, due, dreams, wikis, cleaning, used>>

\* create_session; it needs the row of the agent.
Create(x) ==
  /\ At(x, "create") /\ created < MaxSessions
  /\ \/ /\ run[x].agent \in agents
        /\ sessions' = sessions \cup {[id |-> created, agent |-> run[x].agent, title |-> run[x].title]}
        /\ created' = created + 1
        /\ Goto(x, "turn")
     \/ Fails(x) /\ UNCHANGED <<sessions, created>>
  /\ UNCHANGED <<agents, children, due, dreams, wikis, cleaning, overlapped, runs, cleanings>>

\* send_message_stream returns, whether its session still exists or not.  The heartbeat
\* tells the page of a result other than HEARTBEAT_OK and adds to reflections.md.
EndTurn(x) ==
  /\ At(x, "turn") /\ (Succeeds(x) \/ Fails(x))
  /\ UNCHANGED <<agents, sessions, children, due, dreams, wikis, cleaning, overlapped, used>>

-----------------------------------------------------------------------------
(* The heartbeat                                                           *)

\* run_heartbeat_for_agents: the agents with a HEARTBEAT.md.
BeginRound ==
  /\ At(Heart, "idle") /\ due = {} /\ runs < MaxRuns
  /\ runs' = runs + 1
  /\ due' \in SUBSET agents
  /\ UNCHANGED <<agents, sessions, run, children, dreams, wikis, cleaning, overlapped, created, cleanings>>

\* llm_heartbeat: in quiet hours, without a task in the file or without an agent
\* nothing is done; otherwise the first agent is asked, whoever's file it is.
Beat ==
  /\ At(Heart, "idle") /\ due # {}
  /\ due' = due \ {Max(due)}
  /\ \/ UNCHANGED run
     \/ agents # {} /\ run' = [run EXCEPT ![Heart] =
          [NoRun EXCEPT !.pc = "find", !.kind = "heartbeat", !.agent = Max(agents)]]
  /\ UNCHANGED <<agents, sessions, children, dreams, wikis, cleaning, overlapped, used>>

-----------------------------------------------------------------------------
(* Dreams                                                                  *)

\* Nothing was said of late: for a run, a success.
DreamOfNothing(x) ==
  /\ At(x, "dream") /\ Succeeds(x)
  /\ UNCHANGED <<agents, sessions, children, due, dreams, wikis, cleaning, overlapped, used>>

\* run_dream_phase: what the model finds is written, over the dream that the day had; a
\* model without an observation is a success, too.
Dream(x, phase) ==
  /\ At(x, "dream")
  /\ \/ dreams' = dreams \cup {<<run[x].agent, phase>>} /\ Succeeds(x)
     \/ (Succeeds(x) \/ Fails(x)) /\ UNCHANGED dreams
  /\ UNCHANGED <<agents, sessions, children, due, wikis, cleaning, overlapped, used>>

\* run_dreaming, the page's command, taken as one step; it changes nothing when it fails.
RunDreaming(a, phase) ==
  /\ a \in agents /\ runs < MaxRuns
  /\ runs' = runs + 1
  /\ dreams' = dreams \cup {<<a, phase>>}
  /\ UNCHANGED <<agents, sessions, run, children, due, wikis, cleaning, overlapped, created, cleanings>>

\* compile_wiki_digest
CompileWiki(a) ==
  /\ <<a, "rem">> \in dreams
  /\ wikis' = wikis \cup {a}
  /\ UNCHANGED <<agents, sessions, run, children, due, dreams, cleaning, overlapped, used>>

-----------------------------------------------------------------------------
(* The page                                                                *)

\* cleanup_system_sessions: the sessions of one agent, those begun before some time.
BeginCleanup(a) ==
  /\ cleaning = {} /\ cleanings < MaxCleanings
  /\ cleanings' = cleanings + 1
  /\ cleaning' \in SUBSET {s \in sessions : s.agent = a}
  /\ UNCHANGED <<agents, sessions, run, children, due, dreams, wikis, overlapped, created, runs>>

Remove ==
  /\ \E s \in cleaning : cleaning' = cleaning \ {s} /\ sessions' = sessions \ {s}
  /\ UNCHANGED <<agents, run, children, due, dreams, wikis, overlapped, used>>

\* AgentStore's delete: the rows of its sessions and its directory go too.
DeleteAgent(a) ==
  /\ a \in agents
  /\ agents' = agents \ {a}
  /\ sessions' = {s \in sessions : s.agent # a}
  /\ dreams' = {d \in dreams : d[1] # a} /\ wikis' = wikis \ {a}
  /\ UNCHANGED <<run, children, due, cleaning, overlapped, used>>

-----------------------------------------------------------------------------
Init ==
  /\ agents = People /\ sessions = {} /\ run = [x \in Actors |-> NoRun]
  /\ children = [x \in Actors |-> 0] /\ due = {} /\ dreams = {} /\ wikis = {}
  /\ cleaning = {} /\ overlapped = {}
  /\ created = 0 /\ runs = 0 /\ cleanings = 0

Next ==
  \/ \E x \in Executions : \E a \in People : \E title \in Titles :
        \E kind \in {"agent", "shell", "mcp", "dreaming"} : Begin(x, kind, a, title)
  \/ \E x \in Actors :
        \/ Attempt(x) \/ Retry(x) \/ TimeOut(x) \/ ShellEnds(x) \/ McpEnds(x)
        \/ Find(x) \/ Create(x) \/ EndTurn(x)
        \/ DreamOfNothing(x) \/ \E phase \in Phases : Dream(x, phase)
  \/ BeginRound \/ Beat
  \/ \E a \in People :
        \/ CompileWiki(a) \/ BeginCleanup(a) \/ DeleteAgent(a)
        \/ \E phase \in Phases : RunDreaming(a, phase)
  \/ Remove

Spec == Init /\ [][Next]_runVars

-----------------------------------------------------------------------------
\* However often jobs and heartbeats run, time out, are retried and cleaned up, there is
\* one session for an agent and a title ("避免会话列表膨胀"), unless two runs have
\* looked for it at once.
SessionsAreReused ==
  \A s, t \in sessions :
    <<s.agent, s.title>> = <<t.agent, t.title>> =>
      s = t \/ <<s.agent, s.title>> \in overlapped
=============================================================================
