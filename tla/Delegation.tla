----------------------------- MODULE Delegation -----------------------------
(***************************************************************************)
(* The delegate_task tool (agent/delegate.rs) and the rows of              *)
(* subagent_runs: a call of the tool spawns its subtasks, at most          *)
(* MaxConcurrent of which work at a time, and collects what they answer,   *)
(* at once or, in the asynchronous mode, behind the back of the agent,     *)
(* which is told by an event.  A subtask is a turn of another session.     *)
(* Meanwhile the user cancels runs (SubagentRegistry::cancel, whose        *)
(* records in memory nothing ever fills), and the app may exit.  The agent *)
(* that polls a row after it yielded is in AgentTurn.                      *)
(*                                                                         *)
(* Assumed: database calls succeed, and every subtask has a goal.          *)
(***************************************************************************)
EXTENDS Naturals, FiniteSets

CONSTANTS
  Calls,         \* calls of delegate_task
  Runs,          \* their subtasks, numbered in the order of the call's arguments
  CallOf,        \* the call a subtask belongs to
  Foreign,       \* subtasks that name another agent
  MaxConcurrent

ASSUME RunsAssumption ==
  /\ Runs \subseteq Nat /\ IsFiniteSet(Runs) /\ CallOf \in [Runs -> Calls]
  /\ Foreign \subseteq Runs
  /\ MaxConcurrent \in Nat \ {0}

VARIABLES
  call,     \* where each call is, and its mode
  run,      \* where each subtask's task is, and how its turn ended
  row,      \* the status in subagent_runs
  permits,  \* the semaphore of each call
  report    \* what the collector of each call has counted

tasks   == <<call, run, permits>>
delegationVars == <<call, run, row, permits, report>>

\* "failed" stands for a timeout too, which is treated the same everywhere.
Outcomes == {"success", "failed"}
RunsOf(c) == {r \in Runs : CallOf[r] = c}

\* A subtask has a permit from the time it is scheduled until it returns.
Working == {"started", "turn", "finishing"}
WithPermit(c) == {r \in RunsOf(c) : run[r].pc \in Working}

NoReport == [ok |-> 0, failed |-> 0, done |-> FALSE]

DelegationInit ==
  /\ call = [c \in Calls |-> [pc |-> "idle", mode |-> "sync"]]
  /\ run = [r \in Runs |-> [pc |-> "new", outcome |-> "none"]]
  /\ row = [r \in Runs |-> "none"]
  /\ permits = [c \in Calls |-> MaxConcurrent]
  /\ report = [c \in Calls |-> NoReport]

-----------------------------------------------------------------------------
(* the call                                                                *)

Delegate(c, mode) ==
  /\ call[c].pc = "idle"
  /\ call' = [call EXCEPT ![c] = [pc |-> "spawning", mode |-> mode]]
  /\ UNCHANGED <<run, row, permits, report>>

\* save_run, one subtask after the other.  The call awaits the INSERT ...
SaveRun(r) ==
  /\ call[CallOf[r]].pc = "spawning" /\ run[r].pc = "new"
  /\ \A q \in RunsOf(CallOf[r]) : q < r => run[q].pc \notin {"new", "saved"}
  /\ row' = [row EXCEPT ![r] = "running"]
  /\ run' = [run EXCEPT ![r].pc = "saved"]
  /\ UNCHANGED <<call, permits, report>>

\* ... and spawns the task when it is resumed.
SpawnRun(r) ==
  /\ call[CallOf[r]].pc = "spawning" /\ run[r].pc = "saved"
  /\ run' = [run EXCEPT ![r].pc = "queued"]
  /\ UNCHANGED <<call, row, permits, report>>

\* In the asynchronous mode the tool returns and a task of its own collects.
BeginCollecting(c) ==
  /\ call[c].pc = "spawning"
  /\ \A r \in RunsOf(c) : run[r].pc \notin {"new", "saved"}
  /\ call' = [call EXCEPT ![c].pc = IF call[c].mode = "sync" THEN "waiting" ELSE "returned"]
  /\ UNCHANGED <<run, row, permits, report>>

\* A tool has 300 seconds, a turn its own limit and a stop: the future is dropped
\* at any of its awaits.  What was spawned goes on.
Abandon(c) ==
  /\ call[c].pc = "waiting" \/ call[c].pc = "spawning"
  /\ call' = [call EXCEPT ![c].pc = "abandoned"]
  /\ UNCHANGED <<run, row, permits, report>>

Ended(c, outcome) == {r \in RunsOf(c) : run[r] = [pc |-> "ended", outcome |-> outcome]}

\* collect_results: a task that panicked is passed over.
Collect(c) ==
  /\ call[c].pc = "waiting" \/ (call[c].pc = "returned" /\ call[c].mode = "async")
  /\ ~report[c].done
  /\ \A r \in RunsOf(c) : run[r].pc \in {"ended", "panicked"}
  /\ report' = [report EXCEPT ![c] = [ok     |-> Cardinality(Ended(c, "success")),
                                      failed |-> Cardinality(Ended(c, "failed")),
                                      done   |-> TRUE]]
  /\ call' = [call EXCEPT ![c].pc = "returned"]
  /\ UNCHANGED <<run, row, permits>>

-----------------------------------------------------------------------------
(* a subtask                                                               *)

Acquire(r) ==
  /\ run[r].pc = "queued" /\ permits[CallOf[r]] > 0
  /\ permits' = [permits EXCEPT ![CallOf[r]] = @ - 1]
  /\ run' = [run EXCEPT ![r].pc = "started"]
  /\ UNCHANGED <<call, row, report>>

\* The permit is returned when the task's future is dropped, by a panic too.
Release(r) == permits' = [permits EXCEPT ![CallOf[r]] = @ + 1]

\* Mutant: a panic keeps the permit.
PanicWithPermit(r) ==
  /\ run[r].pc = "turn" \/ (run[r].pc = "started" /\ r \in Foreign)
  /\ run' = [run EXCEPT ![r].pc = "panicked"]
  /\ UNCHANGED <<call, row, permits, report>>

\* A tool of the turn panics; or the log message, which cuts the name of the other
\* agent after eight bytes, be it in the middle of a character.
Panic(r) ==
  /\ run[r].pc = "turn" \/ (run[r].pc = "started" /\ r \in Foreign)
  /\ run' = [run EXCEPT ![r].pc = "panicked"]
  /\ Release(r)
  /\ UNCHANGED <<call, row, report>>

Finishing(r, outcome) == run' = [run EXCEPT ![r] = [pc |-> "finishing", outcome |-> outcome]]

\* The agents are not related (the user changes relations at any time, so that is
\* a choice here), there is no provider, or no session.
Refuse(r) ==
  /\ run[r].pc = "started"
  /\ Finishing(r, "failed")
  /\ UNCHANGED <<call, row, permits, report>>

BeginTurn(r) ==
  /\ run[r].pc = "started"
  /\ run' = [run EXCEPT ![r].pc = "turn"]
  /\ UNCHANGED <<call, row, permits, report>>

EndTurn(r) ==
  /\ run[r].pc = "turn"
  /\ \E outcome \in Outcomes : Finishing(r, outcome)
  /\ UNCHANGED <<call, row, permits, report>>

\* Mutant: a cancelled run keeps its status.
FinishIfRunning(r) ==
  /\ run[r].pc = "finishing"
  /\ row' = [row EXCEPT ![r] = IF @ = "running" THEN run[r].outcome ELSE @]
  /\ run' = [run EXCEPT ![r].pc = "ended"]
  /\ Release(r)
  /\ UNCHANGED <<call, report>>

\* The status is written whatever it is by now.
FinishRun(r) ==
  /\ run[r].pc = "finishing"
  /\ row' = [row EXCEPT ![r] = run[r].outcome]
  /\ run' = [run EXCEPT ![r].pc = "ended"]
  /\ Release(r)
  /\ UNCHANGED <<call, report>>

-----------------------------------------------------------------------------
(* the others                                                              *)

\* Only the row: the subtask goes on.
Cancel(r) ==
  /\ row[r] = "running"
  /\ row' = [row EXCEPT ![r] = "cancelled"]
  /\ UNCHANGED <<tasks, report>>

\* The rows remain, and nothing looks at them when the app starts again.
TasksGone ==
  /\ call' = [c \in Calls |-> IF call[c].pc = "idle" THEN call[c]
                              ELSE [pc |-> "gone", mode |-> "sync"]]
  /\ run' = [r \in Runs |-> IF run[r].pc \in {"new", "ended", "panicked"}
                              THEN run[r] ELSE [pc |-> "gone", outcome |-> "none"]]
  /\ permits' = [c \in Calls |-> MaxConcurrent]
  /\ UNCHANGED <<row, report>>

-----------------------------------------------------------------------------

Subtask(r) ==
  Acquire(r) \/ Panic(r) \/ Refuse(r) \/ BeginTurn(r) \/ EndTurn(r) \/ FinishRun(r)

CallStep(c) == BeginCollecting(c) \/ Collect(c) \/ \E r \in RunsOf(c) : SaveRun(r) \/ SpawnRun(r)

DelegationNext ==
  \/ \E c \in Calls : CallStep(c) \/ Abandon(c) \/ \E mode \in {"sync", "async"} : Delegate(c, mode)
  \/ \E r \in Runs : Subtask(r) \/ Cancel(r)

-----------------------------------------------------------------------------
(* properties                                                              *)

DelegationTypeOK ==
  /\ call \in [Calls -> [pc : {"idle", "spawning", "waiting", "returned", "abandoned", "gone"},
                         mode : {"sync", "async"}]]
  /\ run \in [Runs -> [pc : {"new", "saved", "queued", "ended", "panicked", "gone"} \cup Working,
                       outcome : Outcomes \cup {"none"}]]
  /\ row \in [Runs -> Outcomes \cup {"none", "running", "cancelled"}]
  /\ permits \in [Calls -> 0..MaxConcurrent]
  /\ report \in [Calls -> [ok : Nat, failed : Nat, done : BOOLEAN]]

\* The rows tell who works: "running" stands for a task that is alive unless it
\* panicked or the app exited, or for the one that its call is about to spawn - or,
\* dropped while it awaited the INSERT, never will, which is the call's last row
\* then; an outcome for a task that has ended this way, whatever the user cancelled
\* before; and a permit is free for each subtask of a call that is not at work.  What a call reports agrees with the rows, now and
\* later: as many successes and failures as rows say so, and it accounts for every
\* subtask but those that panicked.
RowsTellWhoWorks ==
  /\ \A r \in Runs :
       /\ row[r] = "running" =>
            run[r].pc \in {"saved", "queued", "panicked", "gone"} \cup Working
       /\ run[r].pc = "saved" =>
            /\ call[CallOf[r]].pc \in {"spawning", "abandoned"}
            /\ \A q \in RunsOf(CallOf[r]) : q > r => row[q] = "none"
       /\ row[r] \in Outcomes => run[r].outcome = row[r] /\ run[r].pc = "ended"
       /\ run[r].pc = "ended" => row[r] = run[r].outcome
  /\ \A c \in Calls : permits[c] + Cardinality(WithPermit(c)) = MaxConcurrent

ReportMatchesRows ==
  \A c \in Calls :
    report[c].done =>
      /\ report[c].ok = Cardinality({r \in RunsOf(c) : row[r] = "success"})
      /\ report[c].failed = Cardinality({r \in RunsOf(c) : row[r] = "failed"})
      /\ report[c].ok + report[c].failed
           = Cardinality({r \in RunsOf(c) : run[r].pc # "panicked"})

RowsAndReportsAgree == RowsTellWhoWorks /\ ReportMatchesRows

\* A call that is under way is answered, or told to have ended by an event,
\* although subtasks fail, time out, panic or are cancelled, unless the call runs
\* out of time or the app exits.
CallsAreAnswered ==
  \A c \in Calls :
    call[c].pc \in {"waiting", "returned"}
      ~> report[c].done \/ call[c].pc \in {"abandoned", "gone"}
=============================================================================
