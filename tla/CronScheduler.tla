--------------------------- MODULE CronScheduler ---------------------------
(***************************************************************************)
(* The cron scheduler of the desktop app (src/local-app/src/scheduler).    *)
(*                                                                         *)
(* Three kinds of process share the SQLite tables cron_jobs and cron_runs: *)
(*   - the engine loop (SchedulerEngine::run), which reads the due jobs,   *)
(*     checks their guardrails and spawns runs;                            *)
(*   - the spawned runs (the task inside spawn_job), one database write    *)
(*     after another once the job's action has ended;                      *)
(*   - the clients: the UI's commands, the agent's cron tools, the         *)
(*     gateway's webhook handler.                                          *)
(* Every database call is an await, so each is a step of its own wherever  *)
(* another process can see the difference.                                 *)
(*                                                                         *)
(* Time is abstract.  A job's next_run_at is "null", "future" or "due",    *)
(* its last_run_at "null", "recent" (within the refire gap or the          *)
(* cooldown) or "old"; the passage of time is a step that any state allows.*)
(***************************************************************************)
EXTENDS Integers, FiniteSets

CONSTANTS
  Jobs,             \* ids a row of cron_jobs may have
  Tasks,            \* slots for spawned runs
  NoJob,            \* the job of an empty slot
  MaxPermits,       \* permits of the engine's semaphore (3 in the code)
  MaxConcurrent,    \* guardrails.max_concurrent
  MaxFailures,      \* guardrails.max_consecutive_failures
  MaxDaily,         \* guardrails.max_daily_runs of the jobs in Capped
  Capped,           \* jobs whose max_daily_runs is Some
  Word,             \* 2^32, the width of fail_streak in CronJob
  KindsOf,          \* the schedule kinds a job may be given
  Skipping,         \* jobs whose misfire_policy is "skip"
  OneOff,           \* jobs with delete_after_run
  LongRunning,      \* jobs that may outlast STUCK_RUN_THRESHOLD_SECS
  LongCooldown,     \* jobs whose cooldown_secs exceeds their interval
  Edited,           \* bound: jobs that update_job is called for
  MaxDisturbances   \* bound: crashes, suspends and panics of one behaviour

Kinds == {"recurring", "at", "webhook", "poll"}

ASSUME ConstantsOK ==
  /\ NoJob \notin Jobs
  /\ IsFiniteSet(Tasks)
  /\ MaxPermits \in Nat \ {0}
  /\ Cardinality(Tasks) >= MaxPermits
  /\ MaxConcurrent \in Nat
  /\ MaxFailures \in Nat
  /\ MaxDaily \in Nat
  /\ Word \in Nat /\ Word > MaxFailures + 1
  /\ KindsOf \in [Jobs -> SUBSET Kinds]
  /\ Capped \subseteq Jobs
  /\ Skipping \subseteq Jobs
  /\ OneOff \subseteq Jobs
  /\ LongRunning \subseteq Jobs
  /\ LongCooldown \subseteq Jobs
  /\ Edited \subseteq Jobs
  /\ MaxDisturbances \in Nat

VARIABLES
  stored,     \* the ids that have a row in cron_jobs
  job,        \* the rows
  arrived,    \* jobs whose At timestamp has passed
  task,       \* the spawned runs, each with its row of cron_runs
  permits,    \* available permits of the semaphore
  engine,     \* where the engine loop is
  pending,    \* jobs of the engine's due list still to be handled
  snap,       \* the rows as due_jobs returned them
  editing,    \* jobs an update_job call is under way for
  draft,      \* the row that call is going to write
  orphans,    \* of each job, the rows of cron_runs that say 'running' with no task
  queued,     \* jobs with a row that says 'queued', which no code changes again
  panics,     \* of each job, the runs that panicked since the app started
  posting,    \* where a webhook's handler is that has found the job
  disturbances

jobVars    == <<stored, job, arrived>>
engineVars == <<engine, pending, snap>>
editVars   == <<editing, draft, posting>>
leftVars   == <<orphans, queued, panics>>
vars == <<jobVars, task, permits, engineVars, editVars, leftVars, disturbances>>

JobRow == [kind    : Kinds,
           enabled : BOOLEAN,
           next    : {"null", "future", "due"},
           last    : {"null", "recent", "old"},
           fail    : -1..MaxFailures,
           daily   : 0..MaxDaily]

BlankRow == [kind |-> "recurring", enabled |-> FALSE, next |-> "null",
             last |-> "null", fail |-> 0, daily |-> 0]

\* The columns update_job may write with a value that is no longer the row's.
Draft == [kind : Kinds, enabled : BOOLEAN, next : {"null", "future", "due"}]

BlankDraft == [kind |-> "recurring", enabled |-> FALSE, next |-> "null"]

RunStatus == {"none", "running", "success", "failed", "timeout", "cancelled"}

Task == [pc   : {"idle", "spawned", "executing", "succeeded", "failed",
                 "planning"},
         job  : Jobs \cup {NoJob},
         kind : Kinds,          \* the schedule in the run's clone of the job
         row  : RunStatus]      \* "none": no row of cron_runs

IdleTask == [pc |-> "idle", job |-> NoJob, kind |-> "recurring", row |-> "none"]

Live == {t \in Tasks : task[t].pc # "idle"}
LiveOf(j) == {t \in Live : task[t].job = j}

\* A counter that is only compared with its limit need not exceed it.
Saturate(n, limit) == IF n > limit THEN limit ELSE n

\* row_to_job's `as u32`: a negative fail_streak becomes a huge one.
AsU32(n) == n % Word

-----------------------------------------------------------------------------
(* planner and store                                                       *)

\* Cron, Every and Poll always have a next time; At only until its timestamp;
\* Webhook never.
NextRunAfter(kind, j) ==
  IF kind \in {"recurring", "poll"} \/ (kind = "at" /\ j \notin arrived)
  THEN "future" ELSE "null"

\* An UPDATE ... WHERE id = j; without such a row it changes nothing.
UpdateRow(j, row) ==
  /\ job' = IF j \in stored THEN [job EXCEPT ![j] = row] ELSE job
  /\ UNCHANGED stored

\* next_run_after, then update_next_run when it returned a time.
Replan(j, kind) ==
  IF NextRunAfter(kind, j) = "null" THEN UNCHANGED <<stored, job>>
  ELSE UpdateRow(j, [job[j] EXCEPT !.next = "future", !.last = "recent"])

\* Mutant: the connection's foreign_keys pragma is off.
DropRunsNoCascade(j) == task

\* DELETE FROM cron_jobs; the foreign key takes the job's runs along.
DropRuns(j) == [t \in Tasks |->
  IF task[t].job = j THEN [task[t] EXCEPT !.row = "none"] ELSE task[t]]

RemoveRow(j) ==
  /\ stored' = stored \ {j}
  /\ job' = [job EXCEPT ![j] = BlankRow]
  /\ orphans' = [orphans EXCEPT ![j] = 0]
  /\ panics' = [panics EXCEPT ![j] = 0]
  /\ queued' = queued \ {j}

RunningOf(j) == {t \in Tasks : task[t].job = j /\ task[t].row = "running"}

CountRunning(j) == Cardinality(RunningOf(j)) + orphans[j]

\* cancel_running_runs
CancelRuns ==
  /\ task' = [t \in Tasks |->
       IF task[t].row = "running" THEN [task[t] EXCEPT !.row = "cancelled"] ELSE task[t]]
  /\ orphans' = [j \in Jobs |-> 0]
  /\ UNCHANGED <<queued, panics>>

DueJobs == {j \in stored : job[j].enabled /\ job[j].next = "due"}

-----------------------------------------------------------------------------
(* engine                                                                  *)

\* spawn_job: without a permit the job is skipped and stays as it is.
Spawn(j, kind) ==
  \/ /\ permits = 0
     /\ UNCHANGED <<task, permits>>
  \/ /\ permits > 0
     /\ permits' = permits - 1
     /\ \E t \in Tasks :
          /\ task[t].pc = "idle"
          /\ task' = [task EXCEPT ![t] =
               [pc |-> "spawned", job |-> j, kind |-> kind, row |-> "none"]]

\* due_jobs: the engine works on this copy of the rows until it is done with it.
ReadDue ==
  /\ pending' = DueJobs
  /\ snap' = [j \in Jobs |-> IF j \in DueJobs THEN job[j] ELSE BlankRow]

Handled(j) ==
  /\ j \in pending
  /\ pending' = pending \ {j}
  /\ snap' = [snap EXCEPT ![j] = BlankRow]
  /\ UNCHANGED engine

\* The app starts: SchedulerManager::start spawns the engine.
Start ==
  /\ engine = "down"
  /\ engine' = "boot"
  /\ UNCHANGED <<jobVars, task, permits, pending, snap, editVars, leftVars, disturbances>>

\* Mutant: the engine does not cancel them.
BootNoCancel ==
  /\ engine = "boot"
  /\ engine' = "booted"
  /\ UNCHANGED <<jobVars, task, permits, pending, snap, editVars, leftVars, disturbances>>

\* The runs a previous process left behind are cancelled first.
Boot ==
  /\ engine = "boot"
  /\ engine' = "booted"
  /\ CancelRuns
  /\ UNCHANGED <<jobVars, permits, pending, snap, editVars, disturbances>>

\* recovery_scan, after boot and whenever the loop finds it has been suspended.
ScanMissed ==
  /\ \/ engine = "booted" /\ UNCHANGED disturbances
     \/ /\ engine = "loop" /\ disturbances < MaxDisturbances
        /\ disturbances' = disturbances + 1
  /\ engine' = "recover"
  /\ ReadDue
  /\ UNCHANGED <<jobVars, task, permits, editVars, leftVars>>

\* A missed job is planned anew or, with no guardrail asked, run.
RecoverJob(j) ==
  /\ engine = "recover"
  /\ Handled(j)
  /\ \/ /\ j \in Skipping
        /\ Replan(j, snap[j].kind)
        /\ UNCHANGED <<task, permits>>
     \/ /\ j \notin Skipping
        /\ Spawn(j, snap[j].kind)
        /\ UNCHANGED <<stored, job>>
  /\ UNCHANGED <<arrived, editVars, leftVars, disturbances>>

\* The loop reaches its select!, with or without a recovery scan before it.
EnterSleep ==
  /\ \/ engine = "recover" /\ pending = {}
     \/ engine = "loop"
  /\ engine' = "sleep"
  /\ UNCHANGED <<jobVars, task, permits, pending, snap, editVars, leftVars, disturbances>>

\* The timer or a notification ends the sleep.
ScanDue ==
  /\ engine = "sleep"
  /\ engine' = "scan"
  /\ ReadDue
  /\ UNCHANGED <<jobVars, task, permits, editVars, leftVars, disturbances>>

\* check_guardrails, but for its last test: the refire gap, the cooldown and
\* the daily limit on the engine's copy, the concurrency limit on cron_runs.
WithinLimits(j) ==
  /\ snap[j].last # "recent"
  /\ CountRunning(j) < MaxConcurrent
  /\ j \in Capped => snap[j].daily < MaxDaily

StreakExhausted(j) == AsU32(snap[j].fail) >= MaxFailures

CheckJob(j) == engine = "scan" /\ Handled(j)

\* A guardrail objects: reschedule_job, which counts as a run of the job.
RejectJob(j) ==
  /\ CheckJob(j)
  /\ ~WithinLimits(j)
  /\ Replan(j, snap[j].kind)
  /\ UNCHANGED <<arrived, task, permits, editVars, leftVars, disturbances>>

\* Mutant: the job is rescheduled but not disabled.
AutoDisableForgotten(j) ==
  /\ CheckJob(j)
  /\ WithinLimits(j) /\ StreakExhausted(j)
  /\ Replan(j, snap[j].kind)
  /\ UNCHANGED <<arrived, task, permits, editVars, leftVars, disturbances>>

\* The last guardrail: disable_job, then reschedule_job as for the others.
AutoDisable(j) ==
  /\ CheckJob(j)
  /\ WithinLimits(j) /\ StreakExhausted(j)
  /\ LET off == [job[j] EXCEPT !.enabled = FALSE] IN
       UpdateRow(j, IF NextRunAfter(snap[j].kind, j) = "null" THEN off
                    ELSE [off EXCEPT !.next = "future", !.last = "recent"])
  /\ UNCHANGED <<arrived, task, permits, editVars, leftVars, disturbances>>

\* check_poll_change finds no change, or fails.
PollUnchanged(j) ==
  /\ CheckJob(j)
  /\ WithinLimits(j) /\ ~StreakExhausted(j)
  /\ snap[j].kind = "poll"
  /\ Replan(j, snap[j].kind)
  /\ UNCHANGED <<arrived, task, permits, editVars, leftVars, disturbances>>

DispatchJob(j) ==
  /\ CheckJob(j)
  /\ WithinLimits(j) /\ ~StreakExhausted(j)
  /\ Spawn(j, snap[j].kind)
  /\ UNCHANGED <<jobVars, editVars, leftVars, disturbances>>

\* Mutant: rows of runs that are gone are not swept.
SweepLive ==
  /\ engine = "scan" /\ pending = {}
  /\ engine' = "loop"
  /\ UNCHANGED <<jobVars, task, permits, pending, snap, editVars, leftVars, disturbances>>

\* timeout_stuck_runs: rows of runs that began too long ago no longer say
\* 'running', be the runs under way or gone.
SweepStuck ==
  /\ engine = "scan" /\ pending = {}
  /\ engine' = "loop"
  /\ \E stuck \in SUBSET {t \in Tasks : task[t].row = "running"
                                        /\ task[t].job \in LongRunning} :
       task' = [t \in Tasks |-> IF t \in stuck
                                THEN [task[t] EXCEPT !.row = "timeout"]
                                ELSE task[t]]
  /\ \E left \in [Jobs -> 0 .. MaxPermits + MaxDisturbances] :
       (\A j \in Jobs : left[j] <= orphans[j]) /\ orphans' = left
  /\ UNCHANGED <<jobVars, permits, pending, snap, editVars, queued, panics, disturbances>>

\* The shutdown token is seen by the select!.
ShutDown ==
  /\ engine = "sleep"
  /\ engine' = "drain"
  /\ UNCHANGED <<jobVars, task, permits, pending, snap, editVars, leftVars, disturbances>>

\* acquire_many returned, or 10 seconds passed with runs still under way.
Stop ==
  /\ engine = "drain"
  /\ engine' = "stopped"
  /\ CancelRuns
  /\ UNCHANGED <<jobVars, permits, pending, snap, editVars, disturbances>>

\* The process ends, in order or not: what is not in the database is gone.
Exit ==
  /\ engine # "down" /\ disturbances < MaxDisturbances
  /\ engine' = "down"
  /\ disturbances' = disturbances + 1
  /\ task' = [t \in Tasks |-> IdleTask]
  /\ orphans' = [j \in Jobs |-> CountRunning(j)]
  /\ panics' = [j \in Jobs |-> 0]
  /\ permits' = MaxPermits
  /\ pending' = {} /\ snap' = [j \in Jobs |-> BlankRow]
  /\ editing' = {} /\ draft' = [j \in Jobs |-> BlankDraft]
  /\ posting' = [j \in Jobs |-> "none"]
  /\ UNCHANGED <<jobVars, queued>>

-----------------------------------------------------------------------------
(* a spawned run                                                           *)

\* record_run: refused by the foreign key if the job has been deleted.
RecordRun(t) ==
  /\ task[t].pc = "spawned"
  /\ task' = [task EXCEPT ![t].pc = "executing",
       ![t].row = IF task[t].job \in stored THEN "running" ELSE "none"]
  /\ UNCHANGED <<jobVars, permits, engineVars, editVars, leftVars, disturbances>>

\* execute_with_retry ends, at the latest by its timeouts, and
\* update_run_status overwrites whatever status the row has by now.
EndExecution(t) ==
  /\ task[t].pc = "executing"
  /\ \E outcome \in {"success", "failed", "timeout"} :
       task' = [task EXCEPT
         ![t].pc  = IF outcome = "success" THEN "succeeded" ELSE "failed",
         ![t].row = IF @ = "none" THEN "none" ELSE outcome]
  /\ UNCHANGED <<jobVars, permits, engineVars, editVars, leftVars, disturbances>>

\* A tool of the run panics, and nothing catches it: the task is gone and gives
\* its permit back, the row and the job stay as they are.
Panic(t) ==
  LET j == task[t].job IN
  /\ task[t].pc = "executing" /\ disturbances < MaxDisturbances
  /\ disturbances' = disturbances + 1
  /\ task' = [task EXCEPT ![t] = IdleTask]
  /\ permits' = permits + 1
  /\ orphans' = IF task[t].row = "running" THEN [orphans EXCEPT ![j] = @ + 1] ELSE orphans
  /\ panics' = [panics EXCEPT ![j] = @ + 1]
  /\ UNCHANGED <<jobVars, engineVars, editVars, queued>>

\* reset_fail_streak or increment_fail_streak, then increment_daily_counter;
\* nothing ever calls reset_daily_counter.
UpdateCounters(t) ==
  /\ task[t].pc \in {"succeeded", "failed"}
  /\ task' = [task EXCEPT ![t].pc = "planning"]
  /\ LET row == job[task[t].job]
         streak == IF task[t].pc = "succeeded" THEN 0
                   ELSE Saturate(row.fail + 1, MaxFailures)
     IN UpdateRow(task[t].job,
          [row EXCEPT !.fail = streak, !.daily = Saturate(@ + 1, MaxDaily)])
  /\ UNCHANGED <<arrived, permits, engineVars, editVars, leftVars, disturbances>>

\* Mutant: a run whose job is gone returns without its permit.
PlanNextLeak(t) ==
  LET j == task[t].job IN
  /\ task[t].pc = "planning"
  /\ Replan(j, task[t].kind)
  /\ task' = [task EXCEPT ![t] = IdleTask]
  /\ permits' = IF j \in stored THEN permits + 1 ELSE permits
  /\ UNCHANGED <<arrived, engineVars, editVars, leftVars, disturbances>>

\* The next time is computed from the run's own copy of the schedule.  Without
\* one the job is deleted if it was to be, and otherwise left as it is: due.
\* The run then ends and drops its permit.
PlanNext(t) ==
  LET j == task[t].job
      over == NextRunAfter(task[t].kind, j) = "null"
  IN
  /\ task[t].pc = "planning"
  /\ \/ /\ ~(over /\ j \in OneOff)
        /\ Replan(j, task[t].kind)
        /\ task' = [task EXCEPT ![t] = IdleTask]
        /\ UNCHANGED leftVars
     \/ /\ over /\ j \in OneOff
        /\ RemoveRow(j)
        /\ task' = [DropRuns(j) EXCEPT ![t] = IdleTask]
  /\ permits' = permits + 1
  /\ UNCHANGED <<arrived, engineVars, editVars, disturbances>>

-----------------------------------------------------------------------------
(* clients                                                                 *)

ClientStep ==
  /\ engine # "down"
  /\ UNCHANGED <<arrived, permits, engineVars, disturbances>>

\* add_job, under a new uuid: nothing knows of the id yet.  The schema admits
\* these kinds only, validate_schedule an At in the future only.
AddJob(j) ==
  /\ engine # "down"
  /\ j \notin stored /\ LiveOf(j) = {} /\ j \notin pending /\ j \notin editing
  /\ posting[j] = "none"
  /\ stored' = stored \cup {j}
  /\ \E kind \in KindsOf[j] :
       job' = [job EXCEPT ![j] = [BlankRow EXCEPT
         !.kind = kind, !.enabled = TRUE,
         !.next = IF kind = "webhook" THEN "null" ELSE "future"]]
  /\ arrived' = arrived \ {j}
  /\ UNCHANGED <<task, permits, engineVars, editVars, leftVars, disturbances>>

\* delete_cron_job, cron_manage's delete; cron_remove needs an approval nobody gives.
DeleteJob(j) ==
  /\ ClientStep
  /\ j \in stored
  /\ RemoveRow(j)
  /\ task' = DropRuns(j)
  /\ UNCHANGED editVars

\* pause_cron_job and cron_manage's pause; cron_manage's resume.
SetEnabled(j) ==
  /\ ClientStep
  /\ j \in stored
  /\ \E on \in BOOLEAN : UpdateRow(j, [job[j] EXCEPT !.enabled = on])
  /\ UNCHANGED <<task, editVars, leftVars>>

\* trigger_cron_job and cron_trigger: due now, the last run kept (or 0).
TriggerJob(j) ==
  /\ ClientStep
  /\ j \in stored
  /\ UpdateRow(j, [job[j] EXCEPT !.next = "due",
                                 !.last = IF @ = "null" THEN "old" ELSE @])
  /\ UNCHANGED <<task, editVars, leftVars>>

\* cron_manage's trigger: it only writes fail_streak.
ToolTrigger(j) ==
  /\ ClientStep
  /\ j \in stored
  /\ UpdateRow(j, [job[j] EXCEPT !.fail = -1])
  /\ UNCHANGED <<task, editVars, leftVars>>

\* webhook_trigger_handler finds the job, ...
WebhookPost(j) ==
  /\ ClientStep
  /\ j \in stored /\ job[j].kind = "webhook" /\ job[j].enabled
  /\ posting[j] = "none"
  /\ posting' = [posting EXCEPT ![j] = "found"]
  /\ UNCHANGED <<stored, job, task, editing, draft, leftVars>>

\* ... records a run that is queued, unless the job is gone, ...
WebhookInsert(j) ==
  /\ ClientStep
  /\ posting[j] = "found"
  /\ posting' = [posting EXCEPT ![j] = "inserted"]
  /\ queued' = queued \cup ({j} \cap stored)
  /\ UNCHANGED <<stored, job, task, editing, draft, orphans, panics>>

\* ... and makes the job due, its last run being now.
WebhookUpdate(j) ==
  /\ ClientStep
  /\ posting[j] = "inserted"
  /\ posting' = [posting EXCEPT ![j] = "none"]
  /\ UpdateRow(j, [job[j] EXCEPT !.next = "due", !.last = "recent"])
  /\ UNCHANGED <<task, editing, draft, leftVars>>

\* update_job reads the row and works out the row it will write, with another
\* enabled flag or another schedule if the patch has one ...
BeginEdit(j) ==
  /\ ClientStep
  /\ j \in (stored \cap Edited) \ editing
  /\ editing' = editing \cup {j}
  /\ \/ \E on \in BOOLEAN :
          draft' = [draft EXCEPT ![j] =
            [kind |-> job[j].kind, enabled |-> on, next |-> job[j].next]]
     \/ \E kind \in KindsOf[j] \ {"at"} :
          draft' = [draft EXCEPT ![j] =
            [kind |-> kind, enabled |-> job[j].enabled, next |-> NextRunAfter(kind, j)]]
  /\ UNCHANGED <<stored, job, task, posting, leftVars>>

\* ... and writes every column of it but the last run and the counters.
CommitEdit(j) ==
  /\ ClientStep
  /\ j \in editing
  /\ editing' = editing \ {j}
  /\ draft' = [draft EXCEPT ![j] = BlankDraft]
  /\ UpdateRow(j, [job[j] EXCEPT !.kind = draft[j].kind, !.next = draft[j].next,
                                 !.enabled = draft[j].enabled])
  /\ UNCHANGED <<task, posting, leftVars>>

-----------------------------------------------------------------------------
(* time                                                                    *)

\* next_run_at is reached.  Unless the cooldown is longer than the interval, a
\* recurring job's last run is by then out of it.
Elapse(j) ==
  /\ j \in stored /\ job[j].next = "future"
  /\ job[j].kind \in {"recurring", "poll"} /\ job[j].last = "recent"
       => j \in LongCooldown
  /\ job' = [job EXCEPT ![j].next = "due"]
  /\ arrived' = IF job[j].kind = "at" THEN arrived \cup {j} ELSE arrived
  /\ UNCHANGED <<stored, task, permits, engineVars, editVars, leftVars, disturbances>>

\* The timestamp of an At job that was triggered ahead of it passes.
Arrive(j) ==
  /\ j \in stored \ arrived /\ job[j].kind = "at" /\ job[j].next # "future"
  /\ arrived' = arrived \cup {j}
  /\ UNCHANGED <<stored, job, task, permits, engineVars, editVars, leftVars, disturbances>>

\* The refire gap and the cooldown since the last run are over.
Cool(j) ==
  /\ job[j].last = "recent"
  /\ job' = [job EXCEPT ![j].last = "old"]
  /\ UNCHANGED <<stored, arrived, task, permits, engineVars, editVars, leftVars, disturbances>>

-----------------------------------------------------------------------------
Init ==
  /\ stored = {}
  /\ job = [j \in Jobs |-> BlankRow]
  /\ arrived = {}
  /\ task = [t \in Tasks |-> IdleTask]
  /\ permits = MaxPermits
  /\ engine = "down"
  /\ pending = {} /\ snap = [j \in Jobs |-> BlankRow]
  /\ editing = {} /\ draft = [j \in Jobs |-> BlankDraft]
  /\ orphans = [j \in Jobs |-> 0] /\ panics = [j \in Jobs |-> 0]
  /\ queued = {} /\ posting = [j \in Jobs |-> "none"]
  /\ disturbances = 0

EngineStep ==
  \/ Boot \/ ScanMissed \/ EnterSleep \/ ScanDue \/ SweepStuck
  \/ \E j \in Jobs : \/ RecoverJob(j) \/ RejectJob(j) \/ AutoDisable(j)
                     \/ PollUnchanged(j) \/ DispatchJob(j)

RunStep(t) ==
  RecordRun(t) \/ EndExecution(t) \/ UpdateCounters(t) \/ PlanNext(t)

ClientOp(j) ==
  \/ AddJob(j) \/ DeleteJob(j) \/ SetEnabled(j) \/ TriggerJob(j)
  \/ ToolTrigger(j) \/ BeginEdit(j) \/ CommitEdit(j)
  \/ WebhookPost(j) \/ WebhookInsert(j) \/ WebhookUpdate(j)

Next ==
  \/ EngineStep
  \/ Start \/ ShutDown \/ Stop \/ Exit
  \/ \E t \in Tasks : RunStep(t) \/ Panic(t)
  \/ \E j \in Jobs : ClientOp(j)
  \/ \E j \in Jobs : Elapse(j) \/ Arrive(j) \/ Cool(j)

Spec == Init /\ [][Next]_vars

\* The runtime runs the loop and every spawned run, each execution attempt has
\* a timeout, and time passes: a row that stays becomes old enough to be swept.
\* Clients, suspends, panics and exits are free.
Fairness ==
  /\ WF_vars(EngineStep)
  /\ \A t \in Tasks : WF_vars(RunStep(t))
  /\ \A j \in Jobs : /\ WF_vars(Elapse(j)) /\ WF_vars(Cool(j))
                     /\ SF_vars(SweepStuck /\ orphans[j] # 0 /\ orphans'[j] = 0)

FairSpec == Spec /\ Fairness

-----------------------------------------------------------------------------
(* properties                                                              *)

Up == engine \notin {"down", "boot"}

\* Every variable has the type its column or field has.
TypeOK ==
  /\ stored \subseteq Jobs
  /\ job \in [Jobs -> JobRow]
  /\ arrived \subseteq Jobs
  /\ task \in [Tasks -> Task]
  /\ permits \in 0..MaxPermits
  /\ engine \in {"down", "boot", "booted", "recover", "loop", "sleep", "scan",
                 "drain", "stopped"}
  /\ pending \subseteq Jobs
  /\ snap \in [Jobs -> JobRow]
  /\ editing \subseteq Jobs
  /\ draft \in [Jobs -> Draft]
  /\ orphans \in [Jobs -> Nat] /\ panics \in [Jobs -> Nat]
  /\ queued \subseteq Jobs
  /\ posting \in [Jobs -> {"none", "found", "inserted"}]
  /\ disturbances \in 0..MaxDisturbances

\* The semaphore bounds the runs of all jobs together, catch-up runs included,
\* across exits and restarts, and no permit is ever lost (spawn_job).
PermitsConserved == permits + Cardinality(Live) = MaxPermits

\* Once the engine has booted, a run recorded as running is being executed,
\* unless it panicked since the app started: a row that a dead process left
\* behind would count against max_concurrent (cancel_running_runs at start).
NoOrphanRunning ==
  Up => /\ \A t \in Tasks : task[t].row = "running" => task[t].pc = "executing"
        /\ \A j \in Jobs : orphans[j] <= panics[j]

\* No run is recorded for a job that has no row any more, be it running, left
\* behind or queued by a webhook (the cascade of delete_job against the rows
\* that runs and webhooks insert for a job they have found earlier).
RunsHaveJobs ==
  /\ \A t \in Tasks : task[t].row # "none" => task[t].job \in stored
  /\ \A j \in Jobs : orphans[j] # 0 => j \in stored
  /\ queued \subseteq stored

\* A deleted job stays deleted, whatever the runs, the engine's copy of it and
\* the update_job calls under way still write.
DeletedStaysDeleted ==
  [][\A j \in Jobs : j \in stored' \ stored => AddJob(j)]_vars

\* update_job writes nearly the whole row it read some awaits ago, yet it never
\* undoes what a run that ended in between did to the streak and daily count.
CountersFollowRuns ==
  [][\A j \in stored \cap stored' :
       <<job'[j].fail, job'[j].daily>> # <<job[j].fail, job[j].daily>>
         => \/ ToolTrigger(j)
            \/ \E t \in Tasks : task[t].job = j /\ UpdateCounters(t)]_vars

\* The engine is neither stopped nor waiting to be.
Serving == engine \notin {"down", "drain", "stopped"}

\* The clients leave the scheduler alone from some time on; a trigger that does
\* no more than the passage of time would is let through.
ClientsQuiet == <>[][\A j \in Jobs : ClientOp(j) => Elapse(j)]_vars

\* Left alone, as long as its cooldown is shorter than its interval and no daily limit is
\* set, an enabled recurring job is run again and again: no chain of rejected
\* checks, recovery scans, stale copies and concurrent edits parks it for good.
RecurringJobKeepsRunning ==
  ClientsQuiet => \A j \in Jobs \ (Capped \cup LongCooldown) :
    []<>(\/ ~Serving
         \/ j \notin stored \/ ~job[j].enabled \/ job[j].kind # "recurring"
         \/ LiveOf(j) # {})

\* Left alone, a recurring job whose failures have reached the limit is disabled
\* in the end, unless a run still under way succeeds.
FailingJobIsDisabled ==
  ClientsQuiet => \A j \in Jobs \ (Capped \cup LongCooldown) :
    (j \in stored /\ job[j].kind = "recurring" /\ job[j].fail >= MaxFailures)
      ~> (\/ ~Serving \/ j \notin stored \/ job[j].kind # "recurring"
          \/ ~job[j].enabled \/ job[j].fail < MaxFailures)
=============================================================================
