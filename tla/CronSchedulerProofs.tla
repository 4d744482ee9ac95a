------------------------ MODULE CronSchedulerProofs ------------------------
(***************************************************************************)
(* What holds of CronScheduler for every set of jobs, every number of run  *)
(* slots and permits, and every limit.                                     *)
(***************************************************************************)
EXTENDS CronScheduler, TLAPS, FiniteSetTheorems

\* TypeOK but for the bound on the permits, which rests on PermitsConserved.
ColumnTypes ==
  /\ stored \subseteq Jobs
  /\ job \in [Jobs -> JobRow]
  /\ arrived \subseteq Jobs
  /\ task \in [Tasks -> Task]
  /\ engine \in {"down", "boot", "booted", "recover", "loop", "sleep", "scan",
                 "drain", "stopped"}
  /\ pending \subseteq Jobs
  /\ snap \in [Jobs -> JobRow]
  /\ editing \subseteq Jobs
  /\ draft \in [Jobs -> Draft]
  /\ orphans \in [Jobs -> Nat] /\ panics \in [Jobs -> Nat]
  /\ queued \subseteq Jobs
  /\ posting \in [Jobs -> {"none", "found", "inserted"}]
  /\ disturbances \in 0..MaxDisturbances

-----------------------------------------------------------------------------
(* Types                                                                   *)

\* The empty row, the empty draft and the empty slot have their types.
LEMMA BlankTypes ==
  BlankRow \in JobRow /\ BlankDraft \in Draft /\ IdleTask \in Task
BY ConstantsOK
   DEF ConstantsOK, BlankRow, JobRow, BlankDraft, Draft, IdleTask, Task, Kinds, RunStatus

\* What update_next_run and disable_job make of a row is a row.
LEMMA RowTypes ==
  ASSUME NEW r \in JobRow
  PROVE  /\ [r EXCEPT !.next = "future", !.last = "recent"] \in JobRow
         /\ [r EXCEPT !.enabled = FALSE] \in JobRow
BY DEF JobRow

\* A slot whose run moves on and whose row of cron_runs changes.
LEMMA SlotTypes ==
  ASSUME NEW t \in Tasks, task[t] \in Task, NEW pc, NEW row \in RunStatus,
         pc \in {"idle", "spawned", "executing", "succeeded", "failed", "planning"}
  PROVE  /\ [task[t] EXCEPT !.pc = pc] \in Task
         /\ [task[t] EXCEPT !.row = row] \in Task
         /\ [task[t] EXCEPT !.pc = pc, !.row = row] \in Task
BY DEF Task

\* An UPDATE of a row by a row keeps the table's type (store.rs).
LEMMA UpdateRowTypes ==
  ASSUME stored \subseteq Jobs, job \in [Jobs -> JobRow],
         NEW j \in Jobs, NEW row \in JobRow, UpdateRow(j, row)
  PROVE  stored' \subseteq Jobs /\ job' \in [Jobs -> JobRow]
BY DEF UpdateRow

\* update_next_run keeps the table's type.
LEMMA ReplanTypes ==
  ASSUME stored \subseteq Jobs, job \in [Jobs -> JobRow],
         NEW j \in Jobs, NEW kind, Replan(j, kind)
  PROVE  stored' \subseteq Jobs /\ job' \in [Jobs -> JobRow]
<1>1. CASE NextRunAfter(kind, j) = "null"
  BY <1>1 DEF Replan
<1>2. CASE NextRunAfter(kind, j) # "null"
  <2>1. [job[j] EXCEPT !.next = "future", !.last = "recent"] \in JobRow
    BY DEF JobRow
  <2> QED BY <1>2, <2>1, UpdateRowTypes DEF Replan
<1> QED BY <1>1, <1>2

\* DELETE keeps the tables' types, and so does its cascade for the runs.
LEMMA DeletionTypes ==
  ASSUME ColumnTypes, NEW j \in Jobs
  PROVE  /\ RemoveRow(j) =>
              /\ stored' \subseteq Jobs /\ job' \in [Jobs -> JobRow]
              /\ orphans' \in [Jobs -> Nat] /\ panics' \in [Jobs -> Nat]
              /\ queued' \subseteq Jobs
         /\ DropRuns(j) \in [Tasks -> Task]
<1>1. RemoveRow(j) =>
        /\ stored' \subseteq Jobs /\ job' \in [Jobs -> JobRow]
        /\ orphans' \in [Jobs -> Nat] /\ panics' \in [Jobs -> Nat]
        /\ queued' \subseteq Jobs
  BY BlankTypes DEF ColumnTypes, RemoveRow
<1>2. ASSUME NEW t \in Tasks PROVE DropRuns(j)[t] \in Task
  <2>1. task[t] \in Task /\ [task[t] EXCEPT !.row = "none"] \in Task
    BY DEF ColumnTypes, Task, RunStatus
  <2> QED BY <2>1, BlankTypes DEF DropRuns
<1> QED BY <1>1, <1>2 DEF DropRuns

\* cancel_running_runs keeps the type of the runs and of their rows.
LEMMA CancelTypes ==
  ASSUME ColumnTypes, CancelRuns
  PROVE  /\ task' \in [Tasks -> Task]
         /\ orphans' \in [Jobs -> Nat] /\ UNCHANGED <<queued, panics>>
<1>1. ASSUME NEW t \in Tasks PROVE task'[t] \in Task
  <2>1. task[t] \in Task /\ [task[t] EXCEPT !.row = "cancelled"] \in Task
    BY DEF ColumnTypes, Task, RunStatus
  <2> QED BY <2>1 DEF CancelRuns
<1>2. orphans' \in [Jobs -> Nat]
  BY DEF CancelRuns
<1> QED BY <1>1, <1>2 DEF CancelRuns

\* The number of rows that say 'running' is a natural number, and where there
\* is such a row, it belongs to a run or is an orphan.
LEMMA RunningCount ==
  ASSUME ColumnTypes, NEW j \in Jobs
  PROVE  /\ CountRunning(j) \in Nat
         /\ CountRunning(j) # 0 => orphans[j] # 0 \/ RunningOf(j) # {}
<1>1. IsFiniteSet(RunningOf(j))
  <2>1. IsFiniteSet(Tasks) /\ RunningOf(j) \subseteq Tasks
    BY ConstantsOK DEF ConstantsOK, RunningOf
  <2> QED BY <2>1, FS_Subset
<1>2. Cardinality(RunningOf(j)) \in Nat
  BY <1>1, FS_CardinalityType
<1>3. RunningOf(j) = {} => Cardinality(RunningOf(j)) = 0
  BY FS_EmptySet
<1> QED BY <1>2, <1>3 DEF ColumnTypes, CountRunning

\* spawn_job fills a slot with a run of its job, or changes nothing.
LEMMA SpawnTypes ==
  ASSUME ColumnTypes, NEW j \in Jobs, NEW kind \in Kinds, Spawn(j, kind)
  PROVE  task' \in [Tasks -> Task]
<1>1. [pc |-> "spawned", job |-> j, kind |-> kind, row |-> "none"] \in Task
  BY DEF Task, RunStatus
<1> QED BY <1>1 DEF ColumnTypes, Spawn

\* The engine's copy of the due rows has their type.
LEMMA ReadDueTypes ==
  ASSUME ColumnTypes, ReadDue
  PROVE  pending' \subseteq Jobs /\ snap' \in [Jobs -> JobRow]
BY BlankTypes DEF ColumnTypes, ReadDue, DueJobs

\* The engine's copies keep their type while it works through them.
LEMMA HandledTypes ==
  ASSUME ColumnTypes, NEW j \in Jobs, Handled(j)
  PROVE  /\ pending' \subseteq Jobs /\ snap' \in [Jobs -> JobRow]
         /\ snap[j].kind \in Kinds
BY BlankTypes DEF ColumnTypes, Handled, JobRow

\* Every step of the engine keeps the types of what it writes.
LEMMA EngineTypes ==
  ASSUME ColumnTypes, EngineStep
  PROVE  ColumnTypes'
<1>1. CASE Boot
  BY <1>1, CancelTypes DEF ColumnTypes, Boot, jobVars, editVars, leftVars
<1>2. CASE ScanMissed
  <2>1. disturbances' \in 0..MaxDisturbances
    BY <1>2, ConstantsOK DEF ConstantsOK, ColumnTypes, ScanMissed
  <2> QED BY <1>2, <2>1, ReadDueTypes DEF ColumnTypes, ScanMissed, jobVars, editVars, leftVars
<1>3. CASE EnterSleep
  BY <1>3 DEF ColumnTypes, EnterSleep, jobVars, editVars, leftVars
<1>4. CASE ScanDue
  BY <1>4, ReadDueTypes DEF ColumnTypes, ScanDue, jobVars, editVars, leftVars
<1>5. CASE SweepStuck
  <2>1. PICK stuck \in SUBSET Tasks :
          task' = [t \in Tasks |-> IF t \in stuck
                                   THEN [task[t] EXCEPT !.row = "timeout"]
                                   ELSE task[t]]
    BY <1>5 DEF SweepStuck
  <2>2. ASSUME NEW t \in Tasks PROVE task'[t] \in Task
    <3>1. task[t] \in Task /\ [task[t] EXCEPT !.row = "timeout"] \in Task
      BY DEF ColumnTypes, Task, RunStatus
    <3> QED BY <2>1, <3>1
  <2>3. task' \in [Tasks -> Task]
    BY <2>1, <2>2
  <2>4. orphans' \in [Jobs -> Nat]
    <3>1. PICK left \in [Jobs -> 0 .. MaxPermits + MaxDisturbances] : orphans' = left
      BY <1>5 DEF SweepStuck
    <3> QED BY <3>1, ConstantsOK DEF ConstantsOK
  <2> QED BY <1>5, <2>3, <2>4 DEF ColumnTypes, SweepStuck, jobVars, editVars
<1>6. ASSUME NEW j \in Jobs, RecoverJob(j) PROVE ColumnTypes'
  <2>1. stored' \subseteq Jobs /\ job' \in [Jobs -> JobRow]
    BY <1>6, ReplanTypes DEF ColumnTypes, RecoverJob
  <2>2. task' \in [Tasks -> Task]
    BY <1>6, SpawnTypes, HandledTypes DEF ColumnTypes, RecoverJob
  <2> QED BY <1>6, <2>1, <2>2, HandledTypes
            DEF ColumnTypes, RecoverJob, Handled, editVars, leftVars
<1>7. ASSUME NEW j \in Jobs, RejectJob(j) PROVE ColumnTypes'
  BY <1>7, ReplanTypes, HandledTypes
     DEF ColumnTypes, RejectJob, CheckJob, Handled, editVars, leftVars
<1>8. ASSUME NEW j \in Jobs, AutoDisable(j) PROVE ColumnTypes'
  <2> DEFINE off == [job[j] EXCEPT !.enabled = FALSE]
  <2>1. off \in JobRow /\ [off EXCEPT !.next = "future", !.last = "recent"] \in JobRow
    BY RowTypes DEF ColumnTypes
  <2>2. stored' \subseteq Jobs /\ job' \in [Jobs -> JobRow]
    BY <1>8, <2>1, UpdateRowTypes DEF ColumnTypes, AutoDisable
  <2> QED BY <1>8, <2>2, HandledTypes
            DEF ColumnTypes, AutoDisable, CheckJob, Handled, editVars, leftVars
<1>9. ASSUME NEW j \in Jobs, PollUnchanged(j) PROVE ColumnTypes'
  BY <1>9, ReplanTypes, HandledTypes
     DEF ColumnTypes, PollUnchanged, CheckJob, Handled, editVars, leftVars
<1>10. ASSUME NEW j \in Jobs, DispatchJob(j) PROVE ColumnTypes'
  BY <1>10, SpawnTypes, HandledTypes
     DEF ColumnTypes, DispatchJob, CheckJob, Handled, jobVars, editVars, leftVars
<1> QED BY <1>1, <1>2, <1>3, <1>4, <1>5, <1>6, <1>7, <1>8, <1>9, <1>10 DEF EngineStep

\* The engine's start and end, and the end of the process.
LEMMA LifecycleTypes ==
  ASSUME ColumnTypes, Start \/ ShutDown \/ Stop \/ Exit
  PROVE  ColumnTypes'
<1>1. CASE Start
  BY <1>1 DEF ColumnTypes, Start, jobVars, editVars, leftVars
<1>2. CASE ShutDown
  BY <1>2 DEF ColumnTypes, ShutDown, jobVars, editVars, leftVars
<1>3. CASE Stop
  BY <1>3, CancelTypes DEF ColumnTypes, Stop, jobVars, editVars, leftVars
<1>4. CASE Exit
  <2>1. orphans' \in [Jobs -> Nat] /\ panics' \in [Jobs -> Nat]
    BY <1>4, RunningCount DEF Exit
  <2>2. task' \in [Tasks -> Task]
    BY <1>4, BlankTypes DEF Exit
  <2>3. disturbances' \in 0..MaxDisturbances
    <3>1. disturbances < MaxDisturbances /\ disturbances' = disturbances + 1
      BY <1>4 DEF Exit
    <3> QED BY <3>1, ConstantsOK DEF ConstantsOK, ColumnTypes
  <2> QED BY <1>4, <2>1, <2>2, <2>3, BlankTypes DEF ColumnTypes, Exit, jobVars
<1> QED BY <1>1, <1>2, <1>3, <1>4

\* The writes of a spawned run.
LEMMA RunTypes ==
  ASSUME ColumnTypes, NEW t \in Tasks, RunStep(t)
  PROVE  ColumnTypes'
<1> task[t] \in Task
  BY DEF ColumnTypes
<1>1. CASE RecordRun(t)
  <2>1. PICK row \in RunStatus :
          task' = [task EXCEPT ![t] = [task[t] EXCEPT !.pc = "executing", !.row = row]]
    BY <1>1 DEF ColumnTypes, RecordRun, RunStatus
  <2>2. task' \in [Tasks -> Task]
    BY <2>1, SlotTypes DEF ColumnTypes
  <2> QED BY <1>1, <2>2 DEF ColumnTypes, RecordRun, jobVars, engineVars, editVars, leftVars
<1>2. CASE EndExecution(t)
  <2>1. PICK outcome \in {"success", "failed", "timeout"} :
          task' = [task EXCEPT
            ![t].pc  = IF outcome = "success" THEN "succeeded" ELSE "failed",
            ![t].row = IF @ = "none" THEN "none" ELSE outcome]
    BY <1>2 DEF EndExecution
  <2> DEFINE pc  == IF outcome = "success" THEN "succeeded" ELSE "failed"
             row == IF task[t].row = "none" THEN "none" ELSE outcome
  <2>2. [task[t] EXCEPT !.pc = pc, !.row = row] \in Task
    BY SlotTypes DEF RunStatus
  <2>3. task' = [task EXCEPT ![t] = [task[t] EXCEPT !.pc = pc, !.row = row]]
    BY <2>1 DEF ColumnTypes, Task
  <2>4. task' \in [Tasks -> Task]
    BY <2>2, <2>3 DEF ColumnTypes
  <2> QED BY <1>2, <2>4 DEF ColumnTypes, EndExecution, jobVars, engineVars, editVars, leftVars
<1>3. CASE UpdateCounters(t)
  <2>1. task' \in [Tasks -> Task]
    BY <1>3, SlotTypes DEF ColumnTypes, UpdateCounters, RunStatus
  <2>2. ASSUME NEW r \in JobRow, NEW n \in {0, Saturate(r.fail + 1, MaxFailures)}
        PROVE  [r EXCEPT !.fail = n, !.daily = Saturate(@ + 1, MaxDaily)] \in JobRow
    <3>1. n \in -1..MaxFailures /\ Saturate(r.daily + 1, MaxDaily) \in 0..MaxDaily
      BY ConstantsOK DEF ConstantsOK, JobRow, Saturate
    <3> QED BY <3>1 DEF JobRow
  <2>3. stored' \subseteq Jobs /\ job' \in [Jobs -> JobRow]
    <3>1. CASE task[t].job \in stored
      <4>1. job[task[t].job] \in JobRow
        BY <3>1 DEF ColumnTypes
      <4> QED BY <1>3, <2>2, <3>1, <4>1, UpdateRowTypes DEF ColumnTypes, UpdateCounters
    <3>2. CASE task[t].job \notin stored
      BY <1>3, <3>2 DEF ColumnTypes, UpdateCounters, UpdateRow
    <3> QED BY <3>1, <3>2
  <2> QED BY <1>3, <2>1, <2>3 DEF ColumnTypes, UpdateCounters, engineVars, editVars, leftVars
<1>4. CASE PlanNext(t)
  <2>1. CASE task[t].job \in Jobs
    <3>1. stored' \subseteq Jobs /\ job' \in [Jobs -> JobRow]
      BY <1>4, <2>1, ReplanTypes, DeletionTypes DEF ColumnTypes, PlanNext
    <3>2. task' \in [Tasks -> Task]
      BY <1>4, <2>1, DeletionTypes, BlankTypes DEF ColumnTypes, PlanNext
    <3>3. orphans' \in [Jobs -> Nat] /\ panics' \in [Jobs -> Nat] /\ queued' \subseteq Jobs
      BY <1>4, <2>1, DeletionTypes DEF ColumnTypes, PlanNext, leftVars
    <3> QED BY <1>4, <3>1, <3>2, <3>3 DEF ColumnTypes, PlanNext, engineVars, editVars
  <2>2. CASE task[t].job \notin Jobs
    <3>1. task[t].job \notin OneOff /\ task[t].job \notin stored
      BY <2>2, ConstantsOK DEF ConstantsOK, ColumnTypes
    <3>2. UNCHANGED <<stored, job, leftVars>>
      BY <1>4, <3>1 DEF PlanNext, Replan, UpdateRow
    <3>3. task' \in [Tasks -> Task]
      BY <1>4, <3>1, BlankTypes DEF ColumnTypes, PlanNext
    <3> QED BY <1>4, <3>2, <3>3 DEF ColumnTypes, PlanNext, engineVars, editVars, leftVars
  <2> QED BY <2>1, <2>2
<1> QED BY <1>1, <1>2, <1>3, <1>4 DEF RunStep

\* A panic frees the slot and leaves a number of rows behind.
LEMMA PanicTypes ==
  ASSUME ColumnTypes, NEW t \in Tasks, Panic(t)
  PROVE  ColumnTypes'
<1>1. disturbances' \in 0..MaxDisturbances
  BY ConstantsOK DEF ConstantsOK, ColumnTypes, Panic
<1>2. task' \in [Tasks -> Task]
  BY BlankTypes DEF ColumnTypes, Panic
<1>3. orphans' \in [Jobs -> Nat] /\ panics' \in [Jobs -> Nat]
  <2>1. orphans \in [Jobs -> Nat] /\ panics \in [Jobs -> Nat]
    BY DEF ColumnTypes
  <2>2. ASSUME NEW f \in [Jobs -> Nat], NEW j
        PROVE  [f EXCEPT ![j] = @ + 1] \in [Jobs -> Nat]
    <3>1. \A i \in Jobs : f[i] \in Nat /\ f[i] + 1 \in Nat
      OBVIOUS
    <3>2. CASE j \in Jobs
      BY <3>1, <3>2
    <3>3. CASE j \notin Jobs
      BY <3>1, <3>3
    <3> QED BY <3>2, <3>3
  <2> QED BY <2>1, <2>2 DEF Panic
<1> QED BY <1>1, <1>2, <1>3 DEF ColumnTypes, Panic, jobVars, engineVars, editVars

\* The clients' operations.
LEMMA ClientTypes ==
  ASSUME ColumnTypes, NEW j \in Jobs, ClientOp(j)
  PROVE  ColumnTypes'
<1> job[j] \in JobRow
  BY DEF ColumnTypes
<1>1. CASE AddJob(j)
  <2>1. ASSUME NEW kind \in KindsOf[j], NEW next \in {"null", "future"}
        PROVE  [BlankRow EXCEPT !.kind = kind, !.enabled = TRUE, !.next = next] \in JobRow
    BY BlankTypes, ConstantsOK DEF ConstantsOK, JobRow
  <2>2. PICK kind \in KindsOf[j] :
          job' = [job EXCEPT ![j] = [BlankRow EXCEPT
            !.kind = kind, !.enabled = TRUE,
            !.next = IF kind = "webhook" THEN "null" ELSE "future"]]
    BY <1>1 DEF AddJob
  <2>3. job' \in [Jobs -> JobRow]
    BY <2>1, <2>2 DEF ColumnTypes
  <2> QED BY <1>1, <2>3 DEF ColumnTypes, AddJob, engineVars, editVars, leftVars
<1>2. CASE DeleteJob(j)
  BY <1>2, DeletionTypes DEF ColumnTypes, DeleteJob, ClientStep, engineVars, editVars, leftVars
<1>3. CASE SetEnabled(j)
  <2>1. ASSUME NEW on \in BOOLEAN PROVE [job[j] EXCEPT !.enabled = on] \in JobRow
    BY DEF JobRow
  <2> QED BY <1>3, <2>1, UpdateRowTypes
            DEF ColumnTypes, SetEnabled, ClientStep, engineVars, editVars, leftVars
<1>4. CASE TriggerJob(j)
  <2>1. [job[j] EXCEPT !.next = "due", !.last = IF @ = "null" THEN "old" ELSE @] \in JobRow
    BY DEF JobRow
  <2> QED BY <1>4, <2>1, UpdateRowTypes
            DEF ColumnTypes, TriggerJob, ClientStep, engineVars, editVars, leftVars
<1>5. CASE ToolTrigger(j)
  <2>1. [job[j] EXCEPT !.fail = -1] \in JobRow
    BY ConstantsOK DEF ConstantsOK, JobRow
  <2> QED BY <1>5, <2>1, UpdateRowTypes
            DEF ColumnTypes, ToolTrigger, ClientStep, engineVars, editVars, leftVars
<1>6. CASE WebhookPost(j)
  BY <1>6 DEF ColumnTypes, WebhookPost, ClientStep, engineVars, leftVars
<1>9. CASE WebhookInsert(j)
  BY <1>9 DEF ColumnTypes, WebhookInsert, ClientStep, engineVars
<1>10. CASE WebhookUpdate(j)
  <2>1. [job[j] EXCEPT !.next = "due", !.last = "recent"] \in JobRow
    BY DEF JobRow
  <2> QED BY <1>10, <2>1, UpdateRowTypes
            DEF ColumnTypes, WebhookUpdate, ClientStep, engineVars, leftVars
<1>7. CASE BeginEdit(j)
  <2>1. ASSUME NEW kind \in KindsOf[j]
        PROVE  kind \in Kinds /\ NextRunAfter(kind, j) \in {"null", "future", "due"}
    BY ConstantsOK DEF ConstantsOK, NextRunAfter
  <2>2. PICK d \in Draft : draft' = [draft EXCEPT ![j] = d]
    BY <1>7, <2>1 DEF BeginEdit, Draft, JobRow
  <2> QED BY <1>7, <2>2 DEF ColumnTypes, BeginEdit, ClientStep, engineVars, leftVars
<1>8. CASE CommitEdit(j)
  <2>1. draft[j] \in Draft
    BY DEF ColumnTypes
  <2>2. [job[j] EXCEPT !.kind = draft[j].kind, !.next = draft[j].next,
                       !.enabled = draft[j].enabled] \in JobRow
    BY <2>1 DEF JobRow, Draft
  <2> QED BY <1>8, <2>2, UpdateRowTypes, BlankTypes
            DEF ColumnTypes, CommitEdit, ClientStep, engineVars, leftVars
<1> QED BY <1>1, <1>2, <1>3, <1>4, <1>5, <1>6, <1>7, <1>8, <1>9, <1>10 DEF ClientOp

\* The passage of time.
LEMMA TimeTypes ==
  ASSUME ColumnTypes, NEW j \in Jobs, Elapse(j) \/ Arrive(j) \/ Cool(j)
  PROVE  ColumnTypes'
<1>1. [job[j] EXCEPT !.next = "due"] \in JobRow /\ [job[j] EXCEPT !.last = "old"] \in JobRow
  BY DEF ColumnTypes, JobRow
<1>2. CASE Elapse(j)
  BY <1>1, <1>2 DEF ColumnTypes, Elapse, engineVars, editVars, leftVars
<1>3. CASE Arrive(j)
  BY <1>3 DEF ColumnTypes, Arrive, engineVars, editVars, leftVars
<1>4. CASE Cool(j)
  BY <1>1, <1>4 DEF ColumnTypes, Cool, engineVars, editVars, leftVars
<1> QED BY <1>2, <1>3, <1>4

\* Every step of the scheduler, its clients and the clock keeps the types.
LEMMA StepTypes ==
  ASSUME ColumnTypes, [Next]_vars
  PROVE  ColumnTypes'
<1>1. CASE UNCHANGED vars
  BY <1>1 DEF ColumnTypes, vars, jobVars, engineVars, editVars, leftVars
<1>2. CASE Next
  BY <1>2, EngineTypes, LifecycleTypes, RunTypes, PanicTypes, ClientTypes, TimeTypes
     DEF Next
<1> QED BY <1>1, <1>2

-----------------------------------------------------------------------------
(* Permits                                                                 *)

\* The live runs are finitely many, so their number is a natural one.
LEMMA LiveFinite == IsFiniteSet(Live) /\ Cardinality(Live) \in Nat
<1>1. IsFiniteSet(Tasks)
  BY ConstantsOK DEF ConstantsOK
<1>2. Live \subseteq Tasks
  BY DEF Live
<1> QED BY <1>1, <1>2, FS_Subset, FS_CardinalityType

\* Where no run starts or ends, as many are live as before.
LEMMA SameRuns ==
  ASSUME \A t \in Tasks : (task'[t].pc = "idle") <=> (task[t].pc = "idle")
  PROVE  Live' = Live
BY DEF Live

\* A run that starts in an idle slot is one more ...
LEMMA OneMoreRun ==
  ASSUME NEW t \in Tasks, task[t].pc = "idle", task'[t].pc # "idle",
         \A u \in Tasks \ {t} : (task'[u].pc = "idle") <=> (task[u].pc = "idle")
  PROVE  Cardinality(Live') = Cardinality(Live) + 1
<1>1. Live' = Live \cup {t} /\ t \notin Live
  BY DEF Live
<1> QED BY <1>1, LiveFinite, FS_AddElement

\* ... and one that ends is one less.
LEMMA OneLessRun ==
  ASSUME NEW t \in Tasks, task[t].pc # "idle", task'[t].pc = "idle",
         \A u \in Tasks \ {t} : (task'[u].pc = "idle") <=> (task[u].pc = "idle")
  PROVE  Cardinality(Live') = Cardinality(Live) - 1
<1>1. Live' = Live \ {t} /\ t \in Live
  BY DEF Live
<1> QED BY <1>1, LiveFinite, FS_RemoveElement

\* Cancelling, timing out and cascading touch the rows of runs, not the runs.
LEMMA RowsOnly ==
  ASSUME ColumnTypes
  PROVE  /\ CancelRuns => \A t \in Tasks : task'[t].pc = task[t].pc
         /\ \A j : \A t \in Tasks : DropRuns(j)[t].pc = task[t].pc
<1> SUFFICES ASSUME NEW t \in Tasks, NEW j
             PROVE  /\ CancelRuns => task'[t].pc = task[t].pc
                    /\ DropRuns(j)[t].pc = task[t].pc
  OBVIOUS
<1>1. task[t] \in Task
  BY DEF ColumnTypes
<1>2. /\ [task[t] EXCEPT !.row = "cancelled"].pc = task[t].pc
      /\ [task[t] EXCEPT !.row = "none"].pc = task[t].pc
  BY <1>1 DEF Task
<1> QED BY <1>2 DEF CancelRuns, DropRuns

\* spawn_job takes a permit exactly when it starts a run.
LEMMA SpawnTakesPermit ==
  ASSUME ColumnTypes, permits \in Nat, PermitsConserved,
         NEW j \in Jobs, NEW kind \in Kinds, Spawn(j, kind)
  PROVE  permits' \in Nat /\ PermitsConserved'
<1>1. CASE permits = 0 /\ UNCHANGED <<task, permits>>
  BY <1>1 DEF PermitsConserved, Live
<1>2. CASE permits > 0 /\ permits' = permits - 1
  <2>1. PICK t \in Tasks : /\ task[t].pc = "idle"
                           /\ task' = [task EXCEPT ![t] =
                                [pc |-> "spawned", job |-> j, kind |-> kind, row |-> "none"]]
    BY <1>2 DEF Spawn
  <2>2. Cardinality(Live') = Cardinality(Live) + 1
    <3>1. task'[t].pc = "spawned" /\ \A u \in Tasks \ {t} : task'[u] = task[u]
      BY <2>1 DEF ColumnTypes
    <3> QED BY <2>1, <3>1, OneMoreRun
  <2> QED BY <1>2, <2>2, LiveFinite, ConstantsOK DEF ConstantsOK, PermitsConserved
<1> QED BY <1>1, <1>2 DEF Spawn

\* The inductive invariant behind TypeOK and PermitsConserved.
PermitInv == ColumnTypes /\ permits \in Nat /\ PermitsConserved

\* Every step keeps the number of permits and live runs in balance.
LEMMA PermitStep ==
  ASSUME PermitInv, [Next]_vars
  PROVE  PermitInv'
<1> USE DEF PermitInv
<1>0. ColumnTypes'
  BY StepTypes
<1>1. ASSUME UNCHANGED permits,
             \A t \in Tasks : (task'[t].pc = "idle") <=> (task[t].pc = "idle")
      PROVE  permits' \in Nat /\ PermitsConserved'
  BY <1>1, SameRuns DEF PermitsConserved
<1>2. CASE UNCHANGED <<task, permits>>
  BY <1>0, <1>1, <1>2
<1>3. CASE Boot \/ Stop
  BY <1>0, <1>1, <1>3, RowsOnly DEF Boot, Stop
<1>4. CASE SweepStuck
  <2>1. ASSUME NEW t \in Tasks PROVE task'[t].pc = task[t].pc
    <3>1. task[t] \in Task
      BY DEF ColumnTypes
    <3>2. [task[t] EXCEPT !.row = "timeout"].pc = task[t].pc
      BY <3>1 DEF Task
    <3> QED BY <1>4, <3>2 DEF SweepStuck
  <2> QED BY <1>0, <1>1, <1>4, <2>1 DEF SweepStuck
<1>5. ASSUME NEW j \in Jobs, RecoverJob(j) PROVE PermitInv'
  <2>1. snap[j].kind \in Kinds
    BY <1>5, HandledTypes DEF RecoverJob
  <2> QED BY <1>0, <1>2, <1>5, <2>1, SpawnTakesPermit DEF RecoverJob
<1>6. ASSUME NEW j \in Jobs, DispatchJob(j) PROVE PermitInv'
  <2>1. snap[j].kind \in Kinds
    BY <1>6, HandledTypes DEF DispatchJob, CheckJob
  <2> QED BY <1>0, <1>6, <2>1, SpawnTakesPermit DEF DispatchJob
<1>7. CASE Exit
  <2>1. ASSUME NEW t \in Tasks PROVE task'[t].pc = "idle"
    BY <1>7 DEF Exit, IdleTask
  <2>2. Live' = {}
    BY <2>1 DEF Live
  <2>3. Cardinality(Live') = 0
    BY <2>2, FS_EmptySet
  <2>4. permits' = MaxPermits
    BY <1>7 DEF Exit
  <2> QED BY <1>0, <2>3, <2>4, ConstantsOK DEF ConstantsOK, PermitsConserved
<1>8. ASSUME NEW t \in Tasks, RunStep(t) PROVE PermitInv'
  <2>1. CASE RecordRun(t) \/ EndExecution(t) \/ UpdateCounters(t)
    <3>1. task[t].pc # "idle" /\ task'[t].pc # "idle"
      BY <2>1 DEF ColumnTypes, Task, RecordRun, EndExecution, UpdateCounters
    <3>2. \A u \in Tasks \ {t} : task'[u] = task[u]
      BY <2>1 DEF ColumnTypes, RecordRun, EndExecution, UpdateCounters
    <3>3. UNCHANGED permits
      BY <2>1 DEF RecordRun, EndExecution, UpdateCounters
    <3> QED BY <1>0, <1>1, <3>1, <3>2, <3>3
  <2>2. CASE PlanNext(t)
    <3>1. task[t].pc # "idle" /\ task'[t].pc = "idle" /\ permits' = permits + 1
      BY <2>2 DEF ColumnTypes, PlanNext, DropRuns, IdleTask
    <3>2. \A u \in Tasks \ {t} : (task'[u].pc = "idle") <=> (task[u].pc = "idle")
      BY <2>2, RowsOnly DEF ColumnTypes, PlanNext, DropRuns
    <3>3. Cardinality(Live') = Cardinality(Live) - 1
      BY <3>1, <3>2, OneLessRun
    <3> QED BY <1>0, <3>1, <3>3, LiveFinite, ConstantsOK
              DEF ConstantsOK, PermitsConserved
  <2> QED BY <1>8, <2>1, <2>2 DEF RunStep
<1>9. ASSUME NEW j \in Jobs, DeleteJob(j) PROVE PermitInv'
  BY <1>0, <1>1, <1>9, RowsOnly DEF DeleteJob, ClientStep
<1>10. ASSUME NEW j \in Jobs, ClientOp(j), ~DeleteJob(j) PROVE PermitInv'
  BY <1>0, <1>2, <1>10
     DEF ClientOp, AddJob, SetEnabled, TriggerJob, ToolTrigger, WebhookPost, WebhookInsert,
         WebhookUpdate, BeginEdit, CommitEdit, ClientStep
<1>11. ASSUME NEW j \in Jobs, Elapse(j) \/ Arrive(j) \/ Cool(j) PROVE PermitInv'
  BY <1>0, <1>2, <1>11 DEF Elapse, Arrive, Cool
<1>12. CASE ScanMissed \/ EnterSleep \/ ScanDue \/ Start \/ ShutDown
  BY <1>0, <1>2, <1>12 DEF ScanMissed, EnterSleep, ScanDue, Start, ShutDown
<1>13. ASSUME NEW j \in Jobs, RejectJob(j) \/ AutoDisable(j) \/ PollUnchanged(j)
       PROVE  PermitInv'
  BY <1>0, <1>2, <1>13 DEF RejectJob, AutoDisable, PollUnchanged
<1>14. ASSUME NEW t \in Tasks, Panic(t) PROVE PermitInv'
  <2>1. /\ task[t].pc # "idle" /\ task'[t].pc = "idle" /\ permits' = permits + 1
        /\ \A u \in Tasks \ {t} : task'[u] = task[u]
    BY <1>14 DEF ColumnTypes, Panic, IdleTask
  <2>2. Cardinality(Live') = Cardinality(Live) - 1
    BY <2>1, OneLessRun
  <2> QED BY <1>0, <2>1, <2>2, LiveFinite, ConstantsOK DEF ConstantsOK, PermitsConserved
<1>15. CASE UNCHANGED vars
  BY <1>0, <1>2, <1>15 DEF vars
<1> QED
  BY <1>3, <1>4, <1>5, <1>6, <1>7, <1>8, <1>9, <1>10, <1>11, <1>12, <1>13, <1>14, <1>15
  DEF Next, EngineStep

\* Initially nothing runs and every permit is available.
LEMMA PermitInit == Init => PermitInv
<1> SUFFICES ASSUME Init PROVE PermitInv
  OBVIOUS
<1>1. ColumnTypes
  BY BlankTypes, ConstantsOK DEF ConstantsOK, Init, ColumnTypes
<1>2. Live = {}
  BY DEF Init, Live, IdleTask
<1> QED BY <1>1, <1>2, FS_EmptySet, ConstantsOK
          DEF ConstantsOK, Init, PermitInv, PermitsConserved

\* The types of the columns and fields, and no more permits than there are:
\* the states the other theorems speak about.
THEOREM TypeCorrect == Spec => []TypeOK
<1>1. PermitInv => TypeOK
  BY LiveFinite, ConstantsOK
     DEF ConstantsOK, PermitInv, PermitsConserved, ColumnTypes, TypeOK
<1> QED BY <1>1, PermitInit, PermitStep, PTL DEF Spec

\* spawn_job never loses a permit and never runs more than MaxPermits jobs at
\* once, for any number of jobs, crashes and restarts.
THEOREM PermitsAreConserved == Spec => []PermitsConserved
<1>1. PermitInv => PermitsConserved
  BY DEF PermitInv
<1> QED BY <1>1, PermitInit, PermitStep, PTL DEF Spec

-----------------------------------------------------------------------------
(* Runs and their rows of cron_runs                                        *)

\* NoOrphanRunning is not inductive: it needs to know that nothing is running
\* until the engine has booted.
NothingBeforeBoot == ~Up => Live = {}

OrphanInv == NothingBeforeBoot /\ NoOrphanRunning

\* No more rows are left behind than before, unless by a panic.
OrphansFollow == \A j \in Jobs : orphans[j] <= panics[j] => orphans'[j] <= panics'[j]

\* The runs that are left as recorded, or that lose their row, do no harm.
LEMMA OrphanQuiet ==
  ASSUME OrphanInv, Up' <=> Up, OrphansFollow,
         \A t \in Tasks : /\ task'[t].pc = task[t].pc
                          /\ task'[t].row = "running" => task[t].row = "running"
  PROVE  OrphanInv'
<1>1. Live' = Live
  BY DEF Live
<1>2. NothingBeforeBoot'
  BY <1>1 DEF OrphanInv, NothingBeforeBoot
<1>3. ASSUME Up', NEW t \in Tasks, task'[t].row = "running"
      PROVE  task'[t].pc = "executing"
  BY <1>3 DEF OrphanInv, NoOrphanRunning
<1> QED BY <1>2, <1>3 DEF OrphanInv, NoOrphanRunning, OrphansFollow

\* A step of one run that does not leave it recorded as running unless it is.
LEMMA OrphanOne ==
  ASSUME OrphanInv, UNCHANGED engine, OrphansFollow,
         NEW t \in Tasks, task[t].pc # "idle",
         task'[t].row = "running" => task'[t].pc = "executing",
         \A u \in Tasks \ {t} : /\ task'[u].pc = task[u].pc
                                /\ task'[u].row = "running" => task[u].row = "running"
  PROVE  OrphanInv'
<1>1. Up /\ Up'
  BY DEF OrphanInv, NothingBeforeBoot, Up, Live
<1>2. ASSUME NEW u \in Tasks, task'[u].row = "running"
      PROVE  task'[u].pc = "executing"
  BY <1>1, <1>2 DEF OrphanInv, NoOrphanRunning
<1> QED BY <1>1, <1>2 DEF OrphanInv, NothingBeforeBoot, NoOrphanRunning, OrphansFollow

\* Most steps leave no row behind.
LEMMA SameOrphans ==
  ASSUME UNCHANGED leftVars
  PROVE  OrphansFollow
BY DEF leftVars, OrphansFollow

\* What the runs look like after a deletion and after cancel_running_runs.
LEMMA RowsAfter ==
  ASSUME ColumnTypes, NEW t \in Tasks
  PROVE  /\ CancelRuns => task'[t].row # "running"
         /\ \A j : /\ DropRuns(j)[t].pc = task[t].pc
                   /\ task[t].job = j => DropRuns(j)[t].row = "none"
                   /\ task[t].job # j => DropRuns(j)[t] = task[t]
<1> task[t] \in Task
  BY DEF ColumnTypes
<1>1. /\ [task[t] EXCEPT !.row = "cancelled"].row = "cancelled"
      /\ [task[t] EXCEPT !.row = "none"].row = "none"
      /\ [task[t] EXCEPT !.row = "none"].pc = task[t].pc
  BY DEF Task
<1> QED BY <1>1 DEF CancelRuns, DropRuns

\* Every step keeps NoOrphanRunning and what it rests on.
LEMMA OrphanStep ==
  ASSUME ColumnTypes, OrphanInv, [Next]_vars
  PROVE  OrphanInv'
<1>1. ASSUME UNCHANGED <<task, leftVars>>, Up' <=> Up PROVE OrphanInv'
  BY <1>1, OrphanQuiet, SameOrphans
<1>2. CASE Boot
  <2>1. ASSUME NEW t \in Tasks PROVE task'[t].row # "running"
    BY <1>2, RowsAfter DEF Boot
  <2>2. \A j \in Jobs : orphans'[j] <= panics'[j]
    BY <1>2 DEF Boot, CancelRuns, ColumnTypes
  <2> QED BY <1>2, <2>1, <2>2 DEF Boot, OrphanInv, NothingBeforeBoot, NoOrphanRunning, Up
<1>3. CASE Stop
  <2>1. ASSUME NEW t \in Tasks PROVE task'[t].row # "running"
    BY <1>3, RowsAfter DEF Stop
  <2>2. \A j \in Jobs : orphans'[j] <= panics'[j]
    BY <1>3 DEF Stop, CancelRuns, ColumnTypes
  <2> QED BY <1>3, <2>1, <2>2 DEF Stop, OrphanInv, NothingBeforeBoot, NoOrphanRunning, Up
<1>4. CASE Exit
  <2>1. ASSUME NEW t \in Tasks PROVE task'[t].pc = "idle"
    BY <1>4 DEF Exit, IdleTask
  <2> QED BY <1>4, <2>1
            DEF Exit, OrphanInv, NothingBeforeBoot, NoOrphanRunning, Up, Live
<1>5. CASE SweepStuck
  <2>1. ASSUME NEW t \in Tasks
        PROVE  /\ task'[t].pc = task[t].pc
               /\ task'[t].row = "running" => task[t].row = "running"
    <3>1. task[t] \in Task
      BY DEF ColumnTypes
    <3>2. /\ [task[t] EXCEPT !.row = "timeout"].pc = task[t].pc
          /\ [task[t] EXCEPT !.row = "timeout"].row = "timeout"
      BY <3>1 DEF Task
    <3> QED BY <1>5, <3>2 DEF SweepStuck
  <2>2. Up' <=> Up
    BY <1>5 DEF SweepStuck, Up
  <2>3. OrphansFollow
    <3>1. PICK left \in [Jobs -> 0 .. MaxPermits + MaxDisturbances] :
            (\A j \in Jobs : left[j] <= orphans[j]) /\ orphans' = left
      BY <1>5 DEF SweepStuck
    <3>2. \A j \in Jobs : orphans'[j] \in Nat /\ orphans[j] \in Nat /\ panics[j] \in Nat
      BY <3>1, ConstantsOK DEF ConstantsOK, ColumnTypes
    <3>3. UNCHANGED panics
      BY <1>5 DEF SweepStuck
    <3> QED BY <3>1, <3>2, <3>3 DEF OrphansFollow
  <2> QED BY <2>1, <2>2, <2>3, OrphanQuiet
<1>6. ASSUME NEW j \in Jobs, NEW kind \in Kinds, Spawn(j, kind), engine \in {"recover", "scan"},
             UNCHANGED <<engine, leftVars>>
      PROVE  OrphanInv'
  <2>1. CASE UNCHANGED task
    BY <1>1, <1>6, <2>1 DEF Up
  <2>2. CASE \E t \in Tasks : task' = [task EXCEPT ![t] =
          [pc |-> "spawned", job |-> j, kind |-> kind, row |-> "none"]]
    BY <1>6, <2>2 DEF ColumnTypes, OrphanInv, NothingBeforeBoot, NoOrphanRunning, Up, leftVars
  <2> QED BY <1>6, <2>1, <2>2 DEF Spawn
<1>7. ASSUME NEW j \in Jobs, RecoverJob(j) PROVE OrphanInv'
  <2>1. snap[j].kind \in Kinds /\ engine = "recover" /\ UNCHANGED engine
    BY <1>7, HandledTypes DEF RecoverJob, Handled
  <2> QED BY <1>1, <1>6, <1>7, <2>1 DEF RecoverJob, Up
<1>8. ASSUME NEW j \in Jobs, DispatchJob(j) PROVE OrphanInv'
  <2>1. snap[j].kind \in Kinds /\ engine = "scan" /\ UNCHANGED engine
    BY <1>8, HandledTypes DEF DispatchJob, CheckJob, Handled
  <2> QED BY <1>6, <1>8, <2>1 DEF DispatchJob
<1>9. ASSUME NEW t \in Tasks, RecordRun(t) PROVE OrphanInv'
  <2>1. task'[t].pc = "executing" /\ \A u \in Tasks \ {t} : task'[u] = task[u]
    BY <1>9 DEF ColumnTypes, Task, RecordRun
  <2> QED BY <1>9, <2>1, OrphanOne, SameOrphans DEF RecordRun, engineVars
<1>10. ASSUME NEW t \in Tasks, EndExecution(t) PROVE OrphanInv'
  <2>1. task'[t].row # "running" /\ \A u \in Tasks \ {t} : task'[u] = task[u]
    BY <1>10 DEF ColumnTypes, Task, EndExecution
  <2> QED BY <1>10, <2>1, OrphanOne, SameOrphans DEF EndExecution, engineVars
<1>11. ASSUME NEW t \in Tasks, UpdateCounters(t) PROVE OrphanInv'
  <2>1. Up
    BY <1>11 DEF UpdateCounters, OrphanInv, NothingBeforeBoot, Live
  <2>2. task'[t].row # "running" /\ \A u \in Tasks \ {t} : task'[u] = task[u]
    BY <1>11, <2>1
       DEF ColumnTypes, Task, UpdateCounters, OrphanInv, NoOrphanRunning
  <2> QED BY <1>11, <2>2, OrphanOne, SameOrphans DEF UpdateCounters, engineVars
<1>12. ASSUME NEW t \in Tasks, PlanNext(t) PROVE OrphanInv'
  <2>1. task'[t].row # "running"
    BY <1>12 DEF ColumnTypes, PlanNext, DropRuns, IdleTask
  <2>2. \A u \in Tasks \ {t} : /\ task'[u].pc = task[u].pc
                               /\ task'[u].row = "running" => task[u].row = "running"
    BY <1>12, RowsAfter DEF ColumnTypes, PlanNext, DropRuns
  <2>3. OrphansFollow
    BY <1>12, SameOrphans DEF ColumnTypes, PlanNext, RemoveRow, OrphansFollow
  <2> QED BY <1>12, <2>1, <2>2, <2>3, OrphanOne DEF PlanNext, engineVars
<1>13. ASSUME NEW j \in Jobs, DeleteJob(j) PROVE OrphanInv'
  <2>1. \A u \in Tasks : /\ task'[u].pc = task[u].pc
                         /\ task'[u].row = "running" => task[u].row = "running"
    BY <1>13, RowsAfter DEF DeleteJob
  <2>2. OrphansFollow
    BY <1>13 DEF ColumnTypes, DeleteJob, RemoveRow, OrphansFollow
  <2> QED BY <1>13, <2>1, <2>2, OrphanQuiet DEF DeleteJob, ClientStep, engineVars, Up
<1>14. ASSUME NEW j \in Jobs, ClientOp(j), ~DeleteJob(j) PROVE OrphanInv'
  <2>1. UNCHANGED <<orphans, panics, task>> /\ (Up' <=> Up)
    BY <1>14
       DEF ClientOp, AddJob, SetEnabled, TriggerJob, ToolTrigger, WebhookPost, WebhookInsert,
           WebhookUpdate, BeginEdit, CommitEdit, ClientStep, engineVars, leftVars, Up
  <2> QED BY <2>1, OrphanQuiet DEF OrphansFollow
<1>15. ASSUME NEW j \in Jobs, Elapse(j) \/ Arrive(j) \/ Cool(j) PROVE OrphanInv'
  BY <1>1, <1>15 DEF Elapse, Arrive, Cool, engineVars, Up
<1>16. CASE ScanMissed \/ EnterSleep \/ ScanDue \/ Start \/ ShutDown
  BY <1>1, <1>16 DEF ScanMissed, EnterSleep, ScanDue, Start, ShutDown, Up
<1>17. ASSUME NEW j \in Jobs, RejectJob(j) \/ AutoDisable(j) \/ PollUnchanged(j)
       PROVE  OrphanInv'
  BY <1>1, <1>17 DEF RejectJob, AutoDisable, PollUnchanged, CheckJob, Handled, Up
<1>18. CASE UNCHANGED vars
  BY <1>1, <1>18 DEF vars, engineVars, Up
<1>19. ASSUME NEW t \in Tasks, Panic(t) PROVE OrphanInv'
  <2>1. /\ task'[t].row # "running" /\ \A u \in Tasks \ {t} : task'[u] = task[u]
    BY <1>19 DEF ColumnTypes, Panic, IdleTask
  <2>2. OrphansFollow
    BY <1>19 DEF ColumnTypes, Panic, OrphansFollow
  <2> QED BY <1>19, <2>1, <2>2, OrphanOne DEF Panic, engineVars
<1> QED
  BY <1>2, <1>3, <1>4, <1>5, <1>7, <1>8, <1>9, <1>10, <1>11, <1>12, <1>13, <1>14,
     <1>15, <1>16, <1>17, <1>18, <1>19
  DEF Next, EngineStep, RunStep

\* After any crash, exit or restart, a run that is recorded as running is being
\* executed, and a job has at most as many such rows without a run as runs of it
\* have panicked since: only a panic leaves a row that counts against its job's
\* max_concurrent.
THEOREM NoOrphans == Spec => []NoOrphanRunning
<1>1. Init => OrphanInv
  BY DEF Init, OrphanInv, NothingBeforeBoot, NoOrphanRunning, Live, IdleTask, Up
<1>2. OrphanInv => NoOrphanRunning
  BY DEF OrphanInv
<1>3. PermitInv => ColumnTypes
  BY DEF PermitInv
<1> QED BY <1>1, <1>2, <1>3, PermitInit, PermitStep, OrphanStep, PTL DEF Spec

\* Where no job is deleted and no run gains a row, every row keeps its job.
LEMMA RowsKept ==
  ASSUME RunsHaveJobs, stored \subseteq stored',
         \A j \in Jobs : orphans'[j] # 0 => orphans[j] # 0,
         queued' \subseteq queued \cup stored,
         \A t \in Tasks : task'[t].row # "none" =>
           task[t].row # "none" /\ task'[t].job = task[t].job
  PROVE  RunsHaveJobs'
BY DEF RunsHaveJobs

\* update_next_run deletes nothing.
LEMMA ReplanKeeps ==
  ASSUME NEW j, NEW kind, Replan(j, kind)
  PROVE  stored' = stored
BY DEF Replan, UpdateRow

\* A deletion takes the rows of the deleted job along.
LEMMA Cascade ==
  ASSUME ColumnTypes, RunsHaveJobs, NEW j, RemoveRow(j),
         \A t \in Tasks : task'[t] = DropRuns(j)[t] \/ task'[t] = IdleTask
  PROVE  RunsHaveJobs'
<1>1. ASSUME NEW t \in Tasks, task'[t].row # "none"
      PROVE  task'[t].job \in stored'
  <2>1. task'[t] = DropRuns(j)[t]
    BY <1>1 DEF IdleTask
  <2>2. task[t].job # j /\ task'[t] = task[t]
    BY <1>1, <2>1, RowsAfter
  <2> QED BY <1>1, <2>2 DEF RunsHaveJobs, RemoveRow
<1>2. ASSUME NEW i \in Jobs, orphans'[i] # 0
      PROVE  i \in stored'
  BY <1>2 DEF ColumnTypes, RunsHaveJobs, RemoveRow
<1>3. queued' \subseteq stored'
  BY DEF RunsHaveJobs, RemoveRow
<1> QED BY <1>1, <1>2, <1>3 DEF RunsHaveJobs

\* Every step keeps the rows of cron_runs referring to rows of cron_jobs.
LEMMA RowsStep ==
  ASSUME ColumnTypes, RunsHaveJobs, [Next]_vars
  PROVE  RunsHaveJobs'
<1>1. ASSUME UNCHANGED <<task, leftVars>>, stored \subseteq stored' PROVE RunsHaveJobs'
  BY <1>1, RowsKept DEF leftVars
<1>2. CASE Boot \/ Stop
  <2>1. ASSUME NEW t \in Tasks, task'[t].row # "none"
        PROVE  task[t].row # "none" /\ task'[t].job = task[t].job
    <3>1. task[t] \in Task /\ CancelRuns
      BY <1>2 DEF Boot, Stop, ColumnTypes
    <3>2. [task[t] EXCEPT !.row = "cancelled"].job = task[t].job
      BY <3>1 DEF Task
    <3> QED BY <2>1, <3>1, <3>2 DEF CancelRuns
  <2> QED BY <1>2, <2>1, RowsKept DEF Boot, Stop, CancelRuns, jobVars
<1>3. CASE SweepStuck
  <2>1. ASSUME NEW t \in Tasks
        PROVE  task'[t].row # "none" => task[t].row # "none" /\ task'[t].job = task[t].job
    <3>1. task[t] \in Task
      BY DEF ColumnTypes
    <3>2. [task[t] EXCEPT !.row = "timeout"].job = task[t].job
      BY <3>1 DEF Task
    <3> QED BY <1>3, <3>2 DEF SweepStuck
  <2>2. \A j \in Jobs : orphans'[j] # 0 => orphans[j] # 0
    <3>1. PICK left \in [Jobs -> 0 .. MaxPermits + MaxDisturbances] :
            (\A j \in Jobs : left[j] <= orphans[j]) /\ orphans' = left
      BY <1>3 DEF SweepStuck
    <3>2. \A j \in Jobs : orphans'[j] \in Nat
      BY <3>1, ConstantsOK DEF ConstantsOK
    <3> QED BY <3>1, <3>2 DEF ColumnTypes
  <2> QED BY <1>3, <2>1, <2>2, RowsKept DEF SweepStuck, jobVars
<1>4. CASE Exit
  <2>1. \A t \in Tasks : task'[t].row = "none"
    BY <1>4 DEF Exit, IdleTask
  <2>2. ASSUME NEW j \in Jobs, orphans'[j] # 0 PROVE j \in stored
    <3>1. orphans[j] # 0 \/ RunningOf(j) # {}
      BY <1>4, <2>2, RunningCount DEF Exit
    <3> QED BY <3>1 DEF RunsHaveJobs, RunningOf
  <2> QED BY <1>4, <2>1, <2>2 DEF RunsHaveJobs, Exit, jobVars
<1>5. ASSUME NEW j \in Jobs, NEW kind \in Kinds, Spawn(j, kind), UNCHANGED <<stored, leftVars>>
      PROVE  RunsHaveJobs'
  <2>1. CASE UNCHANGED task
    BY <1>1, <1>5, <2>1
  <2>2. CASE \E t \in Tasks : task' = [task EXCEPT ![t] =
          [pc |-> "spawned", job |-> j, kind |-> kind, row |-> "none"]]
    BY <1>5, <2>2 DEF ColumnTypes, RunsHaveJobs, leftVars
  <2> QED BY <1>5, <2>1, <2>2 DEF Spawn
<1>6. ASSUME NEW j \in Jobs, RecoverJob(j) \/ DispatchJob(j) PROVE RunsHaveJobs'
  <2>1. snap[j].kind \in Kinds
    BY <1>6, HandledTypes DEF RecoverJob, DispatchJob, CheckJob
  <2> QED BY <1>1, <1>5, <1>6, <2>1, ReplanKeeps DEF RecoverJob, DispatchJob, jobVars
<1>7. ASSUME NEW j \in Jobs, RejectJob(j) \/ AutoDisable(j) \/ PollUnchanged(j)
      PROVE  RunsHaveJobs'
  BY <1>1, <1>7, ReplanKeeps DEF RejectJob, AutoDisable, PollUnchanged, UpdateRow
<1>8. ASSUME NEW t \in Tasks, RecordRun(t) PROVE RunsHaveJobs'
  <2>1. /\ task'[t].job = task[t].job
        /\ task'[t].row # "none" => task[t].job \in stored
        /\ \A u \in Tasks \ {t} : task'[u] = task[u]
    BY <1>8 DEF ColumnTypes, Task, RecordRun
  <2>2. UNCHANGED <<stored, orphans, queued>>
    BY <1>8 DEF RecordRun, jobVars, leftVars
  <2>3. ASSUME NEW u \in Tasks, task'[u].row # "none" PROVE task'[u].job \in stored'
    BY <2>1, <2>2, <2>3 DEF RunsHaveJobs
  <2> QED BY <2>2, <2>3 DEF RunsHaveJobs
<1>9. ASSUME NEW t \in Tasks, EndExecution(t) \/ UpdateCounters(t) PROVE RunsHaveJobs'
  <2>1. /\ task'[t].job = task[t].job
        /\ task'[t].row # "none" => task[t].row # "none"
        /\ \A u \in Tasks \ {t} : task'[u] = task[u]
    BY <1>9 DEF ColumnTypes, Task, EndExecution, UpdateCounters
  <2> QED BY <1>9, <2>1, RowsKept
            DEF EndExecution, UpdateCounters, UpdateRow, jobVars, leftVars
<1>10. ASSUME NEW t \in Tasks, PlanNext(t) PROVE RunsHaveJobs'
  <2>1. CASE /\ stored' = stored /\ task' = [task EXCEPT ![t] = IdleTask]
             /\ UNCHANGED leftVars
    BY <2>1 DEF ColumnTypes, RunsHaveJobs, IdleTask, leftVars
  <2>2. CASE /\ RemoveRow(task[t].job)
             /\ task' = [DropRuns(task[t].job) EXCEPT ![t] = IdleTask]
    <3>1. \A u \in Tasks : task'[u] = DropRuns(task[t].job)[u] \/ task'[u] = IdleTask
      BY <2>2 DEF DropRuns
    <3> QED BY <2>2, <3>1, Cascade DEF RemoveRow
  <2> QED BY <1>10, <2>1, <2>2, ReplanKeeps DEF PlanNext
<1>16. ASSUME NEW t \in Tasks, Panic(t) PROVE RunsHaveJobs'
  <2>1. /\ task'[t].row = "none"
        /\ \A u \in Tasks \ {t} : task'[u] = task[u]
        /\ UNCHANGED <<stored, queued>>
    BY <1>16 DEF ColumnTypes, Panic, IdleTask, jobVars
  <2>2. ASSUME NEW j \in Jobs, orphans'[j] # 0 PROVE j \in stored
    BY <1>16, <2>2 DEF ColumnTypes, Panic, RunsHaveJobs
  <2> QED BY <2>1, <2>2 DEF RunsHaveJobs
<1>11. ASSUME NEW j \in Jobs, DeleteJob(j) PROVE RunsHaveJobs'
  BY <1>11, Cascade DEF DeleteJob
<1>12. ASSUME NEW j \in Jobs, ClientOp(j), ~DeleteJob(j) PROVE RunsHaveJobs'
  <2>1. /\ UNCHANGED <<task, orphans>> /\ stored \subseteq stored'
        /\ queued' \subseteq queued \cup stored
    BY <1>12
       DEF ClientOp, AddJob, SetEnabled, TriggerJob, ToolTrigger, WebhookPost, WebhookInsert,
           WebhookUpdate, BeginEdit, CommitEdit, UpdateRow, leftVars
  <2> QED BY <2>1, RowsKept
<1>13. ASSUME NEW j \in Jobs, Elapse(j) \/ Arrive(j) \/ Cool(j) PROVE RunsHaveJobs'
  BY <1>1, <1>13 DEF Elapse, Arrive, Cool
<1>14. CASE ScanMissed \/ EnterSleep \/ ScanDue \/ Start \/ ShutDown
  BY <1>1, <1>14 DEF ScanMissed, EnterSleep, ScanDue, Start, ShutDown, jobVars
<1>15. CASE UNCHANGED vars
  BY <1>1, <1>15 DEF vars, jobVars
<1> QED
  BY <1>2, <1>3, <1>4, <1>6, <1>7, <1>8, <1>9, <1>10, <1>11, <1>12, <1>13, <1>14, <1>15,
     <1>16
  DEF Next, EngineStep, RunStep

\* The rows of cron_runs always refer to a job that exists, be they of runs, left
\* behind or queued, although runs and webhooks go on writing after their job has
\* been deleted, by a client or by a run of its own.
THEOREM RunsAlwaysHaveJobs == Spec => []RunsHaveJobs
<1>1. Init => RunsHaveJobs
  BY DEF Init, RunsHaveJobs, IdleTask
<1>2. PermitInv => ColumnTypes
  BY DEF PermitInv
<1> QED BY <1>1, <1>2, PermitInit, PermitStep, RowsStep, PTL DEF Spec

-----------------------------------------------------------------------------
(* What a step may never do                                                *)

\* Of all the writes to cron_jobs, by the engine from an old copy, by runs of a
\* deleted job and by update_job, only add_job makes a row exist.
THEOREM DeletionIsFinal == Spec => DeletedStaysDeleted
<1>1. ASSUME Next, NEW j \in Jobs, j \in stored' \ stored PROVE AddJob(j)
  <2>1. CASE UNCHANGED stored
    BY <1>1, <2>1
  <2>2. ASSUME NEW i \in Jobs, ClientOp(i) PROVE AddJob(j)
    BY <1>1, <2>2
       DEF ClientOp, AddJob, DeleteJob, SetEnabled, TriggerJob, ToolTrigger, WebhookPost,
           WebhookInsert, WebhookUpdate, BeginEdit, CommitEdit, UpdateRow, RemoveRow
  <2>3. ASSUME NEW t \in Tasks, RunStep(t) PROVE AddJob(j)
    BY <1>1, <2>3, ReplanKeeps
       DEF RunStep, RecordRun, EndExecution, UpdateCounters, PlanNext, UpdateRow, RemoveRow,
           jobVars
  <2>4. CASE EngineStep
    BY <1>1, <2>4, ReplanKeeps
       DEF EngineStep, Boot, ScanMissed, EnterSleep, ScanDue, SweepStuck, RecoverJob,
           RejectJob, AutoDisable, PollUnchanged, DispatchJob, UpdateRow, jobVars
  <2>5. CASE Start \/ ShutDown \/ Stop \/ Exit
    BY <2>1, <2>5 DEF Start, ShutDown, Stop, Exit, jobVars
  <2>6. ASSUME NEW i \in Jobs, Elapse(i) \/ Arrive(i) \/ Cool(i) PROVE AddJob(j)
    BY <2>1, <2>6 DEF Elapse, Arrive, Cool
  <2>7. ASSUME NEW t \in Tasks, Panic(t) PROVE AddJob(j)
    BY <2>1, <2>7 DEF Panic, jobVars
  <2> QED BY <1>1, <2>1, <2>2, <2>3, <2>4, <2>5, <2>6, <2>7 DEF Next
<1>2. [Next]_vars => [\A j \in Jobs : j \in stored' \ stored => AddJob(j)]_vars
  BY <1>1
<1> QED BY <1>2, PTL DEF Spec, DeletedStaysDeleted

\* A row that keeps its counters, before and after.
SameCounters(j) == job'[j].fail = job[j].fail /\ job'[j].daily = job[j].daily

\* update_next_run, disable_job and update_job leave the counters alone.
LEMMA UpdateKeepsCounters ==
  ASSUME ColumnTypes, NEW j, NEW row, UpdateRow(j, row),
         j \in Jobs => row.fail = job[j].fail /\ row.daily = job[j].daily,
         NEW i \in Jobs
  PROVE  SameCounters(i)
BY DEF ColumnTypes, UpdateRow, SameCounters

\* Nor does update_next_run touch them.
LEMMA ReplanKeepsCounters ==
  ASSUME ColumnTypes, NEW j, NEW kind, Replan(j, kind), NEW i \in Jobs
  PROVE  SameCounters(i)
<1>1. CASE UNCHANGED job
  BY <1>1 DEF SameCounters
<1>2. CASE UpdateRow(j, [job[j] EXCEPT !.next = "future", !.last = "recent"])
  <2>1. ASSUME j \in Jobs PROVE job[j] \in JobRow
    BY <2>1 DEF ColumnTypes
  <2>2. j \in Jobs => LET r == [job[j] EXCEPT !.next = "future", !.last = "recent"]
                     IN  r.fail = job[j].fail /\ r.daily = job[j].daily
    BY <2>1 DEF JobRow
  <2> QED BY <1>2, <2>2, UpdateKeepsCounters
<1> QED BY <1>1, <1>2 DEF Replan

\* update_job, disable_job and the clocks of the engine write rows they read
\* earlier, and yet only a run's end and cron_manage's trigger move a counter.
THEOREM CountersOnlyFollowRuns == Spec => CountersFollowRuns
<1>1. ASSUME ColumnTypes, Next, NEW j \in stored \cap stored'
      PROVE  \/ SameCounters(j)
             \/ ToolTrigger(j)
             \/ \E t \in Tasks : task[t].job = j /\ UpdateCounters(t)
  <2> j \in Jobs /\ \A i \in Jobs : job[i] \in JobRow
    BY <1>1 DEF ColumnTypes
  <2>1. CASE UNCHANGED job
    BY <2>1 DEF SameCounters
  <2>2. ASSUME NEW i \in Jobs, ClientOp(i) PROVE SameCounters(j) \/ ToolTrigger(j)
    <3>1. CASE AddJob(i) \/ DeleteJob(i)
      <4>1. i # j
        BY <1>1, <3>1 DEF AddJob, DeleteJob, RemoveRow
      <4> QED BY <1>1, <3>1, <4>1 DEF ColumnTypes, AddJob, DeleteJob, RemoveRow, SameCounters
    <3>2. CASE SetEnabled(i) \/ TriggerJob(i) \/ WebhookUpdate(i) \/ CommitEdit(i)
      <4>1. \E row : /\ UpdateRow(i, row)
                     /\ row.fail = job[i].fail /\ row.daily = job[i].daily
        <5> DEFINE due  == [job[i] EXCEPT !.next = "due",
                                          !.last = IF @ = "null" THEN "old" ELSE @]
                   post == [job[i] EXCEPT !.next = "due", !.last = "recent"]
                   edit == [job[i] EXCEPT !.kind = draft[i].kind, !.next = draft[i].next,
                                          !.enabled = draft[i].enabled]
        <5>1. /\ \A row \in {due, post, edit} :
                   row.fail = job[i].fail /\ row.daily = job[i].daily
              /\ \A on : LET row == [job[i] EXCEPT !.enabled = on]
                        IN  row.fail = job[i].fail /\ row.daily = job[i].daily
          BY DEF JobRow
        <5>2. CASE SetEnabled(i)
          BY <5>1, <5>2 DEF SetEnabled
        <5>3. CASE TriggerJob(i)
          <6>1. UpdateRow(i, due)
            BY <5>3 DEF TriggerJob
          <6> QED BY <5>1, <6>1
        <5>4. CASE WebhookUpdate(i)
          <6>1. UpdateRow(i, post)
            BY <5>4 DEF WebhookUpdate
          <6> QED BY <5>1, <6>1
        <5>5. CASE CommitEdit(i)
          <6>1. UpdateRow(i, edit)
            BY <5>5 DEF CommitEdit
          <6> QED BY <5>1, <6>1
        <5> QED BY <3>2, <5>2, <5>3, <5>4, <5>5
      <4> QED BY <1>1, <4>1, UpdateKeepsCounters
    <3>3. CASE ToolTrigger(i)
      <4>1. CASE i = j
        BY <3>3, <4>1
      <4>2. CASE i # j
        BY <1>1, <3>3, <4>2 DEF ColumnTypes, ToolTrigger, UpdateRow, SameCounters
      <4> QED BY <4>1, <4>2
    <3>4. CASE BeginEdit(i) \/ WebhookPost(i) \/ WebhookInsert(i)
      BY <3>4 DEF BeginEdit, WebhookPost, WebhookInsert, SameCounters
    <3> QED BY <2>2, <3>1, <3>2, <3>3, <3>4 DEF ClientOp
  <2>3. ASSUME NEW t \in Tasks, RunStep(t)
        PROVE  SameCounters(j) \/ (task[t].job = j /\ UpdateCounters(t))
    <3>1. CASE RecordRun(t) \/ EndExecution(t)
      BY <3>1 DEF RecordRun, EndExecution, SameCounters, jobVars
    <3>2. CASE UpdateCounters(t) /\ task[t].job # j
      BY <1>1, <3>2 DEF ColumnTypes, UpdateCounters, UpdateRow, SameCounters
    <3>3. CASE PlanNext(t)
      <4>1. CASE RemoveRow(task[t].job)
        BY <1>1, <4>1 DEF ColumnTypes, RemoveRow, SameCounters
      <4>2. CASE Replan(task[t].job, task[t].kind)
        BY <1>1, <4>2, ReplanKeepsCounters
      <4> QED BY <3>3, <4>1, <4>2 DEF PlanNext
    <3> QED BY <2>3, <3>1, <3>2, <3>3 DEF RunStep
  <2>4. ASSUME NEW i \in Jobs, AutoDisable(i) PROVE SameCounters(j)
    <3>1. \E row : UpdateRow(i, row) /\ row.fail = job[i].fail /\ row.daily = job[i].daily
      <4> DEFINE off == [job[i] EXCEPT !.enabled = FALSE]
      <4>1. \A row \in {off, [off EXCEPT !.next = "future", !.last = "recent"]} :
              row.fail = job[i].fail /\ row.daily = job[i].daily
        BY DEF JobRow
      <4> QED BY <2>4, <4>1 DEF AutoDisable
    <3> QED BY <1>1, <3>1, UpdateKeepsCounters
  <2>5. CASE EngineStep
    BY <1>1, <2>1, <2>4, <2>5, ReplanKeepsCounters
       DEF EngineStep, Boot, ScanMissed, EnterSleep, ScanDue, SweepStuck, RecoverJob,
           RejectJob, PollUnchanged, DispatchJob, jobVars
  <2>6. CASE Start \/ ShutDown \/ Stop \/ Exit
    BY <2>1, <2>6 DEF Start, ShutDown, Stop, Exit, jobVars
  <2>7. ASSUME NEW i \in Jobs, Elapse(i) \/ Arrive(i) \/ Cool(i) PROVE SameCounters(j)
    <3>1. /\ [job[i] EXCEPT !.next = "due"].fail = job[i].fail
          /\ [job[i] EXCEPT !.next = "due"].daily = job[i].daily
          /\ [job[i] EXCEPT !.last = "old"].fail = job[i].fail
          /\ [job[i] EXCEPT !.last = "old"].daily = job[i].daily
      BY DEF JobRow
    <3> QED BY <1>1, <2>7, <3>1 DEF ColumnTypes, Elapse, Arrive, Cool, SameCounters
  <2>8. ASSUME NEW t \in Tasks, Panic(t) PROVE SameCounters(j)
    BY <2>8 DEF Panic, SameCounters, jobVars
  <2> QED BY <1>1, <2>2, <2>3, <2>5, <2>6, <2>7, <2>8 DEF Next
<1>2. ColumnTypes /\ [Next]_vars =>
        [\A j \in stored \cap stored' :
           <<job'[j].fail, job'[j].daily>> # <<job[j].fail, job[j].daily>>
             => \/ ToolTrigger(j)
                \/ \E t \in Tasks : task[t].job = j /\ UpdateCounters(t)]_vars
  BY <1>1 DEF SameCounters
<1>3. PermitInv => ColumnTypes
  BY DEF PermitInv
<1> QED BY <1>2, <1>3, PermitInit, PermitStep, PTL DEF Spec, CountersFollowRuns

\* Wherever spawn_job gets a permit there is a slot for the run: the bound on
\* the slots, which only the model has, never holds a run back.
THEOREM PermitMeansSlot ==
  Spec => [](permits > 0 => \E t \in Tasks : task[t].pc = "idle")
<1>1. ASSUME PermitInv, permits > 0
      PROVE  \E t \in Tasks : task[t].pc = "idle"
  <2>1. Cardinality(Live) < Cardinality(Tasks)
    BY <1>1, LiveFinite, FS_CardinalityType, ConstantsOK
       DEF ConstantsOK, PermitInv, PermitsConserved
  <2>2. Live # Tasks
    BY <2>1, LiveFinite
  <2> QED BY <2>2 DEF Live
<1> QED BY <1>1, PermitInit, PermitStep, PTL DEF Spec
=============================================================================
