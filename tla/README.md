# A verification project for XianZhuClaw

XianZhuClaw is a desktop assistant: a Rust/Tauri application
(`src/local-app/src`) that runs LLM agents with tools, memory, subagents, chat
channels and scheduled jobs over one SQLite database, and an optional
TypeScript backend (`src/admin-backend`). This directory models the parts of
it whose correctness depends on what happens between steps: interleavings,
crashes, timeouts, retries and limits. The modules are written in TLA+, checked
on small instances by TLC, and the theorems are proved for all values of the
constants with TLAPS.

    tlc -workers 2 -config cron_one_job.cfg MCCronScheduler.tla
    tlapm AgentTurnProofs.tla

`PROJECT.json` maps every definition to its source lines and lists the runs,
the mutants, the findings, the hazards and the theorems.

## 1. The system

### 1.1 Components

| component | state | operations | what makes it correct | modules |
|---|---|---|---|---|
| **Cron scheduler** and its clients, `scheduler/`, `handlers/scheduler_cmd.rs`, webhook in `gateway/api.rs` | `cron_jobs`, `cron_runs`, a semaphore, the loop's copy of the due rows | scan, guardrails, dispatch, recovery scan, stuck sweep; a run's writes; add, update, delete, enable, trigger | no permit is lost, no orphaned or ownerless runs, enabled jobs keep running, failing ones stop | `CronScheduler` |
| **Agent loop** `agent/agent_loop.rs`, `execution_budget.rs` | the request's messages, the rows saved, the budget, the cancellation token | request, retry, nudge, tool batches, yield and wait, forced answer, repair loop | one budget for everything, cancellation winds up, results follow calls, every turn ends | `AgentTurn` |
| **Orchestrator sessions** and **conversation store** `agent/orchestrator.rs`, `handlers/sessions.rs`, `memory/conversation.rs` | a lock per session, active tokens, a cache of the history; `chat_messages`, `conversations`, `chat_sessions`, boundaries in `settings` | send, regenerate, cancel, clear, compact, outline, delete | turns of a session do not mix; a turn starts from all of the history; a cancellation reaches the turn it is meant for | `Conversation`, `SessionLog` |
| **Message pipeline** `tool_call_sanitizer.rs`, `context_guard.rs`, `llm.rs` | the history, the messages of a turn, a streamed answer | load, cut, repair, convert; parse a stream, retry it, show it | what is sent is well-formed and keeps each result with its own call; an answer is that of the last try | `MessagePipeline`, `LlmStream` |
| **Subagents** `agent/subagent.rs`, `delegate.rs` | mailboxes, waiters, `subagent_runs`, permits | send, receive with a timeout, delegate, cancel, finish | no message is given twice; rows, permits and reports agree | `Delegation`, `SubagentMailbox`, `Subagents`, `AgentMailbox` |
| **MCP servers** `mcp_manager.rs`, `mcp.rs`, `handlers/mcp.rs` | a map of connections behind one lock, pipes, rows, a cache stamp | refresh, connect, call, stop; add, toggle, delete | a caller gets its own answer, nobody blocks the others for ever, a removed server is stopped | `McpServers` |
| **Channels** `channels/*.rs` | instances and their tasks, offsets, cursors, sets of ids seen, sessions | start, stop, health check, poll, receive, deduplicate, answer | what is delivered is handled, once; a channel switched off comes to rest | `ChannelManager`, `ChannelUpdates`, `ChannelMessages` |
| **Model providers and logins** `handlers/providers.rs`, `oauth.rs` | one list in `settings`, keys and tokens | save, delete, login, refresh, import | no operation drops the key of another; stored refresh tokens work | `Providers` |
| **Tools** `tools/builtin.rs`, `file_harness.rs`, `cdp.rs` | notes of hashes, backups, snapshots of a page | read, write, edit, roll back, apply a diff; navigate, snapshot, press | contents are not lost unnoticed; diffs mean what they say; references mean what was seen | `FileTools`, `UnifiedDiff`, `Browser` |
| **Memory** `memory/*.rs`, `memory_eviction.rs`, `learner.rs` | rows, index, archive files, priorities, MEMORY.md | write, extract, recall, feed back, archive, evict, learn | nothing stored is lost | `MemoryStore` |
| **Agents and the start of the app** `agent_store.rs`, `handlers/agents.rs`, `db/schema.rs`, `seed.rs`, `misc.rs` | rows, workspaces, cache; legacy tokens, default jobs, a pending database | create, clone, import, change, delete; migrate, seed; export, import | a row has its workspace; starts repeat nothing; changes are seen | `AgentStore`, `AppStart` |
| **Skills** `agent/skills.rs`, `handlers/skills.rs` | directories, rows, the cache of scans | download, install, remove, scan | a removed skill is not seen | `Skills` |
| **Processes** `runtime/node.rs`, `python_sandbox.rs`, `backend_manager.rs` | copies of Node.js and Python, ports, a child | download, unpack, create, spawn, check, stop | what is reported as installed is whole | `Runtimes` |
| **Job execution, heartbeat, dreams** `runner.rs`, `heartbeat.rs`, `dreaming.rs` | runs under way, sessions found by title, files | attempt, retry, time out; beat; dream; clean up | sessions are reused | `JobRunner` |
| **Bridge** `bridge/client.rs` | watermark, connection, rows, forwarded messages | connect, pull, take over, forward, answer | a later pull skips nothing | `Bridge` |
| Gateway, tool policy and approval, failover, response cache, hooks, plugins, SOPs, admin backend, frontends | various | CRUD, text, network I/O | see 6 | - |

### 1.2 How they interact

The UI, a chat channel, the bridge or a scheduled job sends a message to the
orchestrator. It takes the lock of the session, registers a cancellation token,
loads the history, saves the user's message and calls the agent loop; the loop
calls the provider and the tools until there is an answer, saving rows on the
way; the orchestrator verifies the files that changed and may call the loop
once more. Tools reach back into other components: `delegate_task` starts turns
of other sessions, `sessions_yield` makes a turn wait for such a run by polling
`subagent_runs`, memories, files, the browser, skills and MCP servers are
reached through tools, and `cron_*` and `cron_manage` write the scheduler's
rows. The scheduler's engine runs jobs whose action may again be an agent turn.
The UI may cancel, edit, delete and trigger at any moment; the process may end
at any moment and the database and the files are all that survives.

### 1.3 What is hard

The hazards are in `PROJECT.json`, each at its line. The main kinds:

- **check, await, act**: guardrails counted before a spawned run inserts its
  row; a whole list read, and written back after a token server has answered; a
  mailbox looked into before the waiter is registered; a session looked for by
  title and created later; a hash compared before a file is written.
- **limits on many paths**: permits, budgets and failure streaks must be kept on
  every path, retries, panics and errors included.
- **crashes**: rows with status `running`, assistant rows whose tool results
  are not saved yet, half-unpacked programs, half-seeded jobs, rows whose
  workspace is gone.
- **positions and order**: what to save, and whether the turn yields, is found
  by scanning the message list backwards while hints and refusals are mixed in;
  hunks, references to a page and answers of a server are matched by position.
- **state in several places**: a session's rows, its boundary, its summary and
  its cache; a memory's row, its index entry and its archive; an agent's row and
  its directory; a skill's files and the scan that a turn has cached.
- **timeouts against late answers**: subagents, stuck runs, receivers,
  MCP calls, refreshes of tokens, redelivered messages.

## 2. The plan and what became of it

The order of the plan was the importance to the system. Done: 1. the scheduler,
with its proofs; 2. the agent loop, with its proofs; 3. the sessions around it
and the refinement of `SessionLog`, with its proofs; 4. mailboxes and delegation,
with the refinement of `AgentMailbox`; 5. the message pipeline and streams;
6. the parts around the agent: channels, providers, MCP servers, memories,
agents and the start, files, diffs, the browser, skills, processes, job runs and
the bridge; 7. proofs about those.

The admin backend's connection registry and sync queue were planned too and
dropped: nothing in the program starts them (see 6).

Left: see the end of 5 for what is only model-checked.

## 3. The modules and the code

### 3.1 CronScheduler

Processes: the engine loop (`SchedulerEngine::run`), spawned runs (slots of
`Tasks`), clients. Variables:

| variable | code |
|---|---|
| `stored`, `job` | the rows of `cron_jobs`: schedule kind, enabled, `next_run_at`, `last_run_at`, `fail_streak`, `runs_today` |
| `arrived` | whether an At job's timestamp has passed |
| `task` | a spawned run: where it is, its clone of the job's schedule, and its row of `cron_runs` |
| `permits` | the semaphore |
| `engine`, `pending`, `snap` | where the loop is, and its copy of the due rows still to be handled |
| `editing`, `draft` | an `update_job` between its SELECT and its UPDATE |
| `posting`, `queued` | a webhook's handler between its SELECT, its INSERT and its UPDATE; the jobs with a row that says `queued`, which nothing ever changes |
| `orphans`, `panics` | per job, the rows that say `running` with no run behind them; the runs that panicked since the app started |

Time is abstract: `next_run_at` is null, future or due and `last_run_at` null,
recent or old; `Elapse`, `Arrive` and `Cool` let it pass. Actions are named
after the code: `Start`, `Boot`, `ScanMissed`/`RecoverJob` (recovery scan),
`EnterSleep`, `ScanDue`, `RejectJob`/`AutoDisable`/`PollUnchanged`/`DispatchJob`
(one due job), `SweepStuck`, `ShutDown`/`Stop`, `Exit` (the process dies);
`RecordRun`, `EndExecution`, `UpdateCounters`, `PlanNext` (a run's writes),
`Panic` (a tool of the run panics and nothing catches it: the row goes on saying
`running`, the counters and the next time are not written, the permit is given
back); `AddJob`, `DeleteJob`, `SetEnabled`, `TriggerJob`, `ToolTrigger`,
`WebhookPost`/`WebhookInsert`/`WebhookUpdate`, `BeginEdit`, `CommitEdit`.

Grain of atomicity. Every database call is an await. Calls are merged only
where no other process can tell: a due job's check with its dispatch and
rescheduling (between them only a run's INSERT could fall, which commutes with
them except for the count, and the count is read first in the model as in the
code); a run's three counter updates. A trigger
writes back an older `last_run_at`, which equals `Cool` followed by the trigger.

Assumed: database calls succeed (their errors are ignored with `let _ =`);
cron expressions have a next time; an update never changes a job into an At
job; `cron_manage`'s create and list always fail, as they name a column that
does not exist. `MaxDisturbances` bounds exits, panics and those suspends (or slow loop
bodies, over 90 s) that trigger a recovery scan.

### 3.2 AgentTurn

One call of the orchestrator's message handler from the saved user message to
its end, with the first loop and the repair loop. Variables:

| variable | code |
|---|---|
| `pc`, `loop`, `round` | where `run_agent_loop` is, in the first call or the repair, and its `for` counter |
| `empties`, `hasText` | `empty_retries`; whether `full_content` is blank |
| `messages` | the vector the next request is made of |
| `chat` | the rows this turn has added to `chat_messages` |
| `reply`, `batch` | the calls of the reply being handled and those still to run |
| `budget` | `llm_calls`, `tool_calls` and whether the tokens are used up |
| `cancelled`, `subagent` | the token; the state of the awaited run |
| `sent`, `runs`, `late`, `asked` | counts that properties and bounds need: requests, tools run, what was started after the cancellation, calls made |

Every branch of a round is an action: `StartRound`/`StopRounds` (cancellation
and budget), `SendRequest`, `RetryCall`/`FailCall`, `ExceedTokens`, `Nudge`,
`RetryEmpty`, `FinalAnswer`, `CallTools` (with policy refusals and duplicates),
`RunParallel`, the serial path with `BeginTool`, `AbandonBatch`, `RejectTool`,
`InstallPackage`, `FinishTool`, `ExhaustTools`, then `NextRound`, `YieldEnd`,
`YieldWait` with the three ways to resume, `ForceAnswer`/`TakeForced`, `Repair`,
`EndTurn`. `Cancel` and `SubagentEnds` happen between any two of them.

A message is a record of its role, the ids it makes, the id it answers, and a
class of text: what `sessions_yield` returned, a made-up result, an `_internal`
hint, or plain. `Sanitized` is what `sanitize_messages_for_llm` does to such
messages: results are moved behind their calls, made up where they are missing,
orphans and duplicates dropped, marks stripped.

Assumed: the native (OpenAI) format, unique ids from the provider, a
conversation that fits the context window (what is cut is in `MessagePipeline`),
one awaited run. The
requests of summaries, which the budget never counts, and the client's own
retries inside a request are not modelled.

### 3.3 Conversation and SessionLog

One session. Processes: turns (`send_message_stream`), the digest each answered
turn may spawn, the outline of long sessions, the user interface with the scheduler's cleaning, and time.

| variable | code |
|---|---|
| `exists`, `rows`, `legacy` | the session in `chat_sessions`, its rows in `chat_messages`, the turns with a row in `conversations` |
| `boundary`, `summary` | `compact_boundary_<session>` in `settings`; the rows that `chat_sessions.summary` stands for |
| `cache` | the entry of `session_msg_cache` |
| `lock`, `waiting`, `token`, `cancelled` | the session's tokio mutex with its fair queue; `active_cancellations`; the cancelled tokens |
| `pc`, `context`, `from`, `added` | where each turn is, the history it works with, the boundary it has read, how many rows it has tried to add |
| `compacting`, `digest` | the rows a running compaction, or a spawned digest, has read |
| `client`, `commands` | a command that has begun and not finished; how many were given |

A turn asks for the lock (`Send`, `Acquire`), reads the boundary and loads the
rows behind it, or all of them through the cache (`ReadBoundary`, `LoadRest`,
`LoadCached`, `LoadRows`, `PutCache`), may compact (`CompactHistory`,
`CompactedHistory`, `Reload`, `LoadAgain`), records itself and its message
(`RecordTurn`, `SaveMessage`), may have to cut the history when its first
request is too long (`CutHistory`, `CutSummary`), adds rows (`AddRow`) and ends
(`Answer`, `Fail`); its caller's timeout may drop it at any await (`Abandon`).
Each action is what lies between two awaits; the reads that only feed the
prompt are left out. `Stop`, `Clear`, `CutFrom` (edit and regenerate),
`BeginDelete`/`DeleteSession`, `PopCache`, `UserCompacts`/`UserCompacted` and
`Truncate` take no lock, as in the code; nor do `ReadOutline` and
`WriteOutline`, the task that the page starts after one of its own turns
(`Paged`) to sum up the latest rows. `cleanup_system_sessions` is in `JobRunner`.

A row is its place, its turn and a number. A summary is the set of rows it was
made from; the placeholders that stand in when the provider fails, or when the
history is cut, count as standing for what they hide, which is the kinder
reading. Compaction deletes no row, whatever the comment above `compact_session`
says (orchestrator.rs:1572). That a process ends needs no action: for the
rows it is `Abandon` of every turn and `Expire` of the cache.

Assumed: database calls succeed, except that a row without its session is
refused by the foreign key; fewer turns than the window of ten that a load
keeps, fewer rows than the 200 loaded behind a boundary. Not modelled: a
session of the bridge that is created again under the id it had. `MaxCommands` and `MaxRows` bound commands and rows per turn.

`SessionLog` says what a session promises: turns open it, write to it and close
it one at a time, and whatever else happens only removes rows. `OneTurnAtATime`
is the refinement with `rows`, `lock` and the ended turns for `log`, `owner`
and `over`.

### 3.4 MessagePipeline and LlmStream

`MessagePipeline` follows calls and results from the rows of earlier turns to
the request. `History` is the window of turns that `load_history` keeps behind
the boundary; `Opened` adds the user's message; before each request the context
guard cuts (`Enforced`, `Summarised`), the sanitizer relocates, completes and
pairs (`Repaired`, `Paired`, `Deduplicated`), and `OpenAi` or `ForAnthropic`
writes the format. A message keeps its role, its calls and whose result its
text is; token counts are a free choice ("may be over the limit"). With
`FreshIds` false the ids repeat from request to request, as Gemini's
`gemini_fc_N` do, and a later call of an id goes without its result (see 4.2);
the run and the proof are for ids that do not repeat. Four kinds of models take
turns: of OpenAI's format, with and without the order of turns that
`is_strict_provider` asks for, of Anthropic's, and one that gets its results
as text.

`LlmStream` has the calls of two sessions, the page that shows one of them, and
servers that send any prefix of a script and break off; a script is in the order
of its provider's format (`Orderly`). `Receive` is the three
parsers: text, `<think>` tags in pieces, names and arguments of calls; `Forget`
and `Clear` are what happens before a retry. `EndOfStream` returns the text, with
what was held back, and the calls: merged arguments are cut where the braces are
closed (`Cuts`, `Parts`), what is no object becomes `{}` (`Parsed`), a call
without a name is told by its arguments or left out (`Told`, `Returned`), and an
apology stands for an answer of which nothing is left (`Fallback`). Of the text
of the arguments a script keeps what this depends on: where an object ends,
whether a brace in a string ends it earlier, and whether a tool is known by its
keys. The ids of calls and their order are left out.

### 3.5 Subagents

`Delegation` (delegate_task: `Delegate`, per subtask `SaveRun`, the awaited INSERT,
and `SpawnRun`, between which the call may be dropped, `Acquire`, `BeginTurn`,
`EndTurn`, `FinishRun`, `Panic`, `Collect`, `Abandon`, and the user's `Cancel`)
and `SubagentMailbox` (an action per critical section: `HandOver`, `NoWaiter`,
`Push`; `TakeFirst`, `FindEmpty`, `Register`, `Answered`, `TimeOut`,
`RemoveWaiter`) are composed by `Subagents`: subtasks that belong to another
agent send while they work, and the app may exit. `AgentMailbox` is the abstract
specification of the mailboxes: deposit once, read once, lose.

### 3.6 Channels

`ChannelManager` has the registry of instances with its callers (two commands,
the start, the health check), each action what lies between two awaits.
`ChannelUpdates` extends it with the pollers of Telegram, whose offset confirms,
and WeChat, whose cursor is saved before the messages are handed on.
`ChannelMessages` follows each message over each of the seven kinds: the
connection (with half-open ones and Discord's heartbeat task), the
acknowledgement, the set of ids seen, the lookup and creation of the session,
the turn and the answer.

### 3.7 Providers

The list, sealed and plain keys, and everybody who reads it, waits and writes it
back whole. Keys and tokens are numbers in the order of their making; the token
server's answer may be lost. `overlapped` and `excused` are history variables:
with two writers at work the code does lose entries, and the properties say
precisely what is kept when they do not overlap. As neither says anything
after an overlap, the run goes no further there.

### 3.8 McpServers

One map lock (`holder`) for all agents. A refresh is `Stamp`, `StopStale`,
`Connect`, `Offer`, `Refreshed`; a call is `Call` and `Await`; servers answer in
order, fall silent, chatter, send a request of their own (`Ask`) or exit. Whatever
line with an id comes next is taken for the answer (`Receive`): after a request
of the server's, or after a call that stopped waiting, the answers on the
connection are shifted for good (`shifted`). A server asks once per connection,
none where it is shifted already. Left out are the `status` column of
the rows, which is only shown, and the test of a connection, which writes nothing
else.

### 3.9 MemoryStore, FileTools, UnifiedDiff, Browser

`MemoryStore`: every statement (row, index, archive append, delete, index
delete) is an action of its own, for turns, hygiene, recalls and learners.
`FileTools`: what a file says is a set of marks, so that a property can speak of
what was lost; notes per spelling, backups per millisecond with trimming.
`UnifiedDiff`: the algorithm on every small change, cut into hunks in every
way, against the file the change means; what is written is the lines joined with
LF, so texts have their newlines (`TextOf`). Lines are not empty, and a file has
newlines of one kind. `Browser`: one page for all agents, references as positions
in a snapshot, labels drawn on the page as elements; `shift` says how far the view
has moved, by `Scroll`, by `Evaluate` (scripts, and drags, keys and forms that
make the page's own handlers run) or by itself, and `Press` hits what is at its
coordinates by then. The press and the release of the button are one step.

### 3.10 AgentStore and AppStart, Skills, Runtimes, Bridge, JobRunner

`AgentStore` has rows, directories and cache entries with versions; `AppStart`
extends it with the migration of legacy tokens, default jobs, export, import
and the exit. `Skills` has files of one package, its row, the stamp and the
cached scan. `Runtimes` tells `none`, `part` and `whole` copies apart and keeps
what each installer has reported. `Bridge` has the cloud's messages in order of
time, the pull's answer with its own time and the watermark. `JobRunner` has
runs with retries and time limits that find or create sessions by title.

`MCParts` composes nine parts into one run, `MCProviders` (the list of providers,
the requests to them) and `MCFairParts` two each. They share no state, a behaviour belongs to one of them (`part`) and leaves the others where
they start: the states are those of the separate instances, added up.

## 4. The runs

| run | instance | distinct states |
|---|---|---|
| `cron_one_job` | a recurring job, 2 permits, 2 slots, limit 1 of concurrency and failures, runs that outlast the stuck threshold, one edit at a time, one exit, suspend or panic | 530 145 |
| `cron_kinds` | a polling, At or webhook job, capped, deleted after its run, whose misfires are skipped, 2 permits, limit 2 of concurrency, two exits, suspends or panics; the slots are symmetric | 607 919 |
| `agent_turn` | 3 rounds, 3 requests for both loops, 1 tool call in the budget, replies of 1 or 2 calls of all five kinds, 2 calls in all | 1 689 237 |
| `conversation` | 3 turns of up to 2 rows, one of the page's, 1 command of any kind besides stops, a compaction keeps 1 row, cleaning keeps 2, a history of 5 rows can be cut, 6 rows start a digest | 619 152 |
| `conversation_boundary` (violation) | 2 turns, clear and compact | - |
| `channels` | one channel, several tasks, two commands or exits, two updates | 286 602 |
| `subagents` | two subtasks of one call, one permit, two messages, two receivers, one exit | 832 944 |
| `channel_messages` | two messages of two chats from one sender, three deliveries, a set of ids that holds one, one exit, each of the seven kinds | 939 300 |
| `providers` | three providers, two turns, a login and the page, three keys, one edit, one exit, until two actors overlap; and the requests of two turns, two in each, with models of the four kinds and two calls | 3 764 571 |
| `parts` | nine parts, see `parts.cfg` | 3 974 993 |
| `fair_parts` | a turn and a job with two servers; two agents over two starts | 232 783 |
| `import` (violation) | two agents, one client | - |

Why these bounds are enough to see the hard cases: two slots are two runs of
one job that overlap, which is what all counter and row races need, and use up
both permits; one exit falls between any two writes and is followed by a full
boot, and with a second disturbance a run panics before it, or its row is left.
Jobs share only permits and the loop, and no property relates two of them. Three requests let the first loop use tools, fail or be
nudged and still leave the repair something, or nothing; two calls in a reply
are the smallest batch that can be parallel, be cut in the middle, be partly
refused, and shift a yield. Three turns let one run while another waits and a
third has answered. A set of ids that holds one is full at once; three
deliveries are a message, another that empties the set, and a repetition. Three
keys let a token be rotated while another writer has read the list. Two turns
with two calls, a guard that spares one turn, summaries that leave three messages
and compactions that keep two rows cut calls from their results, lose a turn in
the middle of its tools and go on with a model of another format. Two tries of
a stream (the code has three) are one retry, after which nothing of the first
may be left; a third repeats it. Two memories that start alike, one of each
other task and one crash meet in every order; two file calls, two spellings and
one foreign change are a hazard each; a diff of three lines in two hunks has
every boundary (top, bottom, in between, adjacent). Two agents on a page of two
elements and four calls let one label, scroll, change or turn the page under the
other.

`CHECK_DEADLOCK FALSE`: parts rest when their bounds are used up, a turn ends,
and a session rests when its turns have ended.

What the passing runs show, on these instances:

- *Scheduler.* Permits are conserved across exits and restarts
  (`PermitsConserved`); after a boot nothing is recorded as running that is not,
  but for runs that have panicked since (`NoOrphanRunning`); no row of a run,
  queued ones of webhooks included, is left without its job (`RunsHaveJobs`);
  an enabled job is run again and again, a failing one is disabled
  (`RecurringJobKeepsRunning`, `FailingJobIsDisabled`).
- *Turn.* One budget bounds the requests of both loops (`OneBudget`); after a
  cancellation at most three requests and one batch are started
  (`CancelWindsUp`: the request being prepared and the forced answers, which do
  not look at the token); rows of results follow their assistant and occur once,
  and what the model has seen of its tools is saved (`RowsFollowTurn`); the
  turn ends (`TurnEnds`).
- *Session.* Places are unique and the rows of a turn stay together whatever is
  removed under it (`RowsKeepTurns`); a turn works with everything answered
  turns have left, so the cache is never older than the last answer
  (`AnswersAreSeen`); a deleted session stays empty although its turns go on
  (`DeletedLeavesNoRows`; in `conversations`, which has no foreign key, a turn
  that was preparing does leave a row); a stop reaches the running turn and no
  other (`StopHitsRunningTurn`); the session implements `SessionLog`
  (`OneTurnAtATime`); every waiting turn ends (`EveryTurnEnds`).
- *Requests and answers.* Requests pair every call with its own result, those to
  Anthropic in one direction only (`RequestsArePaired`, see 4.2); the text of an
  answer is that of its last try, and so is what the page shows; the calls that
  are returned have objects of their own arguments or `{}`, and no object is lost
  that the cutting of arguments does not spoil (`AnswerIsLastTry`).
- *Subagents.* Rows, permits and reports agree (`RowsAndReportsAgree`), calls are
  answered (`CallsAreAnswered`), the mailboxes implement `AgentMailbox`
  (`GivenOnce`).
- *MCP.* A call reads its own answer while no line stands before it that nobody
  waits for (`OwnAnswer`): a late answer, or a request of the server's, a ping
  say, each of which shifts all later answers; `CallersGetThrough` fails
  only while a server chatters; `RemovedIsStopped` by the next refresh.
- *Channels.* A channel switched off comes to rest (`DisabledComesToRest`),
  Telegram's updates are taken (`TelegramDelivers`), what is taken is handled
  and, for the kinds that keep a record, once (`TakenIsSettled`, `HandledOnce`).
- *Providers.* `RefreshTokensWork` and `NoKeyIsLost` for operations that do not
  overlap with another writer of the same key.
- *The rest.* `NothingIsLost`, `EditsAreSafe`, `PlainDiffsAreApplied`,
  `RefsMeanWhatWasSeen`, `ReportsAreTrue`, `UninstalledIsUnseen`,
  `SyncSkipsNothing`, `SessionsAreReused`, `RowsHaveHomes`,
  `StartsDoNotRepeat`, `ChangesAreSeen`; each says in its comment which
  circumstances it excepts because the code does fail in them (see 4.2).

### 4.1 Findings of the violation runs

A compaction boundary outlives the rows it was made for and hides new ones
(`HiddenAreSummarised`); an import brings rows of agents back without their
workspaces (`ImportRestoresHomes`). `PROJECT.json` quotes the lines.

Each property has a mutant, a plausible bug in one of the mapped definitions
that makes TLC report the property violated under the same configuration. The
mutated operators stand in front of the definition they replace, marked
`Mutant:`.

### 4.2 What the modelling found besides

These are disagreements between the code and its own comments, or surprises,
that no property of a run is about; the models behave as the code does, and the
properties except the circumstances by name where they matter.

- *Scheduler.* `fail_streak` is cast from -1; an At job whose time has come is
  run again after a late run; `max_daily_runs` limits a lifetime, as
  `reset_daily_counter` is never called; a cooldown longer than the interval
  restarts itself; right after a recovery scan a second scan may start a job
  beyond its concurrency limit; a run whose tool panics leaves a row that says
  `running`, which counts as one until it is swept after two hours; the `queued` row
  a webhook inserts is never run or changed.
- *Turn.* A batch may exceed the tool budget by one; the window in which a yield
  is looked for misses one that stands behind hints; results of a batch that is
  cancelled are not saved; Gemini's `gemini_fc_N` ids repeat, so that the
  sanitizer drops later results as duplicates.
- *Requests.* Results without their call may be in a request to Anthropic, which
  refuses it, although llm.rs:37 and agent_loop.rs:266 promise them paired: an assistant message of blank text is skipped
  with its calls (llm.rs:70), and the rows store such a message with no text
  (agent_loop.rs:483); the results behind it stay. Results in Anthropic's format
  count as messages of the user, so that the guard and the summary may
  cut between a call and its result; and the sanitizer, which does not
  know them, adds results that say "unavailable" to the real ones.
- *Answers.* A `}` in a string of the arguments makes `split_merged_json` cut one
  call into two, both with `{}`; a space behind the object makes another call with
  `{}`. The Responses API's arguments are added to one entry, so that the calls cut
  from it have the first one's name. Of Anthropic's calls without a name the
  earlier ones are returned without it and the last is left out with no apology.
- *Session.* The preview that `send_message` writes (`sessions.rs:193`)
  overwrites the summary a compaction has made.
- *Memory.* `persist_lessons` names columns the table does not have, so no
  lesson reaches it; `distill_rules` selects one, too; the default priority 5
  becomes Critical; overlapping feedback decays twice; of memories that begin alike,
  the comment says the one with the best score is kept (`memory_eviction.rs:90`),
  the code, which walks from the lowest score up, keeps the worst; vectors of
  evicted rows stay.
- *Files and diffs.* `diff_edit` neither compares the hash nor makes a backup nor
  notes the new one, and every file it writes loses its final newline and its CRs,
  as lines() and join("\n") do (`PlainDiffsAreApplied` promises the whole text
  only of LF files that end without a newline); a fuzzy edit indents again, so
  that its own verification may fail; backups of one millisecond and name
  collide; headers of diffs that name no old lines are misplaced. `apply_patch`
  and the tools that need approval are never run.
- *Browser.* A click asks for the element's coordinates and presses there later: if
  the view is scrolled or resized in between, it hits another element;
  `get_or_launch_cdp` returns the browser's endpoint, so that the first
  navigation fails; the port of `connect_user` is not used.
- *MCP.* `send_request` takes the next line with an id for its answer, whichever id
  it is and even if it is a request (mcp.rs:218): after a call that timed out, or a
  ping of the server's, every call on the connection reads the answer before its own.
- *Delegation.* A call that is dropped while it awaits the INSERT of a run leaves a
  row `running` that no task will ever finish.
- *Processes.* A copy that is cut off while it is unpacked is taken for an
  installation for ever; `find_python`'s early return leaves the flag of an
  initialisation set; the forced kill in `stop()` is unreachable; a health check
  is satisfied by any server on the port.
- *Skills.* A turn that scans during an installation stores "no skill" under the
  present stamp, and `skill_manage` never drops the cache; half-copied directories
  count as installed; the flag of `toggle_skill` is never read.
- *Bridge.* The watermark passes rows whose insert failed; deleted messages are
  pulled again; forwarded ones are not deduplicated and are lost at an exit; the
  backoff is not reset; the admin backend's route speaks another protocol.
- *Jobs.* `session_strategy = "new"` has no effect; jobs of one name share a
  session; every HEARTBEAT.md is run by the newest agent; a shell child outlives
  its timeout.
- *Agents and start.* A pending database is renamed over the old one, whose WAL
  files stay; a redacted token is migrated as if it were one; the comment says
  60 s where the cache lives for 5; a crash leaves default jobs added in part, and
  the next start does not complete them.
- *Channels.* The title that a session is given after its first turn is the one by
  which handlers look it up, so the next message makes another session.
- *Providers.* `force_refresh` and `try_refresh` open a path that exists on macOS
  only, and renew a key only while it is stored plain.

### 4.3 Fairness

`CronScheduler!Fairness`: weak fairness of the engine loop, of each spawned run
and of the passage of time, and strong fairness of a sweep that finds the rows of
a job which panicked runs have left: a row that stays becomes older than two
hours, and the loop sweeps again and again. The loop and the runs are tokio tasks that await
only the database, timers and an execution with a timeout
(`runner.rs` wraps every attempt); nothing else is fair: clients need not
act, the process need not exit or restart. The two liveness properties about
jobs left alone say so in their premise (`ClientsQuiet`).

`AgentTurn!Spec`: weak fairness of the turn's steps together. Requests time out
(120 s for the client, 60 s between chunks), so do the builtin tools (60 to 300 s)
and the wait for a subagent (120 s). No fairness for the user or the subagent:
`TurnEnds` holds though the subagent never ends and nobody cancels.

`Conversation!Spec`: weak fairness of each turn's own steps. What a turn awaits
is the lock, which tokio hands out in the order of the queue, the database, a
compaction (30 s) and the agent loop, whose end is `TurnEnds`. `Abandon` is not
fair: only some callers have a timeout, and `EveryTurnEnds` does not need one.
Nor are digests, commands and the expiry of the cache.

`Subagents!Spec`: weak fairness of each subtask (its turn ends, as above, and a
permit is granted in order) and of the call that collects them.

`ChannelManager`, `ChannelUpdates`: weak fairness of each call, of the keeper's
round and of each task; strong fairness only of a poller's `Receive`, which says
that a network which keeps recovering lets an answer through in the end. Without
it a poller may fail for ever, in the code too. `ChannelMessages`: the
connection's task and the handlers go on; platform and network need not.

`McpServers!Fairness`: weak fairness of what a caller does by itself or ends by a
timeout; strong fairness of `StopStale` and `Offer`, the places where it waits
for the one lock, which others take in between: tokio's mutex is fair, so whoever
waits again and again gets it. Servers need not answer. `AppStart!Spec`: weak
fairness of commands that were begun and of the cache's time to live. `MCFairParts`
restates both for the part that is running. `LlmStream`'s fairness (a request and
a silent stream have their time limits) serves no property at present.

## 5. The proofs

Each theorem is `Spec => []P` or `Spec => A` for the component's own
specification, without any use of its fairness, for all values of the constants
under the named assumptions of the modules: limits are numbers, sets are sets of
the right things, "none" is none of them, there are at least as many run slots as
permits, agents are numbers that begin with 1, the user's job is not a default
one. Two theorems have a hypothesis besides, named where they are described:
servers keep to their formats (an assumption of the run, too), and ids of calls do
not repeat. TLC evaluates every assumption in the run of the module. TLC found
the inductive invariants' gaps on the runs' instances before the prover did.

`CronSchedulerProofs`:

- `TypeCorrect`, `PermitsAreConserved`. The type of `permits` and the sum are
  proved together: that a permit can be returned without exceeding the maximum
  follows from the sum, and the sum can only be stated over well-typed slots.
  `ColumnTypes` is the type invariant without `permits`; `PermitInv` adds
  `permits \in Nat` and the sum. The arithmetic of the sum is in lemmas about
  one slot entering or leaving `Live`.
- `PermitMeansSlot`: whenever a permit is free there is an idle slot, so the
  model's bound on slots never holds a run back.
- `NoOrphans`. Not inductive alone: an exit must leave no live task behind, so
  `OrphanInv` adds that nothing is live while the engine is down or booting. Rows
  that no run stands behind come from a panic, each counted in `panics`, or from an
  exit, after which the boot cancels them.
- `RunsAlwaysHaveJobs`. The INSERT of a run, or of a webhook's queued row, is
  refused by its foreign key once the job is gone, and the cascade of a DELETE takes
  the rows of all kinds along.
- `DeletionIsFinal`, `CountersOnlyFollowRuns`: action properties, one case per
  action, over the lemma `RowsStep` that says which steps touch the rows.

`AgentTurnProofs`:

- `OneBudgetForAll`. `BudgetInv` keeps the account of what is still to come: a
  request that has been deducted but not sent while `pc = "preparing"`, and a
  forced answer that the current loop has not made yet.
- `CancellationWindsUp`. `CancelInv` bounds the late requests by where the turn
  is (`LateAllowed`) and says where no tool of the current reply can have been
  run late (`NoneRun`); that a serial tool is in flight only in a batch that is
  not parallel is part of it.
- `RowsFollowTheTurn`: rows of results stand behind their assistant, each once,
  and what the model has seen of its tools is saved. `RowInv` adds to the property
  that rows belong to earlier rounds until a batch is settled (`OlderInv`), that
  outside a batch every result among the messages has its row (`SavedInv`), and
  that the messages behind the last assistant are results of its calls, one each,
  and of none that is still to be executed (`BatchInv`). A batch saves its rows
  from the list of all results: which result goes with a call (`Chosen`) and the
  list of them are defined by recursion over sequences of any length; what is
  needed of them is shown from the existence of the recursion's solution and a
  least counterexample (`LeastOf`, `ChosenPicks`, `Flattened`).

`ConversationProofs`:

- `StopsHitRunningTurns`. `LockInv` ties the registered token and the places of
  the turns to the lock.
- `DeletedSessionsStayEmpty`, over the lemmas `RowsStep` and `ExistsStep` that
  say which steps add rows and which remove the session.
- `AnsweredTurnsAreSeen`. `CacheInv` is the strengthening: the cache entry, and a
  list that is about to become one, hold the rows of every answered turn. An
  answer drops the entry while nobody else works with a history, because of the
  lock; everything else keeps it or takes rows away.
- `RowsStayWithTheirTurns`. `RowsInv` adds that turns without the lock have no
  rows yet and that the rows of the turn that has it are behind all others. That
  MAX(seq) + 1 is new for every bounded set of rows is the lemma `Greatest`, from
  the well-foundedness of the natural numbers.
- `SessionImplementsLog`: every step is a step of `SessionLog` or a stutter.

`SubagentsProofs`:

- `MessagesAreGivenOnce`: the mailboxes implement `AgentMailbox`. `MailInv` says
  that a message is in one place at a time, with its sender, in a mailbox or in a
  receiver's channel (`PlaceInv`, `SlotInv`, `BoxInv`), and that who is on record
  as waiting has no message yet (`WaiterInv`): `HandOver` takes the waiter off the
  record in the same critical section in which it fills the channel, so a second
  sender cannot find it.
- `RowsAndReportsAlwaysAgree`. `SpawnInv` says how far the loop over the subtasks
  has come, so that at most one row of a call, its last, belongs to a task that is
  not spawned yet, or never will be; `RunInv` ties each row to the place of its subtask,
  `PermitInv` counts the permits of each call over its working subtasks
  (`PermitTaken`, `PermitReturned` do the counting), and `ReportInv` holds what a
  finished call has reported: a call waits until all of its subtasks have ended or
  panicked, and afterwards only a cancellation by the user changes a row.

`ChannelMessagesProofs`: `MessagesAreHandledOnce`. `OnceInv` follows a message
that counts as taken: whoever takes it once more has no record (Slack, DingTalk),
or the set of ids has been emptied (`RememberedOnce`), or an exit came before the
offset was confirmed.

`ProvidersProofs`:

- `StoredTokensWork`. The property is about tokens, its reason is about lists:
  as long as no two actors have overlapped, the list in an actor's hands is the
  stored one (`OneAtATime`), so what it writes back differs in one entry
  (`WrittenEntries`). `GivenInv` says that nobody has a token that was not
  issued, hence a fresh one is in no list; `LoginInv` and `AnswerInv` follow the
  tokens of a login and of a refresh until they are written; `RefreshInv` is the
  property with the one excuse that the replacement is in a turn's hands.
- `KeysStay`, the action property, from the same invariant: sealing and the merge
  at a start keep every key (`SealedEntries`, `BootedEntries`).

- `RequestsGoThrough`, for any models of the four kinds, any bounds and any
  windows, provided that calls have ids of their own (`FreshIds`; Gemini's format
  has none, and there the property fails). The property is about a request, its
  reason about what every step of the pipeline keeps. A list is `Sound` if its
  messages keep to the formats (`Proper`: a result has the id of a call and shows
  that call or a placeholder) and no two of them make the same call. `PipeInv`
  says that the rows and the messages are sound; that saved results are the
  calls' own and stand behind them (`RowInv`); that a call whose result is saved
  has it among the messages when a turn sends its first request (`FirstInv`); and
  that while tools run there is one message whose calls they are, which no
  request has shown and no placeholder stands for (`Running`), so that a result
  that comes late contradicts nothing that was sent. Cuts, repairs and summaries
  keep lists sound (`SoundKept`, `SoundInserted`, `RelocatedSound`,
  `CompletedSound`, `ShrunkSound`, `SummarisedSound`), whatever they move or drop.
  On a sound list the sanitizer puts exactly their results behind the calls of a
  message (`PairedIs`, `DeduplicatedIs`); `OpenAi` neither breaks nor adds to
  these (`OpenAiPaired`); and what is dropped for Anthropic is made up for in the
  next message, which merging keeps (`AnsweredIs`, `MergedIs`,
  `AnthropicReplied`). Most steps, the relocation and the merging apart, flatten what
  becomes of each message; where a message comes out is `FlatPlaces`, from the
  one solution of that recursion (`GatheringExists`, `GatheringAgrees`).

`PartsProofs`, over the parts of `MCParts`:

- `MemoriesAreKept`. Each task that is about to take something away knows that
  it is elsewhere already (`StoreInv`, `WriterInv`, `RemoverInv`); `LessonInv` does
  the same for the text of MEMORY.md that a learner has in hand.
- `EditsLoseNothing`. `BaseInv` keeps, for a call that has read the file and is
  about to write over it, that what it read is in a backup, its own new text or
  excused. `LastInv` is what makes the next edit accepted: whoever changed the
  file last goes on to note it, and another call that is about to note something
  notes the same. That trimming the backups keeps the latest
  (`TrimmingKeepsLatest`) needs a least element of a set of numbers
  (`LeastExists`).
- `ReferencesAreKept`. Labels stand behind the page's own elements
  (`LabelsComeLast`), so that they move no reference; `AimInv` follows an action
  from the reference to the element to the point of the press, as long as the
  elements are the same and, from the look-up of the coordinates on, nothing moves.
- `ReportsTellTheTruth`. A copy is in part only while somebody unpacks it, or
  after an unpacking that was cut off.
- `RemovedSkillsAreUnseen`. What was seen under the present stamp is still there,
  in the cache and in the hands of a turn that scans; a removal advances the
  stamp before it is done.
- `PullsSkipNothing`. While the answer to a pull is inserted, all that lies between
  the mark and the answer's time is settled or in the answer.
- `JobsReuseSessions`. Who is about to create a session has found none, and whoever
  else looked in the meantime is noted as overlapping.
- `AnswersAreLastTries`, from two invariants. `PageInv` ties what the page shows
  to what the watched call has received (`PagesShowAnswers`). `ReceiptInv` says
  what each call has received, item by item: `Listed`, its calls with their
  arguments; `Filtered`, its text, of which one piece may be held back because it
  may be half a tag. `Halfway` says exactly which: the last item if it is the
  first half of the tag that would now count, or an earlier `<` that nothing
  visible has followed. That the parsers, which look at one item and one bit of
  memory, agree with the definition of thoughts and tags over the whole answer is
  `ThoughtAfterGrows`, `TagsGrow` and `TextGrows`. What is returned at the end is
  about parts of one call's arguments: the cuts are where objects end, as long as
  none was spoilt before (`PartIsParsed`, `ReturnedPart`), parts do not overlap
  (`ReturnedOnce`), and every unspoilt object is one (`ReceiptIsSound`). The theorem assumes servers that
  keep to their formats (`Orderly`: calls come one after the other, openai's
  pieces name a call that has begun or the next one and do not come between the
  halves of a tag); TLC evaluates this for the scripts of the run.
- `PlainDiffsTurnOut`, for a file of any size and any way to cut a change into
  hunks. `DiffInv` says what `result_lines` is between two hunks: the changed text
  up to the next hunk, followed by the rest of the old file, and `offset` is how
  much longer it is than the file was; what is written joins those lines with LF. Both concern plain diffs only; without
  that restriction the model panics or miscounts, as the code does. That a hunk
  holds the changed text of its stretch is `HunkTexts`. `FlattenSeq` is recursive,
  so that lemma needs the recursion to have a solution and takes the least length
  for which it would fail.

`FairPartsProofs`, over the parts of `MCFairParts`:

- `HomesOutliveRows`. An agent is made once (`NewIsNew`, from the
  well-foundedness of the numbers), so nobody inserts a row whose workspace is
  being removed (`InsertInv`, `RemoveInv`); databases that are exported or wait
  for the next start know no agent that was never made (`MadeInv`).
- `StartsRepeatNothing`. A start has tokens to migrate only when it found no
  channel, and adds default jobs only when it found no job; both stay true while
  it works, and in every database that is exported, imported and taken.
- `CallsReadTheirAnswers`. The lock is held by who connects or waits (`LockInv`),
  and unless a caller has given up on the connection, or its server has sent a
  request, what is on its way there is the question or the answer of the one who
  waits (`PipeInv`). The ids of answers, which the code does not compare, would be
  needed after either.

Every safety property that a passing run checks, invariant or action property, is
stated by one of these theorems. What stays with TLC, and why:

- liveness: `RecurringJobKeepsRunning`, `FailingJobIsDisabled`, `TurnEnds`,
  `EveryTurnEnds`, `DisabledComesToRest`, `TelegramDelivers`, `CallsAreAnswered`,
  `TakenIsSettled`, `CallersGetThrough`, `RemovedIsStopped`, `ChangesAreSeen`; the
  prover has no rules for fairness and ENABLED;
- the type invariants other than that of `CronScheduler`, except for what the
  inductive invariants repeat of them.

## 6. What is not modelled

- *Database failures.* The code ignores most of them; a model of lost writes
  would break every property and say nothing.
- *The approval manager.* The orchestrator passes no app handle, so a call that
  needs approval is refused before the manager is asked.
- *The circuit breaker* in `failover.rs`, `try_verify_cycle`, `can_retry`,
  `record_retry` and the cost limit: never called. *The token bucket* of
  `rate_limiter.rs` is a computation with the wall clock.
- *The admin backend* (`ws-manager.ts`, `priority-sync.ts`, event replay, CRDT):
  nothing starts it, `src/index.ts` never imports `initializeWebSocket`; only
  tests do. Its storage and routes are CRUD.
- *Prompts, formatting, the wording of messages, telemetry, hooks that only
  observe, the progress file*: no other part reads them.
- *Branches of a session*: `fork_from_message` and `switch_branch` only set a
  field that no load of a turn reads; choosing one drops the cache entry, which
  is `Expire`.
- *The title that `auto_name_session` makes*: see the disagreement about channels.
- *The response cache* (only for turns without tools), *plugins and SOPs*
  (registries filled at the start and a linear script), *the other routes of the
  gateway* (they call what is modelled, or read), *frontends and the CLI*.
- *Shell commands, search, media and the network tools*: what they do is outside
  the state of the program.
