---------------------------- MODULE Conversation ----------------------------
(***************************************************************************)
(* One chat session: the turns of send_message_stream                      *)
(* (src/local-app/src/agent/orchestrator.rs) around run_agent_loop, the    *)
(* commands of the user interface that change the session meanwhile        *)
(* (src/local-app/src/handlers/sessions.rs), and its rows                  *)
(* (src/local-app/src/memory/conversation.rs).                             *)
(*                                                                         *)
(* A turn waits for the session's lock, loads the history through a cache  *)
(* of ten seconds, may compact it, saves the user's message, adds the rows *)
(* of the agent loop (AgentTurn has its details) and ends.  Only turns     *)
(* take the lock.  A row stands for its message; texts are left out.       *)
(***************************************************************************)
EXTENDS Integers, FiniteSets, SequencesExt

CONSTANTS
  Turns,       \* the messages sent to the session, each answered by a turn
  Nobody,      \* holds a free lock
  NotCached,   \* the session has no entry in the cache
  Commands,    \* bound: what the user interface does
  KeepTail,    \* rows a compaction keeps (10 in the code)
  CutAbove,    \* rows an overflowing turn needs to cut the history (5)
  DigestEvery, \* a summary is made whenever the rows are a multiple (10)
  DigestFrom,  \* rows such a summary needs (6) ...
  DigestLast,  \* ... and how many of the latest it reads (50)
  Paged,       \* the turns that the page has sent, not a channel or a job
  OutlineLast, \* rows the page's own summary reads (10)
  MaxStored,   \* rows that the regular cleaning leaves (500)
  MaxRows,     \* bound: rows that one turn adds
  MaxCommands  \* bound: commands given

AllCommands == {"clear", "cut", "delete", "compact", "truncate"}

User == "user"   \* compacts, besides the turns

ASSUME ConstantsOK ==
  /\ Nobody \notin Turns /\ User \notin Turns
  /\ Commands \subseteq AllCommands /\ Paged \subseteq Turns
  /\ {KeepTail, CutAbove, DigestEvery, DigestFrom, DigestLast, OutlineLast,
      MaxStored, MaxRows, MaxCommands} \subseteq Nat \ {0}

VARIABLES
  exists,     \* the session has its row in chat_sessions
  rows,       \* its rows in chat_messages
  legacy,     \* the turns with a row in the older table, conversations
  boundary,   \* compact_boundary_<session> in settings, 0 if there is none
  summary,    \* the rows that chat_sessions.summary stands for
  cache,      \* the session's entry in session_msg_cache
  lock,       \* who holds the session's lock
  waiting,    \* tokio's fair queue of those who want it
  token,      \* whose token is in active_cancellations
  cancelled,  \* the turns whose token is cancelled
  pc,         \* where each turn is
  context,    \* the history each turn works with
  from,       \* the boundary each turn has read
  added,      \* rows each turn has tried to add
  compacting, \* the rows a compaction has read, {} if there is none
  digest,     \* the spawned summary of each turn, and the rows it has read
  outline,    \* the one that send_message spawns after the turn
  client,     \* what the user interface is in the middle of
  commands    \* how many commands it has given

session == <<exists, rows, legacy>>
memo    == <<boundary, summary>>
mutex   == <<lock, waiting, token>>
local   == <<context, from, added>>
tasks   == <<compacting, digest, outline>>
ui      == <<client, commands>>
vars == <<session, memo, cache, mutex, cancelled, pc, local, tasks, ui>>

Loaded  == {"put", "compose", "compact", "record", "save", "first", "cut", "loop"}
Holding == {"prepare", "load", "reload", "again"} \cup Loaded
Ended   == {"answered", "failed"}
PC      == {"idle", "queued"} \cup Holding \cup Ended

\* Places count from 1: a boundary of 0 hides nothing.
Row == [seq : Nat \ {0}, turn : Turns, n : 1..MaxRows]

\* Mutant: the number of rows instead of the last place.
NextSeqByCount(rs) == 1 + Cardinality(rs)

\* COALESCE(MAX(seq), 0) + 1
NextSeq(rs) == 1 + Max({0} \cup {r.seq : r \in rs})

After(rs, seq) == {r \in rs : r.seq > seq}

\* The latest k, and the rest.
Latest(rs, k) == {r \in rs : Cardinality(After(rs, r.seq)) < k}
Older(rs, k)  == rs \ Latest(rs, k)

NoTask == [at |-> "none", read |-> {}]

-----------------------------------------------------------------------------
Init ==
  /\ exists = TRUE /\ rows = {} /\ legacy = {}
  /\ boundary = 0 /\ summary = {} /\ cache = NotCached
  /\ lock = Nobody /\ waiting = <<>> /\ token = Nobody /\ cancelled = {}
  /\ pc = [t \in Turns |-> "idle"]
  /\ context = [t \in Turns |-> {}]
  /\ from = [t \in Turns |-> 0]
  /\ added = [t \in Turns |-> 0]
  /\ compacting = [p \in Turns \cup {User} |-> {}]
  /\ digest = [t \in Turns |-> NoTask]
  /\ outline = [t \in Turns |-> NoTask]
  /\ client = "idle" /\ commands = 0

Goto(t, at, to) == pc[t] = at /\ pc' = [pc EXCEPT ![t] = to]

-----------------------------------------------------------------------------
(* a turn                                                                  *)

\* Mutant: the token is registered before the turn has the lock.
SendRegisters(t) ==
  /\ Goto(t, "idle", "queued")
  /\ waiting' = Append(waiting, t) /\ token' = t
  /\ UNCHANGED <<session, memo, cache, lock, cancelled, local, tasks, ui>>

\* Links are fetched before the lock is asked for.
Send(t) ==
  /\ Goto(t, "idle", "queued")
  /\ waiting' = Append(waiting, t)
  /\ UNCHANGED <<session, memo, cache, lock, token, cancelled, local, tasks, ui>>

\* The token is registered without an await in between.
Acquire(t) ==
  /\ lock = Nobody /\ waiting # <<>> /\ Head(waiting) = t
  /\ Goto(t, "queued", "prepare")
  /\ lock' = t /\ waiting' = Tail(waiting) /\ token' = t
  /\ UNCHANGED <<session, memo, cache, cancelled, local, tasks, ui>>

ReadBoundary(t) ==
  /\ Goto(t, "prepare", "load")
  /\ from' = [from EXCEPT ![t] = boundary]
  /\ UNCHANGED <<session, memo, cache, mutex, cancelled, context, added, tasks, ui>>

Load(t, history, next) ==
  /\ Goto(t, "load", next)
  /\ context' = [context EXCEPT ![t] = history]
  /\ UNCHANGED <<session, memo, cache, mutex, cancelled, from, added, tasks, ui>>

LoadRest(t)   == from[t] > 0 /\ Load(t, After(rows, from[t]), "compose")
LoadCached(t) == from[t] = 0 /\ cache # NotCached /\ Load(t, cache, "compose")
LoadRows(t)   == from[t] = 0 /\ cache = NotCached /\ Load(t, rows, "put")

PutCache(t) ==
  /\ Goto(t, "put", "compose")
  /\ cache' = context[t]
  /\ UNCHANGED <<session, memo, mutex, cancelled, local, tasks, ui>>

\* With few tokens and messages, or too few rows, nothing is compacted.
KeepHistory(t) ==
  /\ Goto(t, "compose", "record")
  /\ UNCHANGED <<session, memo, cache, mutex, cancelled, local, tasks, ui>>

\* compact_session, which turns and the user interface call: it reads all
\* rows and asks the provider for a summary of the older ones.
StartCompaction(p) ==
  /\ Cardinality(rows) > KeepTail
  /\ compacting' = [compacting EXCEPT ![p] = rows]

FinishCompaction(p) ==
  LET old == Older(compacting[p], KeepTail) IN
  /\ boundary' = Max({r.seq : r \in old})
  /\ summary' = IF exists THEN old ELSE summary
  /\ cache' = NotCached
  /\ compacting' = [compacting EXCEPT ![p] = {}]

CompactHistory(t) ==
  /\ Goto(t, "compose", "compact")
  /\ StartCompaction(t)
  /\ UNCHANGED <<session, memo, cache, mutex, cancelled, local, digest, outline, ui>>

CompactedHistory(t) ==
  /\ Goto(t, "compact", "reload")
  /\ FinishCompaction(t)
  /\ UNCHANGED <<session, mutex, cancelled, local, digest, outline, ui>>

Reload(t) ==
  /\ Goto(t, "reload", "again")
  /\ from' = [from EXCEPT ![t] = boundary]
  /\ UNCHANGED <<session, memo, cache, mutex, cancelled, context, added, tasks, ui>>

LoadAgain(t) ==
  /\ Goto(t, "again", "record")
  /\ context' = [context EXCEPT ![t] = After(rows, from[t])]
  /\ UNCHANGED <<session, memo, cache, mutex, cancelled, from, added, tasks, ui>>

\* save_user_message: conversations has no foreign key.
RecordTurn(t) ==
  /\ Goto(t, "record", "save")
  /\ legacy' = legacy \cup {t}
  /\ UNCHANGED <<exists, rows, memo, cache, mutex, cancelled, local, tasks, ui>>

\* Mutant: no foreign key.
SaveRowUnchecked(t) ==
  /\ added[t] < MaxRows
  /\ added' = [added EXCEPT ![t] = @ + 1]
  /\ rows' = rows \cup {[seq |-> NextSeq(rows), turn |-> t, n |-> added'[t]]}
  /\ UNCHANGED <<exists, legacy, memo, cache, mutex, cancelled, context, from,
                 tasks, ui>>

\* save_chat_message: without its session the row is refused, and no caller
\* looks at the error.
SaveRow(t) ==
  /\ added[t] < MaxRows
  /\ added' = [added EXCEPT ![t] = @ + 1]
  /\ rows' = IF exists
               THEN rows \cup {[seq |-> NextSeq(rows), turn |-> t, n |-> added'[t]]}
               ELSE rows
  /\ UNCHANGED <<exists, legacy, memo, cache, mutex, cancelled, context, from,
                 tasks, ui>>

SaveMessage(t) == Goto(t, "save", "first") /\ SaveRow(t)

AddRow(t) == Goto(t, "loop", "loop") /\ SaveRow(t)

\* The first request needs no cut.
PassFirst(t) ==
  /\ Goto(t, "first", "loop")
  /\ UNCHANGED <<session, memo, cache, mutex, cancelled, local, tasks, ui>>

\* The provider refuses the first request as too long: the boundary moves
\* behind two thirds of the rows, and a fixed text becomes the summary.
CutHistory(t) ==
  LET count == Cardinality(rows) IN
  /\ count > CutAbove
  /\ Goto(t, "first", "cut")
  /\ boundary' = (CHOOSE r \in rows :
                    Cardinality(rows \ After(rows, r.seq)) = (count * 2) \div 3 + 1).seq
  /\ UNCHANGED <<session, summary, cache, mutex, cancelled, local, tasks, ui>>

CutSummary(t) ==
  /\ Goto(t, "cut", "loop")
  /\ summary' = IF exists THEN rows \ After(rows, boundary) ELSE summary
  /\ UNCHANGED <<session, boundary, cache, mutex, cancelled, local, tasks, ui>>

\* Mutant: whoever leaves frees the session.
LeaveOpen(t, end) ==
  /\ pc' = [pc EXCEPT ![t] = end]
  /\ lock' = Nobody /\ token' = Nobody
  /\ waiting' = SelectSeq(waiting, LAMBDA u : u # t)
  /\ cancelled' = cancelled \ {t}
  /\ context' = [context EXCEPT ![t] = {}]
  /\ from' = [from EXCEPT ![t] = 0]
  /\ added' = [added EXCEPT ![t] = 0]

\* On every way out the guards are dropped, first the token's, then the lock.
Leave(t, end) ==
  /\ pc' = [pc EXCEPT ![t] = end]
  /\ lock' = IF lock = t THEN Nobody ELSE lock
  /\ token' = IF lock = t THEN Nobody ELSE token
  /\ waiting' = SelectSeq(waiting, LAMBDA u : u # t)
  /\ cancelled' = cancelled \ {t}
  /\ context' = [context EXCEPT ![t] = {}]
  /\ from' = [from EXCEPT ![t] = 0]
  /\ added' = [added EXCEPT ![t] = 0]

\* Mutant: the cache entry is kept.
AnswerKeepsCache(t) ==
  /\ pc[t] = "loop" /\ t \in legacy
  /\ Leave(t, "answered")
  /\ UNCHANGED <<session, memo, cache, tasks, ui>>

\* Success: the reply is recorded, the cache entry dropped, and every so many
\* rows a task is spawned that makes a new summary.
Answer(t) ==
  /\ pc[t] = "loop" /\ t \in legacy
  /\ Leave(t, "answered")
  /\ cache' = NotCached
  /\ digest' = IF rows # {} /\ Cardinality(rows) % DigestEvery = 0
                 THEN [digest EXCEPT ![t].at = "reading"] ELSE digest
  /\ outline' = IF t \in Paged THEN [outline EXCEPT ![t].at = "reading"] ELSE outline
  /\ UNCHANGED <<session, memo, compacting, ui>>

\* Mutant: the lock is not released.
FailLocked(t) ==
  /\ pc[t] \in {"prepare", "loop"}
  /\ pc' = [pc EXCEPT ![t] = "failed"]
  /\ UNCHANGED <<session, memo, cache, mutex, cancelled, local, tasks, ui>>

\* A limit is hit, the loop fails, or the row of the reply is gone.
Fail(t) ==
  /\ pc[t] \in {"prepare", "loop"}
  /\ Leave(t, "failed")
  /\ UNCHANGED <<session, memo, cache, tasks, ui>>

\* The caller's timeout drops the turn at whatever it is waiting for.
Abandon(t) ==
  /\ pc[t] \in Holding \cup {"queued"}
  /\ Leave(t, "failed")
  /\ compacting' = [compacting EXCEPT ![t] = {}]
  /\ UNCHANGED <<session, memo, cache, digest, outline, ui>>

ReadDigest(t) ==
  LET latest == Latest(rows, DigestLast) IN
  /\ digest[t].at = "reading"
  /\ digest' = [digest EXCEPT ![t] =
       IF Cardinality(latest) < DigestFrom THEN NoTask
                                           ELSE [at |-> "asking", read |-> latest]]
  /\ UNCHANGED <<session, memo, cache, mutex, cancelled, pc, local, compacting, outline, ui>>

\* The provider answers, or it does not and nothing is written.
WriteDigest(t) ==
  /\ digest[t].at = "asking"
  /\ summary' \in {summary, IF exists THEN digest[t].read ELSE summary}
  /\ digest' = [digest EXCEPT ![t] = NoTask]
  /\ UNCHANGED <<session, boundary, cache, mutex, cancelled, pc, local, compacting, outline, ui>>

\* send_message counts the rows when the session has its title, and then writes the
\* beginnings of the latest over whatever the summary was.
ReadOutline(t) ==
  /\ outline[t].at = "reading"
  /\ outline' = [outline EXCEPT ![t] =
       IF rows # {} /\ Cardinality(rows) % DigestEvery = 0
         THEN [at |-> "writing", read |-> Latest(rows, OutlineLast)] ELSE NoTask]
  /\ UNCHANGED <<session, memo, cache, mutex, cancelled, pc, local, compacting, digest, ui>>

WriteOutline(t) ==
  /\ outline[t].at = "writing"
  /\ summary' = IF exists THEN outline[t].read ELSE summary
  /\ outline' = [outline EXCEPT ![t] = NoTask]
  /\ UNCHANGED <<session, boundary, cache, mutex, cancelled, pc, local, compacting, digest, ui>>

-----------------------------------------------------------------------------
(* the user interface, and time                                            *)

Command(kind) ==
  /\ kind \in Commands /\ commands < MaxCommands
  /\ commands' = commands + 1

\* cancel_session
Stop ==
  /\ token # Nobody /\ token \notin cancelled
  /\ cancelled' = cancelled \cup {token}
  /\ UNCHANGED <<session, memo, cache, mutex, pc, local, tasks, ui>>

Clear ==
  /\ Command("clear") /\ client = "idle"
  /\ rows' = {} /\ legacy' = {} /\ client' = "popping"
  /\ UNCHANGED <<exists, memo, cache, mutex, cancelled, pc, local, tasks>>

\* edit_message and regenerate_response: the rows from some row on are removed.
CutFrom(r) ==
  /\ Command("cut") /\ client = "idle"
  /\ rows' = rows \ {q \in rows : q.seq >= r.seq}
  /\ client' = "popping"
  /\ UNCHANGED <<exists, legacy, memo, cache, mutex, cancelled, pc, local, tasks>>

BeginDelete ==
  /\ Command("delete") /\ client = "idle" /\ exists
  /\ cancelled' = cancelled \cup ({token} \cap Turns)
  /\ client' = "deleting"
  /\ UNCHANGED <<session, memo, cache, mutex, pc, local, tasks>>

DeleteSession ==
  /\ client = "deleting"
  /\ exists' = FALSE /\ rows' = {} /\ legacy' = {} /\ client' = "popping"
  /\ UNCHANGED <<memo, cache, mutex, cancelled, pc, local, tasks, commands>>

PopCache ==
  /\ client = "popping"
  /\ cache' = NotCached /\ client' = "idle"
  /\ UNCHANGED <<session, memo, mutex, cancelled, pc, local, tasks, commands>>

UserCompacts ==
  /\ Command("compact") /\ compacting[User] = {}
  /\ StartCompaction(User)
  /\ UNCHANGED <<session, memo, cache, mutex, cancelled, pc, local, digest, outline, client>>

UserCompacted ==
  /\ compacting[User] # {}
  /\ FinishCompaction(User)
  /\ UNCHANGED <<session, mutex, cancelled, pc, local, digest, outline, ui>>

\* truncate_all_sessions, which the scheduler calls after a health check.
Truncate ==
  /\ Command("truncate") /\ Cardinality(rows) > MaxStored
  /\ rows' = Latest(rows, MaxStored)
  /\ UNCHANGED <<exists, legacy, memo, cache, mutex, cancelled, pc, local, tasks, client>>

\* Ten seconds pass, the entry is evicted, or a branch is chosen.
Expire ==
  /\ cache # NotCached
  /\ cache' = NotCached
  /\ UNCHANGED <<session, memo, mutex, cancelled, pc, local, tasks, ui>>

-----------------------------------------------------------------------------
Prepare(t) ==
  \/ Acquire(t) \/ ReadBoundary(t)
  \/ LoadRest(t) \/ LoadCached(t) \/ LoadRows(t) \/ PutCache(t)
  \/ KeepHistory(t) \/ CompactHistory(t) \/ CompactedHistory(t)
  \/ Reload(t) \/ LoadAgain(t)

Run(t) ==
  \/ RecordTurn(t) \/ SaveMessage(t) \/ AddRow(t)
  \/ PassFirst(t) \/ CutHistory(t) \/ CutSummary(t) \/ Answer(t) \/ Fail(t)

Turn(t) == Prepare(t) \/ Run(t)

Digest(t) == ReadDigest(t) \/ WriteDigest(t) \/ ReadOutline(t) \/ WriteOutline(t)

UserStep ==
  \/ Stop \/ Clear \/ \E r \in rows : CutFrom(r)
  \/ BeginDelete \/ DeleteSession \/ PopCache
  \/ UserCompacts \/ UserCompacted \/ Truncate

Next ==
  \/ \E t \in Turns : Send(t) \/ Turn(t) \/ Abandon(t) \/ Digest(t)
  \/ UserStep \/ Expire

\* A turn awaits the lock, the database and requests with timeouts; that the
\* loop ends is AgentTurn's TurnEnds.  No caller need have a timeout.
Spec == Init /\ [][Next]_vars /\ \A t \in Turns : WF_vars(Turn(t))

-----------------------------------------------------------------------------
(* properties                                                              *)

\* The variables range over the values the code gives them.
TypeOK ==
  /\ exists \in BOOLEAN /\ rows \subseteq Row /\ legacy \subseteq Turns
  /\ boundary \in Nat /\ summary \subseteq Row
  /\ cache = NotCached \/ cache \subseteq Row
  /\ lock \in Turns \cup {Nobody} /\ token \in Turns \cup {Nobody}
  /\ waiting \in Seq(Turns) /\ cancelled \subseteq Turns
  /\ pc \in [Turns -> PC]
  /\ \A t \in Turns : context[t] \subseteq Row
  /\ from \in [Turns -> Nat] /\ added \in [Turns -> 0..MaxRows]
  /\ \A p \in Turns \cup {User} : compacting[p] \subseteq Row
  /\ \A t \in Turns : digest[t].at \in {"none", "reading", "asking"}
  /\ \A t \in Turns : outline[t].at \in {"none", "reading", "writing"}
  /\ client \in {"idle", "popping", "deleting"} /\ commands \in 0..MaxCommands

\* The session's lock and save_chat_message's MAX(seq) + 1 together: no two
\* rows have the same place, and the rows of a turn are not mixed with those
\* of another, whatever is removed from under a running turn.
RowsKeepTurns ==
  /\ \A r, q \in rows : r.seq = q.seq => r = q
  /\ \A r, s, q \in rows :
       r.turn = s.turn /\ r.seq < q.seq /\ q.seq < s.seq => q.turn = r.turn

\* Pressing stop reaches the turn that has the session, and never one that
\* waits for it or has left it (active_cancellations and CancelGuard).
StopHitsRunningTurn ==
  [][\A t \in cancelled' \ cancelled : lock = t /\ pc[t] \in Holding]_vars

\* A turn works with all rows that answered turns have left, unless a
\* compaction hides them: the cache is never older than the last answer.
AnswersAreSeen ==
  \A t \in Turns : pc[t] \in Loaded =>
    \A r \in After(rows, from[t]) : pc[r.turn] = "answered" => r \in context[t]

\* Nothing is left of a deleted session in chat_messages, although the turns
\* that the deletion has cancelled go on saving rows for a while.
DeletedLeavesNoRows == ~exists => rows = {}

Log == INSTANCE SessionLog WITH
  log <- rows, owner <- lock, over <- {t \in Turns : pc[t] \in Ended}

\* The session is written by one turn at a time.
OneTurnAtATime == Log!Spec

\* Whatever the turns before it do, a turn that waits for the session ends.
EveryTurnEnds == \A t \in Turns : pc[t] = "queued" ~> pc[t] \in Ended

\* compact_session's "the messages before compacted_before_seq are replaced by
\* the summary" (orchestrator.rs:1714).
HiddenAreSummarised == \A r \in rows : r.seq <= boundary => r \in summary
=============================================================================
