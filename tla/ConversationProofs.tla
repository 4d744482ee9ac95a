------------------------- MODULE ConversationProofs -------------------------
(***************************************************************************)
(* What holds of a session for any number of turns, rows and commands: the *)
(* lock and the token belong together, answered turns are seen by later    *)
(* ones, a deleted session stays empty, and the session implements         *)
(* SessionLog.                                                             *)
(***************************************************************************)
EXTENDS Conversation, TLAPS, WellFoundedInduction

-----------------------------------------------------------------------------
(* the lock                                                                *)

\* The turn that holds the lock is the one whose token is registered, and the
\* only one past the lock.
LockInv ==
  /\ lock \in Turns \cup {Nobody}
  /\ token = lock
  /\ pc \in [Turns -> PC]
  /\ \A t \in Turns : pc[t] \in Holding <=> lock = t

LEMMA LockInit == Init => LockInv
<1> SUFFICES ASSUME Init PROVE LockInv
  OBVIOUS
<1> QED
  BY ConstantsOK DEF Init, LockInv, PC, Holding, Loaded, Ended

LEMMA LockNext == LockInv /\ [Next]_vars => LockInv'
<1> SUFFICES ASSUME LockInv, [Next]_vars PROVE LockInv'
  OBVIOUS
<1> USE ConstantsOK DEF LockInv, PC, Holding, Loaded, Ended, Goto
<1>1. CASE UNCHANGED vars
  BY <1>1 DEF vars, mutex
<1>2. ASSUME NEW t \in Turns, Send(t) PROVE LockInv'
  BY <1>2 DEF Send
<1>3. ASSUME NEW t \in Turns, Acquire(t) PROVE LockInv'
  BY <1>3 DEF Acquire
<1>4. ASSUME NEW t \in Turns,
             \/ ReadBoundary(t) \/ LoadRest(t) \/ LoadCached(t) \/ LoadRows(t)
             \/ PutCache(t) \/ KeepHistory(t) \/ CompactHistory(t)
             \/ CompactedHistory(t) \/ Reload(t) \/ LoadAgain(t)
      PROVE  LockInv'
  BY <1>4 DEF ReadBoundary, LoadRest, LoadCached, LoadRows, Load, PutCache,
              KeepHistory, CompactHistory, CompactedHistory, Reload, LoadAgain, mutex
<1>5. ASSUME NEW t \in Turns,
             \/ RecordTurn(t) \/ SaveMessage(t) \/ AddRow(t)
             \/ PassFirst(t) \/ CutHistory(t) \/ CutSummary(t)
      PROVE  LockInv'
  BY <1>5 DEF RecordTurn, SaveMessage, AddRow, SaveRow, PassFirst, CutHistory,
              CutSummary, mutex
<1>6. ASSUME NEW t \in Turns, Answer(t) \/ Fail(t) \/ Abandon(t)
      PROVE  LockInv'
  BY <1>6 DEF Answer, Fail, Abandon, Leave
<1>7. ASSUME NEW t \in Turns, Digest(t) PROVE LockInv'
  BY <1>7 DEF Digest, ReadDigest, WriteDigest, ReadOutline, WriteOutline, mutex
<1>8. CASE UserStep \/ Expire
  BY <1>8 DEF UserStep, Stop, Clear, CutFrom, BeginDelete, DeleteSession,
              PopCache, UserCompacts, UserCompacted, Truncate, Expire, mutex
<1> QED
  BY <1>1, <1>2, <1>3, <1>4, <1>5, <1>6, <1>7, <1>8
     DEF Next, Turn, Prepare, Run

LEMMA LockAlways == Spec => []LockInv
  BY LockInit, LockNext, PTL DEF Spec

LEMMA CancelledStep ==
  ASSUME Next
  PROVE  cancelled' \subseteq cancelled \cup ({token} \cap Turns)
         \/ (Stop /\ cancelled' = cancelled \cup {token})
BY DEF Next, Turn, Prepare, Run, Digest, UserStep, Send, Acquire, ReadBoundary,
       LoadRest, LoadCached, LoadRows, Load, PutCache, KeepHistory,
       CompactHistory, CompactedHistory, Reload, LoadAgain, RecordTurn,
       SaveMessage, AddRow, SaveRow, PassFirst, CutHistory, CutSummary, Answer, Fail,
       Abandon, Leave, ReadDigest, WriteDigest, ReadOutline, WriteOutline, Stop, Clear, CutFrom,
       BeginDelete, DeleteSession, PopCache, UserCompacts, UserCompacted,
       Truncate, Expire

\* cancel_session and the handler that deletes a session cancel the turn that
\* has the session at that moment.
THEOREM StopsHitRunningTurns == Spec => StopHitsRunningTurn
<1>1. LockInv /\ [Next]_vars =>
        [\A t \in cancelled' \ cancelled : lock = t /\ pc[t] \in Holding]_vars
  <2> SUFFICES ASSUME LockInv, Next, NEW t \in cancelled' \ cancelled
               PROVE  lock = t /\ pc[t] \in Holding
    OBVIOUS
  <2>1. t = token /\ t \in Turns
    BY CancelledStep DEF Stop, LockInv
  <2> QED
    BY <2>1 DEF LockInv
<1> QED
  BY <1>1, LockAlways, PTL DEF Spec, StopHitsRunningTurn

-----------------------------------------------------------------------------
(* the rows                                                                *)

\* A step that does not save a row leaves no new ones.
LEMMA RowsStep ==
  ASSUME Next
  PROVE  \/ rows' \subseteq rows
         \/ \E t \in Turns : (SaveMessage(t) \/ AddRow(t)) /\ exists
BY DEF Next, Turn, Prepare, Run, Digest, UserStep, Send, Acquire, ReadBoundary,
       LoadRest, LoadCached, LoadRows, Load, PutCache, KeepHistory,
       CompactHistory, CompactedHistory, Reload, LoadAgain, RecordTurn,
       SaveMessage, AddRow, SaveRow, PassFirst, CutHistory, CutSummary, Answer, Fail,
       Abandon, Leave, ReadDigest, WriteDigest, ReadOutline, WriteOutline, Stop, Clear, CutFrom,
       BeginDelete, DeleteSession, PopCache, UserCompacts, UserCompacted,
       Truncate, Latest, Expire, session

\* Only the deletion of the session's row changes exists.
LEMMA ExistsStep ==
  ASSUME Next
  PROVE  exists' = exists \/ (exists' = FALSE /\ rows' = {})
BY DEF Next, Turn, Prepare, Run, Digest, UserStep, Send, Acquire, ReadBoundary,
       LoadRest, LoadCached, LoadRows, Load, PutCache, KeepHistory,
       CompactHistory, CompactedHistory, Reload, LoadAgain, RecordTurn,
       SaveMessage, AddRow, SaveRow, PassFirst, CutHistory, CutSummary, Answer, Fail,
       Abandon, Leave, ReadDigest, WriteDigest, ReadOutline, WriteOutline, Stop, Clear, CutFrom,
       BeginDelete, DeleteSession, PopCache, UserCompacts, UserCompacted,
       Truncate, Expire, session

\* A turn that is still running when its session is deleted leaves no rows.
THEOREM DeletedSessionsStayEmpty == Spec => []DeletedLeavesNoRows
<1>1. Init => DeletedLeavesNoRows
  BY DEF Init, DeletedLeavesNoRows
<1>2. DeletedLeavesNoRows /\ [Next]_vars => DeletedLeavesNoRows'
  <2> SUFFICES ASSUME DeletedLeavesNoRows, [Next]_vars
               PROVE  DeletedLeavesNoRows'
    OBVIOUS
  <2>1. CASE Next
    <3>1. CASE exists' = FALSE /\ rows' = {}
      BY <3>1 DEF DeletedLeavesNoRows
    <3>2. CASE exists' = exists /\ exists
      BY <3>2 DEF DeletedLeavesNoRows
    <3>3. CASE exists' = exists /\ ~exists
      BY <2>1, <3>3, RowsStep DEF DeletedLeavesNoRows
    <3> QED
      BY <2>1, <3>1, <3>2, <3>3, ExistsStep
  <2>2. CASE UNCHANGED vars
    BY <2>2 DEF vars, session, DeletedLeavesNoRows
  <2> QED
    BY <2>1, <2>2
<1> QED
  BY <1>1, <1>2, PTL DEF Spec

-----------------------------------------------------------------------------
(* the cache                                                               *)

\* Every row of an answered turn is in the cache entry, if there is one, and
\* in a list that is about to be put there.
CacheInv ==
  /\ \A r \in rows : r.turn \in Turns
  /\ cache # NotCached =>
       \A r \in rows : pc[r.turn] = "answered" => r \in cache
  /\ \A t \in Turns : pc[t] = "put" =>
       \A r \in rows : pc[r.turn] = "answered" => r \in context[t]

\* context and from are functions on the turns.
ShapeInv ==
  /\ context = [t \in Turns |-> context[t]]
  /\ from = [t \in Turns |-> from[t]]

SeenInv == LockInv /\ ShapeInv /\ CacheInv /\ AnswersAreSeen

LEMMA SeenInit == Init => SeenInv
<1> SUFFICES ASSUME Init PROVE SeenInv
  OBVIOUS
<1>1. LockInv
  BY LockInit
<1> QED
  BY <1>1 DEF SeenInv, ShapeInv, CacheInv, AnswersAreSeen, Init, Loaded

\* Whatever leaves the rows and the turn's history alone, or takes rows away.
LEMMA SeenKept ==
  ASSUME SeenInv, rows' \subseteq rows,
         UNCHANGED <<pc, context, from>>,
         cache' = cache \/ cache' = NotCached,
         LockInv'
  PROVE  SeenInv'
BY DEF SeenInv, ShapeInv, CacheInv, AnswersAreSeen, After

\* A turn moves on and its history stays; it does not start to work with it.
LEMMA SeenMoves ==
  ASSUME SeenInv, LockInv', NEW t \in Turns,
         UNCHANGED <<rows, context>>, cache' = cache \/ cache' = NotCached,
         pc' = [pc EXCEPT ![t] = pc'[t]],
         pc'[t] \notin {"answered", "put"},
         from' = from \/ (from' = [from EXCEPT ![t] = from'[t]] /\ pc'[t] \notin Loaded),
         pc'[t] \in Loaded => pc[t] \in Loaded
  PROVE  SeenInv'
<1> USE DEF SeenInv, LockInv, ShapeInv
<1>1. \A u \in Turns : pc'[u] = "answered" => pc[u] = "answered"
  OBVIOUS
<1>2. CacheInv'
  BY <1>1 DEF CacheInv
<1>3. ASSUME NEW u \in Turns, pc'[u] \in Loaded,
             NEW r \in After(rows', from'[u]), pc'[r.turn] = "answered"
      PROVE  r \in context'[u]
  <2>1. pc[u] \in Loaded /\ from'[u] = from[u]
    BY <1>3
  <2>2. r \in After(rows, from[u]) /\ pc[r.turn] = "answered"
    BY <1>1, <1>3, <2>1 DEF After, CacheInv
  <2> QED
    BY <2>1, <2>2 DEF AnswersAreSeen
<1> QED
  BY <1>2, <1>3 DEF AnswersAreSeen

\* A turn has its history: all rows, the rows behind its boundary, or what is
\* in the cache.
LEMMA SeenLoads ==
  ASSUME SeenInv, LockInv', NEW t \in Turns,
         UNCHANGED <<rows, cache>>,
         pc' = [pc EXCEPT ![t] = pc'[t]], pc'[t] # "answered",
         context' = [context EXCEPT ![t] = context'[t]],
         from' = [from EXCEPT ![t] = from'[t]],
         \A r \in After(rows, from'[t]) : pc[r.turn] = "answered" => r \in context'[t],
         pc'[t] = "put" => context'[t] = rows
  PROVE  SeenInv'
<1> USE DEF SeenInv, LockInv, ShapeInv
<1>1. \A u \in Turns : pc'[u] = "answered" => pc[u] = "answered"
  OBVIOUS
<1>2. CacheInv'
  BY <1>1 DEF CacheInv
<1>3. ASSUME NEW u \in Turns, pc'[u] \in Loaded,
             NEW r \in After(rows', from'[u]), pc'[r.turn] = "answered"
      PROVE  r \in context'[u]
  <2>1. pc[r.turn] = "answered"
    BY <1>1, <1>3 DEF After, CacheInv
  <2>2. CASE u = t
    BY <1>3, <2>1, <2>2
  <2>3. CASE u # t
    BY <1>3, <2>1, <2>3 DEF AnswersAreSeen
  <2> QED
    BY <2>2, <2>3
<1> QED
  BY <1>2, <1>3 DEF AnswersAreSeen

\* The row that is added is of a turn that is not yet answered.
LEMMA SeenSaves ==
  ASSUME SeenInv, LockInv', NEW t \in Turns, SaveMessage(t) \/ AddRow(t)
  PROVE  SeenInv'
<1> USE DEF SeenInv, LockInv, ShapeInv
<1>1. /\ UNCHANGED <<cache, context, from>>
      /\ pc[t] \in {"save", "loop"}
      /\ pc' = [pc EXCEPT ![t] = pc'[t]] /\ pc'[t] \in {"first", "loop"}
      /\ \A r \in rows' : r \in rows \/ r.turn = t
  BY DEF SaveMessage, AddRow, SaveRow, Goto, memo
<1>2. \A r \in rows' : r.turn \in Turns /\
                       (pc'[r.turn] = "answered" => r \in rows /\ pc[r.turn] = "answered")
  BY <1>1 DEF CacheInv
<1>3. CacheInv'
  BY <1>1, <1>2 DEF CacheInv
<1>4. AnswersAreSeen'
  BY <1>1, <1>2 DEF AnswersAreSeen, After, Loaded
<1> QED
  BY <1>1, <1>3, <1>4

\* The reply drops the cache entry, and nobody else works with a history.
LEMMA SeenAnswers ==
  ASSUME SeenInv, LockInv', NEW t \in Turns, Answer(t)
  PROVE  SeenInv'
<1> USE DEF SeenInv, LockInv
<1>1. lock = t /\ lock' = Nobody /\ cache' = NotCached /\ rows' = rows
  BY DEF Answer, Leave, Holding, Loaded, session
<1>2. \A u \in Turns : pc'[u] \notin Holding
  BY <1>1, ConstantsOK
<1>3. ShapeInv'
  BY DEF Answer, Leave, ShapeInv
<1> QED
  BY <1>1, <1>2, <1>3 DEF CacheInv, AnswersAreSeen, Holding, Loaded

LEMMA SeenLeaves ==
  ASSUME SeenInv, LockInv', NEW t \in Turns, Fail(t) \/ Abandon(t)
  PROVE  SeenInv'
<1> USE DEF SeenInv, LockInv, ShapeInv
<1>1. /\ UNCHANGED <<rows, cache>>
      /\ pc' = [pc EXCEPT ![t] = "failed"]
      /\ context' = [context EXCEPT ![t] = {}]
      /\ from' = [from EXCEPT ![t] = 0]
  BY DEF Fail, Abandon, Leave, session, memo
<1>2. \A u \in Turns : u # t => pc'[u] = pc[u] /\ context'[u] = context[u]
                                /\ from'[u] = from[u]
  BY <1>1
<1>3. pc'[t] = "failed"
  BY <1>1
<1>4. \A u \in Turns : pc'[u] = "answered" => pc[u] = "answered"
  BY <1>2, <1>3
<1>5. CacheInv'
  BY <1>1, <1>2, <1>3, <1>4 DEF CacheInv
<1>6. AnswersAreSeen'
  <2> SUFFICES ASSUME NEW u \in Turns, pc'[u] \in Loaded,
                      NEW r \in After(rows', from'[u]), pc'[r.turn] = "answered"
               PROVE  r \in context'[u]
    BY DEF AnswersAreSeen
  <2>1. u # t
    BY <1>3 DEF Loaded
  <2> QED
    BY <1>1, <1>2, <1>4, <2>1 DEF AnswersAreSeen, CacheInv, After
<1> QED
  BY <1>1, <1>5, <1>6

LEMMA SeenNext == SeenInv /\ [Next]_vars => SeenInv'
<1> SUFFICES ASSUME SeenInv, [Next]_vars PROVE SeenInv'
  OBVIOUS
<1> LockInv'
  BY LockNext DEF SeenInv
<1> USE DEF Goto
<1>1. CASE UNCHANGED vars
  BY <1>1, SeenKept DEF vars, session, memo, local
<1>2. ASSUME NEW t \in Turns,
             \/ Send(t) \/ Acquire(t) \/ ReadBoundary(t) \/ KeepHistory(t)
             \/ CompactHistory(t) \/ CompactedHistory(t) \/ Reload(t)
             \/ RecordTurn(t) \/ PassFirst(t) \/ CutHistory(t) \/ CutSummary(t)
      PROVE  SeenInv'
  <2>1. /\ UNCHANGED <<rows, context>>
        /\ cache' = cache \/ cache' = NotCached
        /\ pc' = [pc EXCEPT ![t] = pc'[t]]
        /\ pc'[t] \notin {"answered", "put"}
        /\ from' = from \/ (from' = [from EXCEPT ![t] = from'[t]] /\ pc'[t] \notin Loaded)
        /\ pc'[t] \in Loaded => pc[t] \in Loaded
    BY <1>2 DEF SeenInv, LockInv, ShapeInv, Send, Acquire, ReadBoundary,
       KeepHistory, CompactHistory, CompactedHistory, FinishCompaction,
       Reload, RecordTurn, PassFirst, CutHistory, CutSummary, session, local,
       Loaded
  <2> QED
    BY <2>1, SeenMoves
<1>3. ASSUME NEW t \in Turns,
             LoadRest(t) \/ LoadCached(t) \/ LoadRows(t) \/ LoadAgain(t)
      PROVE  SeenInv'
  <2>1. /\ UNCHANGED <<rows, cache>>
        /\ pc' = [pc EXCEPT ![t] = pc'[t]] /\ pc'[t] # "answered"
        /\ context' = [context EXCEPT ![t] = context'[t]]
        /\ from' = [from EXCEPT ![t] = from'[t]]
        /\ pc'[t] = "put" => context'[t] = rows
    BY <1>3 DEF SeenInv, LockInv, ShapeInv, LoadRest, LoadCached, LoadRows,
       Load, LoadAgain, session, memo
  <2>2. \A r \in After(rows, from'[t]) : pc[r.turn] = "answered" => r \in context'[t]
    BY <1>3 DEF SeenInv, LockInv, ShapeInv, CacheInv, LoadRest, LoadCached,
       LoadRows, Load, LoadAgain, After
  <2> QED
    BY <2>1, <2>2, SeenLoads
<1>4. ASSUME NEW t \in Turns, PutCache(t) PROVE SeenInv'
  <2>1. /\ UNCHANGED <<rows, context, from>> /\ cache' = context[t]
        /\ pc[t] = "put" /\ pc' = [pc EXCEPT ![t] = "compose"]
    BY <1>4 DEF PutCache, session, local
  <2>2. /\ \A u \in Turns : pc'[u] = "answered" => pc[u] = "answered"
        /\ \A u \in Turns : pc'[u] = "put" => pc[u] = "put"
        /\ \A u \in Turns : pc'[u] \in Loaded => pc[u] \in Loaded
    BY <2>1 DEF SeenInv, LockInv, Loaded
  <2> QED
    BY <2>1, <2>2 DEF SeenInv, ShapeInv, CacheInv, AnswersAreSeen, After
<1>5. ASSUME NEW t \in Turns, Run(t) \/ Abandon(t) PROVE SeenInv'
  BY <1>2, <1>5, SeenSaves, SeenAnswers, SeenLeaves DEF Run
<1>6. ASSUME NEW t \in Turns, Digest(t) PROVE SeenInv'
  BY <1>6, SeenKept DEF Digest, ReadDigest, WriteDigest, ReadOutline, WriteOutline, session, memo, local
<1>7. CASE UserStep \/ Expire
  <2>1. /\ rows' \subseteq rows /\ UNCHANGED <<pc, context, from>>
        /\ cache' = cache \/ cache' = NotCached
    BY <1>7 DEF UserStep, Stop, Clear, CutFrom, BeginDelete, DeleteSession,
       PopCache, UserCompacts, UserCompacted, FinishCompaction, Truncate,
       Latest, Expire, session, memo, local
  <2> QED
    BY <2>1, SeenKept
<1> QED
  BY <1>1, <1>2, <1>3, <1>4, <1>5, <1>6, <1>7 DEF Next, Turn, Prepare

\* The cache of ten seconds never hides the rows of an answered turn from a
\* later one, however many turns, commands and compactions there are.
THEOREM AnsweredTurnsAreSeen == Spec => []AnswersAreSeen
<1>1. SeenInv => AnswersAreSeen
  BY DEF SeenInv
<1> QED
  BY <1>1, SeenInit, SeenNext, PTL DEF Spec

-----------------------------------------------------------------------------
(* the abstract session                                                    *)

\* A turn that goes from one place to another and has not ended.
LEMMA OverKept ==
  ASSUME LockInv, NEW t \in Turns, pc' = [pc EXCEPT ![t] = pc'[t]],
         pc[t] \notin Ended, pc'[t] \notin Ended
  PROVE  {u \in Turns : pc'[u] \in Ended} = {u \in Turns : pc[u] \in Ended}
<1>1. \A u \in Turns : pc'[u] \in Ended <=> pc[u] \in Ended
  BY DEF LockInv
<1> QED
  BY <1>1

LEMMA LeaveCloses ==
  ASSUME LockInv, NEW t \in Turns, pc[t] \notin Ended, UNCHANGED rows,
         Leave(t, "answered") \/ Leave(t, "failed")
  PROVE  Log!Close(t)
<1>1. \A u \in Turns : pc'[u] \in Ended <=> pc[u] \in Ended \/ u = t
  BY DEF Leave, LockInv, Ended
<1>2. {u \in Turns : pc'[u] \in Ended} = {u \in Turns : pc[u] \in Ended} \cup {t}
  BY <1>1
<1> QED
  BY <1>2 DEF Leave, Log!Close

LEMMA LogNext == LockInv /\ [Next]_vars => [Log!Next]_(Log!vars)
<1> SUFFICES ASSUME LockInv, [Next]_vars PROVE [Log!Next]_(Log!vars)
  OBVIOUS
<1> USE DEF Goto
<1>1. CASE UNCHANGED vars
  BY <1>1 DEF vars, session, mutex, Log!vars
<1>2. ASSUME NEW t \in Turns,
             \/ Send(t) \/ ReadBoundary(t) \/ LoadRest(t) \/ LoadCached(t)
             \/ LoadRows(t) \/ PutCache(t) \/ KeepHistory(t)
             \/ CompactHistory(t) \/ CompactedHistory(t) \/ Reload(t)
             \/ LoadAgain(t) \/ RecordTurn(t) \/ PassFirst(t) \/ CutHistory(t) \/ CutSummary(t)
      PROVE  UNCHANGED Log!vars
  <2>1. /\ UNCHANGED <<rows, lock>>
        /\ pc' = [pc EXCEPT ![t] = pc'[t]]
        /\ pc[t] \notin Ended /\ pc'[t] \notin Ended
    BY <1>2 DEF LockInv, Send, ReadBoundary, LoadRest, LoadCached, LoadRows,
       Load, PutCache, KeepHistory, CompactHistory, CompactedHistory, Reload,
       LoadAgain, RecordTurn, PassFirst, CutHistory, CutSummary, session, mutex, Ended
  <2> QED
    BY <2>1, OverKept DEF Log!vars
<1>3. ASSUME NEW t \in Turns, Acquire(t) PROVE Log!Open(t)
  <2>1. /\ UNCHANGED rows /\ lock = Nobody /\ lock' = t
        /\ pc' = [pc EXCEPT ![t] = pc'[t]]
        /\ pc[t] \notin Ended /\ pc'[t] \notin Ended
    BY <1>3 DEF LockInv, Acquire, session, Ended
  <2> QED
    BY <2>1, OverKept DEF Log!Open
<1>4. ASSUME NEW t \in Turns, SaveMessage(t) \/ AddRow(t)
      PROVE  Log!Write(t) \/ UNCHANGED Log!vars
  <2>1. /\ UNCHANGED lock /\ lock = t
        /\ pc' = [pc EXCEPT ![t] = pc'[t]]
        /\ pc[t] \notin Ended /\ pc'[t] \notin Ended
    BY <1>4 DEF LockInv, SaveMessage, AddRow, SaveRow, mutex, Ended, Holding, Loaded
  <2>2. rows' = rows \/ \E m \in rows' : m.turn = t /\ rows' = rows \cup {m}
    BY <1>4 DEF SaveMessage, AddRow, SaveRow
  <2> QED
    BY <2>1, <2>2, OverKept DEF Log!Write, Log!vars
<1>5. ASSUME NEW t \in Turns, Answer(t) \/ Fail(t) \/ Abandon(t)
      PROVE  Log!Close(t)
  BY <1>5, LeaveCloses DEF Answer, Fail, Abandon, session, Holding, Loaded, Ended
<1>6. CASE UserStep \/ Expire \/ \E t \in Turns : Digest(t)
  <2>1. rows' \subseteq rows /\ UNCHANGED <<lock, pc>>
    BY <1>6 DEF UserStep, Stop, Clear, CutFrom, BeginDelete, DeleteSession,
       PopCache, UserCompacts, UserCompacted, Truncate, Latest, Expire,
       Digest, ReadDigest, WriteDigest, ReadOutline, WriteOutline, session, mutex
  <2> QED
    BY <2>1 DEF Log!Next, Log!Remove
<1> QED
  BY <1>1, <1>2, <1>3, <1>4, <1>5, <1>6
     DEF Next, Turn, Prepare, Run, Log!Next

\* The session implements SessionLog: one turn at a time adds messages, and
\* everything else only takes messages away.
THEOREM SessionImplementsLog == Spec => OneTurnAtATime
<1>1. Init => Log!Init
  BY DEF Init, Log!Init, Ended
<1> QED
  BY <1>1, LockAlways, LogNext, PTL DEF Spec, OneTurnAtATime, Log!Spec

-----------------------------------------------------------------------------
(* the places of the rows                                                  *)

\* Sets of natural numbers have a least element, and bounded ones a greatest.
LEMMA Least ==
  ASSUME NEW U \in SUBSET Nat, U # {}
  PROVE  \E m \in U : \A n \in U : m <= n
<1> DEFINE R == OpToRel(<, Nat)
<1>1. \E m \in U : \A n \in U : ~ (<<n, m>> \in R)
  <2> HIDE DEF R
  <2>1. IsWellFoundedOn(R, Nat)
    BY NatLessThanWellFounded DEF R
  <2> QED
    BY <2>1, WFMin
<1>2. \A m, n \in Nat : ~(<<n, m>> \in R) => m <= n
  BY DEF OpToRel
<1> QED
  BY <1>1, <1>2

LEMMA Greatest ==
  ASSUME NEW S \in SUBSET Nat, 0 \in S,
         NEW b \in Nat, \A n \in S : n <= b
  PROVE  Max(S) \in S /\ \A n \in S : n <= Max(S)
<1> DEFINE U == {m \in Nat : \A n \in S : n <= m}
<1>1. PICK m \in U : \A n \in U : m <= n
  <2>1. U \in SUBSET Nat /\ U # {}
    OBVIOUS
  <2> HIDE DEF U
  <2> QED
    BY <2>1, Least
<1>2. m \in S
  <2> SUFFICES ASSUME m \notin S PROVE FALSE
    OBVIOUS
  <2>1. m # 0 /\ m - 1 \in Nat
    OBVIOUS
  <2>2. \A n \in S : n <= m - 1
    OBVIOUS
  <2>3. m - 1 \in U
    BY <2>1, <2>2
  <2> QED
    BY <1>1, <2>3
<1>3. \E x \in S : \A y \in S : x >= y
  BY <1>2
<1> QED
  BY <1>3 DEF Max

\* There is a greatest place; a turn that does not yet have the lock has no
\* rows, and the rows of the one that has it are behind all others.
RowsInv ==
  /\ LockInv
  /\ \A r \in rows : r.turn \in Turns /\ r.seq \in Nat
  /\ \E b \in Nat : \A r \in rows : r.seq <= b
  /\ \A r \in rows : pc[r.turn] \notin {"idle", "queued"}
  /\ \A r, q \in rows : r.turn = lock /\ q.turn # lock => q.seq < r.seq
  /\ RowsKeepTurns

\* MAX(seq) + 1 is behind every row.
LEMMA NextSeqIsNew ==
  ASSUME RowsInv
  PROVE  NextSeq(rows) \in Nat /\ \A r \in rows : r.seq < NextSeq(rows)
<1> DEFINE S == {0} \cup {r.seq : r \in rows}
<1>1. PICK b \in Nat : \A r \in rows : r.seq <= b
  BY DEF RowsInv
<1>2. S \in SUBSET Nat /\ 0 \in S /\ \A n \in S : n <= b
  BY <1>1 DEF RowsInv
<1>3. Max(S) \in S /\ \A n \in S : n <= Max(S)
  <2> HIDE DEF S
  <2> QED
    BY <1>2, Greatest
<1>4. NextSeq(rows) = 1 + Max(S)
  BY DEF NextSeq
<1>5. Max(S) \in Nat
  BY <1>2, <1>3
<1>6. \A r \in rows : r.seq \in Nat /\ r.seq <= Max(S)
  BY <1>3 DEF RowsInv
<1> HIDE DEF S
<1> QED
  BY <1>4, <1>5, <1>6

\* The lock is given to the turn that acquires it, or given back.
LEMMA LockStep ==
  ASSUME LockInv, Next
  PROVE  /\ \/ lock' \in {lock, Nobody}
            \/ \E t \in Turns : /\ lock' = t /\ pc[t] = "queued" /\ rows' = rows
         /\ \A t \in Turns : pc'[t] \in {"idle", "queued"} =>
                               pc[t] \in {"idle", "queued"}
<1> USE DEF LockInv, Goto
<1>1. ASSUME NEW t \in Turns, Send(t) \/ Acquire(t)
      PROVE  /\ lock' = lock \/ (lock' = t /\ pc[t] = "queued" /\ rows' = rows)
             /\ \A u \in Turns : pc'[u] \in {"idle", "queued"} =>
                                   pc[u] \in {"idle", "queued"}
  BY <1>1 DEF Send, Acquire, session
<1>2. ASSUME NEW t \in Turns, Turn(t) \/ Abandon(t), ~ Acquire(t)
      PROVE  /\ lock' \in {lock, Nobody}
             /\ \A u \in Turns : pc'[u] \in {"idle", "queued"} =>
                                   pc[u] \in {"idle", "queued"}
  BY <1>2 DEF Turn, Prepare, Run, ReadBoundary, LoadRest, LoadCached, LoadRows,
     Load, PutCache, KeepHistory, CompactHistory, CompactedHistory, Reload,
     LoadAgain, RecordTurn, SaveMessage, AddRow, SaveRow, PassFirst, CutHistory,
     CutSummary, Answer, Fail, Abandon, Leave, mutex
<1>3. CASE UserStep \/ Expire \/ \E t \in Turns : Digest(t)
  <2>1. UNCHANGED <<lock, pc>>
    BY <1>3 DEF UserStep, Stop, Clear, CutFrom, BeginDelete, DeleteSession,
       PopCache, UserCompacts, UserCompacted, Truncate, Expire, Digest,
       ReadDigest, WriteDigest, ReadOutline, WriteOutline, mutex
  <2> QED
    BY <2>1
<1> QED
  BY <1>1, <1>2, <1>3 DEF Next, Turn, Prepare

LEMMA RowsInit == Init => RowsInv
<1> SUFFICES ASSUME Init PROVE RowsInv
  OBVIOUS
<1> QED
  BY LockInit DEF RowsInv, RowsKeepTurns, Init

LEMMA RowsSaved ==
  ASSUME RowsInv, LockInv', NEW t \in Turns, SaveMessage(t) \/ AddRow(t), exists
  PROVE  RowsInv'
<1> DEFINE m == [seq |-> NextSeq(rows), turn |-> t, n |-> added'[t]]
<1>1. rows' = rows \cup {m} /\ lock' = lock
  BY DEF SaveMessage, AddRow, SaveRow, mutex
<1>2. m.seq \in Nat /\ m.turn = t /\ \A r \in rows : r.seq < m.seq
  BY NextSeqIsNew
<1>3. lock = t
  BY DEF RowsInv, LockInv, SaveMessage, AddRow, Goto, Holding, Loaded
<1>4. \A u \in Turns : pc'[u] \in {"idle", "queued"} => pc[u] \in {"idle", "queued"}
  BY DEF RowsInv, LockInv, SaveMessage, AddRow, Goto
<1>5. pc'[t] \notin {"idle", "queued"}
  BY DEF RowsInv, LockInv, SaveMessage, AddRow, Goto
<1> HIDE DEF m
<1>6. \A r \in rows' : r.turn \in Turns /\ r.seq \in Nat
  BY <1>1, <1>2 DEF RowsInv
<1>7. \A r \in rows' : r.seq <= m.seq
  BY <1>1, <1>2 DEF RowsInv
<1>8. \A r \in rows' : pc'[r.turn] \notin {"idle", "queued"}
  BY <1>1, <1>2, <1>4, <1>5 DEF RowsInv
<1>9. \A r, q \in rows' : r.turn = lock' /\ q.turn # lock' => q.seq < r.seq
  BY <1>1, <1>2, <1>3 DEF RowsInv
<1>10. RowsKeepTurns'
  <2>1. \A r, q \in rows' : r.seq = q.seq => r = q
    BY <1>1, <1>2 DEF RowsInv, RowsKeepTurns
  <2>2. ASSUME NEW r \in rows', NEW s \in rows', NEW q \in rows',
               r.turn = s.turn, r.seq < q.seq, q.seq < s.seq
        PROVE  q.turn = r.turn
    <3>1. r \in rows /\ q \in rows
      BY <1>1, <1>2, <2>2 DEF RowsInv
    <3>2. CASE s \in rows
      BY <2>2, <3>1, <3>2 DEF RowsInv, RowsKeepTurns
    <3>3. CASE s = m
      BY <1>2, <1>3, <2>2, <3>1, <3>3 DEF RowsInv
    <3> QED
      BY <1>1, <3>2, <3>3
  <2> QED
    BY <2>1, <2>2 DEF RowsKeepTurns
<1> QED
  BY <1>2, <1>6, <1>7, <1>8, <1>9, <1>10 DEF RowsInv

LEMMA RowsRemoved ==
  ASSUME RowsInv, LockInv', Next, rows' \subseteq rows
  PROVE  RowsInv'
<1> USE DEF RowsInv
<1>1. \A r \in rows' : pc'[r.turn] \notin {"idle", "queued"}
  BY LockStep
<1>2. \A r, q \in rows' : r.turn = lock' /\ q.turn # lock' => q.seq < r.seq
  <2>1. CASE lock' = lock
    BY <2>1
  <2>2. CASE lock' = Nobody
    BY <2>2, ConstantsOK
  <2>3. ASSUME NEW t \in Turns, lock' = t, pc[t] = "queued"
        PROVE  \A r \in rows' : r.turn # lock'
    BY <2>3
  <2> QED
    BY <2>1, <2>2, <2>3, LockStep
<1>3. RowsKeepTurns'
  BY DEF RowsKeepTurns
<1> QED
  BY <1>1, <1>2, <1>3

LEMMA RowsNext == RowsInv /\ [Next]_vars => RowsInv'
<1> SUFFICES ASSUME RowsInv, [Next]_vars PROVE RowsInv'
  OBVIOUS
<1> LockInv'
  BY LockNext DEF RowsInv
<1>1. CASE UNCHANGED vars
  BY <1>1 DEF RowsInv, RowsKeepTurns, vars, session, mutex
<1>2. CASE Next
  BY <1>2, RowsStep, RowsSaved, RowsRemoved
<1> QED
  BY <1>1, <1>2

\* No two rows ever have the same place, and the rows of a turn stay together,
\* although every place is computed anew and rows go away under running turns.
THEOREM RowsStayWithTheirTurns == Spec => []RowsKeepTurns
<1>1. RowsInv => RowsKeepTurns
  BY DEF RowsInv
<1> QED
  BY <1>1, RowsInit, RowsNext, PTL DEF Spec
=============================================================================
