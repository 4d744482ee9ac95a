---------------------------- MODULE MemoryStore ----------------------------
(***************************************************************************)
(* The long-term memories of one agent: rows of the table memories with    *)
(* their full-text index (memory/mod.rs), the archive files they move to   *)
(* after a week, the priorities that recalls raise and lower, the evictions*)
(* of the hygiene command and of the learner (agent/memory_eviction.rs,    *)
(* agent/learner.rs), and the lessons the learner appends to MEMORY.md.    *)
(*                                                                         *)
(* Every statement is a transaction of its own and nothing else keeps the  *)
(* tasks apart.  A memory is its id, made of its type and the millisecond: *)
(* each id is given once.  Vectors, which are only ever added, and scores  *)
(* are left out.  A lesson reaches MEMORY.md only: the INSERT of           *)
(* persist_lessons names columns (key, category) the table does not have,  *)
(* and its error is dropped.                                               *)
(***************************************************************************)
EXTENDS Naturals, FiniteSets

CONSTANTS
  Ids,         \* memories
  Alike,       \* a set of sets of memories that start alike
  Writers,     \* turns that write memories, and extractions from the history
  Hygienes,    \* runs of the hygiene command
  Recalls,     \* tasks that record which recalled memories were used
  Learners,    \* tasks that learn from a turn, one lesson each
  HygieneMax,  \* 1000 in the code
  LearnerMax,  \* 500 in the code
  MaxTasks,    \* how many tasks are begun
  MaxCrashes

Low == 0  Normal == 1  High == 2  Critical == 3
Priorities == Low..Critical
Tasks == Writers \cup Hygienes \cup Recalls \cup Learners

VARIABLES
  rows,      \* ids in the table memories
  prio,      \* their priorities
  unused,    \* how often they were recalled for nothing
  aged,      \* ids older than a week
  indexed,   \* ids in memories_fts
  archive,   \* ids in the archive files
  lessons,   \* lessons in MEMORY.md
  task,      \* what each task is doing, with the ids it still has to do
  stored,    \* ids whose store has returned
  evicted,   \* ids an eviction chose
  cut,       \* ids whose store was cut off before it reached the index
  learnt,    \* lessons whose writing is over
  crossed,   \* lessons written while another learner had read the file
  begun,     \* tasks begun
  crashes

table == <<rows, prio, unused>>
file  == <<lessons, learnt, crossed>>
hist  == <<stored, evicted, cut>>
vars  == <<rows, prio, unused, aged, indexed, archive, lessons, task, stored,
           evicted, cut, learnt, crossed, begun, crashes>>

count == <<begun, crashes>>

Idle == [pc |-> "idle", ids |-> {}, more |-> {}]
Is(t, pc) == task[t].pc = pc
Goto(t, pc, ids, more) == task' = [task EXCEPT ![t] = [pc |-> pc, ids |-> ids, more |-> more]]
Return(t) == task' = [task EXCEPT ![t] = Idle]

Begin(t, pc, ids, more) ==
  /\ Is(t, "idle") /\ begun < MaxTasks
  /\ begun' = begun + 1
  /\ Goto(t, pc, ids, more)

Named == UNION {task[w].ids \cup task[w].more : w \in Writers}
Free  == Ids \ (rows \cup archive \cup stored \cup evicted \cup cut \cup Named)

-----------------------------------------------------------------------------
(* Storing                                                                 *)

\* memory_write stores one memory ...
MemoryWrite(w) ==
  /\ \E i \in Free : Begin(w, "row", {i}, {})
  /\ UNCHANGED <<table, aged, indexed, archive, file, hist, crashes>>

\* ... and extract_memories_from_history those the model found, in turn.
ExtractMemories(w) ==
  /\ \E i \in Free : \E rest \in SUBSET (Free \ {i}) :
       rest # {} /\ Begin(w, "row", {i}, rest)
  /\ UNCHANGED <<table, aged, indexed, archive, file, hist, crashes>>

\* A priority of 4 to 10, the default 5 among them, is Critical.
StoreRow(w) ==
  /\ Is(w, "row")
  /\ \E i \in task[w].ids, p \in Priorities :
       /\ rows' = rows \cup {i}
       /\ prio' = [prio EXCEPT ![i] = p]
  /\ Goto(w, "index", task[w].ids, task[w].more)
  /\ UNCHANGED <<unused, aged, indexed, archive, file, hist, count>>

StoreIndex(w) ==
  /\ Is(w, "index")
  /\ indexed' = indexed \cup task[w].ids
  /\ stored' = stored \cup task[w].ids
  /\ IF task[w].more = {} THEN Return(w)
     ELSE \E i \in task[w].more : Goto(w, "row", {i}, task[w].more \ {i})
  /\ UNCHANGED <<table, aged, archive, file, evicted, cut, count>>

Age(i) ==
  /\ i \in rows \ aged
  /\ aged' = aged \cup {i}
  /\ UNCHANGED <<table, indexed, archive, file, task, hist, count>>

-----------------------------------------------------------------------------
(* Recall and feedback                                                     *)

\* The full-text search joins the index with the rows; the archive is read
\* when fewer than three are found.  The hot cache of TieredMemory is new for
\* every turn, and empty.
Found == rows \cap indexed

\* recall_from_archive reads every entry ever appended.
FromArchive == archive
Recalled    == Found \cup (IF Cardinality(Found) < 3 THEN FromArchive ELSE {})

\* The loader puts the best of them, if any scores enough, into the turn's prompt.
Injected == (SUBSET Recalled) \ {{}}

\* check_memory_usage: words of any of them may be in the answer.
Used(seen) == SUBSET seen

\* After a turn the memories put into its prompt are parted into those the
\* answer used and the others.
CheckUsage(r) ==
  /\ \E seen \in Injected : \E used \in Used(seen) :
       Begin(r, "boost", used, seen \ used)
  /\ UNCHANGED <<table, aged, indexed, archive, file, hist, crashes>>

Least(a, b)   == IF a < b THEN a ELSE b
OneLess(a)    == IF a = 0 THEN 0 ELSE a - 1

Boost(r) ==
  /\ Is(r, "boost")
  /\ \/ \E i \in task[r].ids :
          /\ prio' = IF i \in rows THEN [prio EXCEPT ![i] = Least(@ + 1, Critical)] ELSE prio
          /\ Goto(r, "boost", task[r].ids \ {i}, task[r].more)
     \/ /\ task[r].ids = {}
        /\ Goto(r, "count", task[r].more, {})
        /\ UNCHANGED prio
  /\ UNCHANGED <<rows, unused, aged, indexed, archive, file, hist, count>>

\* The counter is not reset when a memory is used.  It stops at MaxUnused.
MaxUnused == 4
CountUnused(r) ==
  /\ Is(r, "count")
  /\ \/ \E i \in task[r].ids :
          /\ unused' = IF i \in rows THEN [unused EXCEPT ![i] = Least(@ + 1, MaxUnused)] ELSE unused
          /\ Goto(r, "ask", {i}, task[r].ids \ {i})
     \/ task[r].ids = {} /\ Return(r) /\ UNCHANGED unused
  /\ UNCHANGED <<rows, prio, aged, indexed, archive, file, hist, count>>

AskUnused(r) ==
  /\ Is(r, "ask")
  /\ IF \E i \in task[r].ids \cap rows : unused[i] >= 3
     THEN Goto(r, "decay", task[r].ids, task[r].more)
     ELSE Goto(r, "count", task[r].more, {})
  /\ UNCHANGED <<table, aged, indexed, archive, file, hist, count>>

Decay(r) ==
  /\ Is(r, "decay")
  /\ \E i \in task[r].ids :
       IF i \in rows THEN /\ prio' = [prio EXCEPT ![i] = OneLess(@)]
                          /\ unused' = [unused EXCEPT ![i] = 0]
       ELSE UNCHANGED <<prio, unused>>
  /\ Goto(r, "count", task[r].more, {})
  /\ UNCHANGED <<rows, aged, indexed, archive, file, hist, count>>

-----------------------------------------------------------------------------
(* Hygiene: eviction, then the archive                                     *)

\* The row of i is deleted; nothing of it is left but the index.
Drop(gone) ==
  /\ rows' = rows \ gone
  /\ prio' = [i \in Ids |-> IF i \in gone THEN 0 ELSE prio[i]]
  /\ unused' = [i \in Ids |-> IF i \in gone THEN 0 ELSE unused[i]]

\* One DELETE takes the lowest priorities first, and never a Critical one.
LowestOf(d) == \A i \in d, j \in rows \ d : prio[j] < Critical => prio[i] <= prio[j]

CountRows(h) ==
  /\ Begin(h, IF Cardinality(rows) > HygieneMax THEN "evict" ELSE "select", rows, {})
  /\ UNCHANGED <<table, aged, indexed, archive, file, hist, crashes>>

EvictByPriority(h) ==
  /\ Is(h, "evict")
  /\ LET minor == {i \in rows : prio[i] < Critical} IN
     \E d \in SUBSET minor :
       /\ Cardinality(d) = Least(Cardinality(task[h].ids) - HygieneMax, Cardinality(minor))
       /\ LowestOf(d)
       /\ Drop(d)
       /\ evicted' = evicted \cup d
       /\ Goto(h, "select", {}, {})
  /\ UNCHANGED <<aged, indexed, archive, file, stored, cut, count>>

ArchiveSelect(h) ==
  /\ Is(h, "select")
  /\ LET old == {i \in rows \cap aged : prio[i] < Critical} IN
     IF old = {} THEN Return(h) ELSE Goto(h, "append", old, old)
  /\ UNCHANGED <<table, aged, indexed, archive, file, hist, count>>

\* Mutant: each row is deleted before its entry is appended.
DeleteFirst(h) ==
  /\ Is(h, "append")
  /\ \/ \E i \in task[h].ids \cap rows : Drop({i}) /\ UNCHANGED <<task, archive>>
     \/ \E i \in task[h].ids \ rows :
          /\ archive' = archive \cup {i}
          /\ Goto(h, "append", task[h].ids \ {i}, task[h].more)
          /\ UNCHANGED table
     \/ task[h].ids = {} /\ Return(h) /\ UNCHANGED <<table, archive>>
  /\ UNCHANGED <<aged, indexed, file, hist, count>>

\* Entries are appended one by one; when one fails the command ends.
ArchiveAppend(h) ==
  /\ Is(h, "append")
  /\ \/ \E i \in task[h].ids :
          /\ archive' = archive \cup {i}
          /\ Goto(h, "append", task[h].ids \ {i}, task[h].more)
     \/ task[h].ids = {} /\ Goto(h, "delete", task[h].more, {}) /\ UNCHANGED archive
     \/ task[h].ids # {} /\ Return(h) /\ UNCHANGED archive
  /\ UNCHANGED <<table, aged, indexed, file, hist, count>>

ArchiveDelete(h) ==
  /\ Is(h, "delete")
  /\ \/ \E i \in task[h].ids :
          /\ Drop({i})
          /\ Goto(h, "unindex", {i}, task[h].ids \ {i})
     \/ task[h].ids = {} /\ Return(h) /\ UNCHANGED table
  /\ UNCHANGED <<aged, indexed, archive, file, hist, count>>

ArchiveUnindex(h) ==
  /\ Is(h, "unindex")
  /\ indexed' = indexed \ task[h].ids
  /\ Goto(h, "delete", task[h].more, {})
  /\ UNCHANGED <<table, aged, archive, file, hist, count>>

-----------------------------------------------------------------------------
(* Learning                                                                *)

\* The model has answered with a lesson; MEMORY.md is read ...
ReadMemoryFile(l) ==
  /\ l \notin learnt
  /\ Begin(l, "write", lessons, {})
  /\ UNCHANGED <<table, aged, indexed, archive, file, hist, crashes>>

\* The page's run_learner does the same, without the evictions.
RunLearner(l) ==
  /\ l \notin learnt
  /\ Begin(l, "note", lessons, {})
  /\ UNCHANGED <<table, aged, indexed, archive, file, hist, crashes>>

\* ... and written back.
Learning == {l \in Learners : task[l].pc \in {"write", "note"}}
Go(l) == IF Is(l, "write") THEN Goto(l, "score", {}, {}) ELSE Return(l)
WriteMemoryFile(l) ==
  /\ l \in Learning
  /\ lessons' = task[l].ids \cup {l}
  /\ learnt' = learnt \cup {l}
  /\ crossed' = crossed \cup (IF Learning = {l} THEN {} ELSE learnt' \cup Learning)
  /\ Go(l)
  /\ UNCHANGED <<table, aged, indexed, archive, hist, count>>

\* run_eviction goes when there are too many: of those that start alike all
\* but the lowest score, Critical or not, and of the lowest scores the minor.
Doubles == {d \in SUBSET rows : \A i \in d : \E g \in Alike : i \in g /\ (g \cap rows) \ d # {}}
Chosen(d, head) == d \cup {i \in head : prio[i] < Critical}
Needed(d) == LET over == Cardinality(rows) - LearnerMax IN
             IF over > Cardinality(d) THEN over - Cardinality(d) ELSE 0

ChooseVictims(l) ==
  /\ Is(l, "score")
  /\ IF Cardinality(rows) <= LearnerMax
     THEN Goto(l, "verify", {}, {}) /\ UNCHANGED evicted
     ELSE \E d \in Doubles : \E head \in SUBSET rows :
          /\ \A g \in Alike : Cardinality((g \cap rows) \ d) <= 1
          /\ Cardinality(head) = Needed(d)
          /\ Goto(l, "remove", Chosen(d, head), {})
          /\ evicted' = evicted \cup Chosen(d, head)
  /\ UNCHANGED <<table, aged, indexed, archive, file, stored, cut, count>>

RemoveVictims(l) ==
  /\ Is(l, "remove")
  /\ \/ \E i \in task[l].ids : Drop({i}) /\ Goto(l, "remove", task[l].ids \ {i}, {})
     \/ task[l].ids = {} /\ Goto(l, "verify", {}, {}) /\ UNCHANGED table
  /\ UNCHANGED <<aged, indexed, archive, file, hist, count>>

\* Memories that name a file which is gone become Low.
VerifyFiles(l) ==
  /\ Is(l, "verify")
  /\ \E gone \in SUBSET rows : prio' = [i \in Ids |-> IF i \in gone THEN Low ELSE prio[i]]
  /\ Return(l)
  /\ UNCHANGED <<rows, unused, aged, indexed, archive, file, hist, count>>

-----------------------------------------------------------------------------
\* The process ends with what its tasks were doing.
Crash ==
  /\ crashes < MaxCrashes
  /\ crashes' = crashes + 1
  /\ task' = [t \in Tasks |-> Idle]
  /\ cut' = cut \cup UNION {task[w].ids : w \in {x \in Writers : Is(x, "index")}}
  /\ UNCHANGED <<table, aged, indexed, archive, file, stored, evicted, begun>>

Init ==
  /\ rows = {} /\ prio = [i \in Ids |-> 0] /\ unused = [i \in Ids |-> 0]
  /\ aged = {} /\ indexed = {} /\ archive = {} /\ lessons = {}
  /\ task = [t \in Tasks |-> Idle]
  /\ stored = {} /\ evicted = {} /\ cut = {} /\ learnt = {} /\ crossed = {}
  /\ begun = 0 /\ crashes = 0

Write(w)   == MemoryWrite(w) \/ ExtractMemories(w) \/ StoreRow(w) \/ StoreIndex(w)
Feedback(r) == CheckUsage(r) \/ Boost(r) \/ CountUnused(r) \/ AskUnused(r) \/ Decay(r)
Hygiene(h) == \/ CountRows(h) \/ EvictByPriority(h) \/ ArchiveSelect(h) \/ ArchiveAppend(h)
              \/ ArchiveDelete(h) \/ ArchiveUnindex(h)
Learn(l)   == \/ ReadMemoryFile(l) \/ RunLearner(l) \/ WriteMemoryFile(l)
              \/ ChooseVictims(l) \/ RemoveVictims(l) \/ VerifyFiles(l)

Next ==
  \/ \E w \in Writers : Write(w)
  \/ \E r \in Recalls : Feedback(r)
  \/ \E h \in Hygienes : Hygiene(h)
  \/ \E l \in Learners : Learn(l)
  \/ \E i \in Ids : Age(i)
  \/ Crash

Spec == Init /\ [][Next]_vars

-----------------------------------------------------------------------------
(* Properties                                                              *)

TypeOK ==
  /\ rows \subseteq Ids /\ prio \in [Ids -> Priorities] /\ unused \in [Ids -> 0..MaxUnused]
  /\ {aged, indexed, archive, stored, evicted, cut} \subseteq SUBSET Ids
  /\ {lessons, learnt, crossed} \subseteq SUBSET Learners
  /\ begun \in 0..MaxTasks /\ crashes \in 0..MaxCrashes

\* A memory whose store has returned is in the table, where the index finds it,
\* or in the archive, or an eviction chose it, whatever the tasks that move and
\* remove rows overlap with and wherever the process ends.  A lesson learnt stays
\* in MEMORY.md, unless two learners had the file in hand at once.
NothingIsLost ==
  /\ stored \subseteq (rows \cap indexed) \cup archive \cup evicted
  /\ learnt \subseteq lessons \cup crossed
=============================================================================
