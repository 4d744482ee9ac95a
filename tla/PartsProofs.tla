----------------------------- MODULE PartsProofs -----------------------------
(***************************************************************************)
(* The safety of the parts that MCParts puts side by side, for any values  *)
(* of the constants.  Each section takes one part: its inductive           *)
(* invariant, the steps that preserve it, and the theorem of the part's    *)
(* own specification.                                                      *)
(***************************************************************************)
EXTENDS MCParts, TLAPS, SequenceTheorems, FiniteSetTheorems, WellFoundedInduction

-----------------------------------------------------------------------------
(* The memories.  Each task that is about to take something away knows     *)
(* that it is elsewhere already.                                           *)

\* What is stored is in two places, and elsewhere when it has gone from one.
Elsewhere == archive \cup evicted
StoreInv  == stored \subseteq rows \cup Elsewhere /\ stored \subseteq indexed \cup Elsewhere

\* A writer that has the index still to do has written its row, for one id at a time.
WriterInv ==
  \A t \in Tasks :
    /\ Is(t, "row") => \A i, j \in task[t].ids : i = j
    /\ Is(t, "index") => task[t].ids \subseteq rows \cup Elsewhere

\* What the hygiene command deletes is in the archive, what a learner deletes has been
\* chosen.
RemoverInv ==
  \A t \in Tasks :
    /\ Is(t, "append") => task[t].more \subseteq task[t].ids \cup archive
    /\ Is(t, "delete") => task[t].ids \subseteq archive
    /\ Is(t, "unindex") => task[t].ids \cup task[t].more \subseteq archive
    /\ Is(t, "remove") => task[t].ids \subseteq evicted

\* A learner with MEMORY.md in hand has every lesson that was written alone.
LessonInv ==
  /\ learnt \subseteq lessons \cup crossed
  /\ \A l \in Learners : l \in Learning => learnt \subseteq task[l].ids \cup crossed

MemoryInv == DOMAIN task = Tasks /\ StoreInv /\ WriterInv /\ RemoverInv /\ LessonInv

\* Nothing is stored and no task is under way.
LEMMA MemoryInit == Init => MemoryInv
BY DEF Init, MemoryInv, StoreInv, WriterInv, RemoverInv, LessonInv, Elsewhere, Learning, Is, Idle

\* Each statement of each task, and the end of the process.
LEMMA MemoryStep == MemoryInv /\ [Next]_vars => MemoryInv'
<1> SUFFICES ASSUME MemoryInv, [Next]_vars PROVE MemoryInv'
  OBVIOUS
<1> USE DEF MemoryInv, StoreInv, WriterInv, RemoverInv, LessonInv, Elsewhere, Learning,
            Is, Goto, Return, Idle, Tasks, table, file, hist, count
<1>1. ASSUME NEW w \in Writers, MemoryWrite(w) \/ ExtractMemories(w) PROVE MemoryInv'
  <2>1. PICK i \in Ids, rest \in SUBSET Ids : Goto(w, "row", {i}, rest)
    BY <1>1 DEF MemoryWrite, ExtractMemories, Begin, Free
  <2>2. UNCHANGED <<rows, prio, unused, aged, indexed, archive, lessons, learnt, crossed,
                    stored, evicted, cut>>
    BY <1>1 DEF MemoryWrite, ExtractMemories
  <2>. QED
    BY <2>1, <2>2
<1>2. ASSUME NEW w \in Writers, StoreRow(w) PROVE MemoryInv'
  BY <1>2 DEF StoreRow
<1>3. ASSUME NEW w \in Writers, StoreIndex(w) PROVE MemoryInv'
  <2>1. CASE task[w].more = {}
    BY <1>3, <2>1 DEF StoreIndex
  <2>2. CASE task[w].more # {}
    <3>1. PICK i : Goto(w, "row", {i}, task[w].more \ {i})
      BY <1>3, <2>2 DEF StoreIndex
    <3>. QED
      BY <1>3, <3>1 DEF StoreIndex
  <2>. QED
    BY <2>1, <2>2
<1>4. ASSUME NEW r \in Recalls, Feedback(r) PROVE MemoryInv'
  <2>1. \E pc1 \in {"boost", "count", "ask", "decay", "idle"} : \E ids, more :
          task' = [task EXCEPT ![r] = [pc |-> pc1, ids |-> ids, more |-> more]]
    <3>1. CASE CheckUsage(r)
      BY <3>1 DEF CheckUsage, Begin
    <3>2. CASE Boost(r)
      <4>1. CASE task[r].ids = {}
        BY <3>2, <4>1 DEF Boost
      <4>2. ASSUME NEW i \in task[r].ids, Goto(r, "boost", task[r].ids \ {i}, task[r].more)
            PROVE  \E ids, more : Goto(r, "boost", ids, more)
        <5> HIDE DEF Goto
        <5>. QED
          BY <4>2
      <4>. QED
        BY <3>2, <4>1, <4>2 DEF Boost
    <3>3. CASE CountUnused(r)
      BY <3>3 DEF CountUnused
    <3>4. CASE AskUnused(r) \/ Decay(r)
      BY <3>4 DEF AskUnused, Decay
    <3>. QED
      BY <1>4, <3>1, <3>2, <3>3, <3>4 DEF Feedback
  <2>2. UNCHANGED <<rows, indexed, archive, lessons, learnt, crossed, stored, evicted>>
    BY <1>4 DEF Feedback, CheckUsage, Begin, Boost, CountUnused, AskUnused, Decay
  <2>. QED
    BY <2>1, <2>2
<1>5. ASSUME NEW h \in Hygienes, CountRows(h) \/ ArchiveSelect(h) PROVE MemoryInv'
  BY <1>5 DEF CountRows, Begin, ArchiveSelect
<1>6. ASSUME NEW h \in Hygienes, EvictByPriority(h) PROVE MemoryInv'
  BY <1>6 DEF EvictByPriority, Drop
<1>7. ASSUME NEW h \in Hygienes, ArchiveAppend(h) PROVE MemoryInv'
  BY <1>7 DEF ArchiveAppend
<1>8. ASSUME NEW h \in Hygienes, ArchiveDelete(h) PROVE MemoryInv'
  <2>1. CASE task[h].ids = {} /\ Return(h) /\ UNCHANGED table
    BY <1>8, <2>1 DEF ArchiveDelete
  <2>2. ASSUME NEW i \in task[h].ids, Drop({i}), Goto(h, "unindex", {i}, task[h].ids \ {i})
        PROVE  MemoryInv'
    <3>1. i \in archive /\ UNCHANGED <<indexed, archive, evicted, stored, lessons, learnt, crossed>>
      BY <1>8 DEF ArchiveDelete
    <3>. QED
      BY <1>8, <2>2, <3>1 DEF ArchiveDelete, Drop
  <2>. QED
    BY <1>8, <2>1, <2>2 DEF ArchiveDelete
<1>9. ASSUME NEW h \in Hygienes, ArchiveUnindex(h) PROVE MemoryInv'
  BY <1>9 DEF ArchiveUnindex
<1>10. ASSUME NEW l \in Learners, ReadMemoryFile(l) \/ RunLearner(l) PROVE MemoryInv'
  BY <1>10 DEF ReadMemoryFile, RunLearner, Begin
<1>11. ASSUME NEW l \in Learners, WriteMemoryFile(l) PROVE MemoryInv'
  BY <1>11 DEF WriteMemoryFile, Go
<1>12. ASSUME NEW l \in Learners, ChooseVictims(l) PROVE MemoryInv'
  <2>1. UNCHANGED <<rows, indexed, archive, stored, lessons, learnt, crossed>>
    BY <1>12 DEF ChooseVictims
  <2>2. CASE Cardinality(rows) <= LearnerMax
    BY <1>12, <2>1, <2>2 DEF ChooseVictims
  <2>3. CASE ~(Cardinality(rows) <= LearnerMax)
    <3>1. PICK d \in Doubles, head \in SUBSET rows :
            /\ Goto(l, "remove", Chosen(d, head), {})
            /\ evicted' = evicted \cup Chosen(d, head)
      <4> HIDE DEF Goto
      <4>. QED
        BY <1>12, <2>3 DEF ChooseVictims
    <3>. QED
      BY <2>1, <3>1
  <2>. QED
    BY <2>2, <2>3
<1>13. ASSUME NEW l \in Learners, RemoveVictims(l) \/ VerifyFiles(l) PROVE MemoryInv'
  <2>1. CASE VerifyFiles(l)
    BY <2>1 DEF VerifyFiles
  <2>2. CASE RemoveVictims(l) /\ task[l].ids = {} /\ Goto(l, "verify", {}, {}) /\ UNCHANGED table
    BY <2>2 DEF RemoveVictims
  <2>3. ASSUME NEW i \in task[l].ids, RemoveVictims(l), Drop({i}),
               Goto(l, "remove", task[l].ids \ {i}, {})
        PROVE  MemoryInv'
    <3>1. i \in evicted /\ UNCHANGED <<indexed, archive, evicted, stored, lessons, learnt, crossed>>
      BY <2>3 DEF RemoveVictims
    <3>. QED
      BY <2>3, <3>1 DEF RemoveVictims, Drop
  <2>. QED
    BY <1>13, <2>1, <2>2, <2>3 DEF RemoveVictims
<1>14. ASSUME NEW i \in Ids, Age(i) PROVE MemoryInv'
  BY <1>14 DEF Age
<1>15. CASE Crash
  BY <1>15 DEF Crash
<1>16. CASE UNCHANGED vars
  BY <1>16 DEF vars
<1>. QED
  BY <1>1, <1>2, <1>3, <1>4, <1>5, <1>6, <1>7, <1>8, <1>9, <1>10, <1>11, <1>12, <1>13,
     <1>14, <1>15, <1>16 DEF Next, Write, Feedback, Hygiene, Learn

\* A stored memory is found by its index, archived or evicted, and a lesson stays in
\* MEMORY.md unless two learners had it in hand: memory_write, archive_old_memories,
\* run_eviction and persist_lessons in any order, any number of them, across crashes.
THEOREM MemoriesAreKept == Spec => []NothingIsLost
<1>1. MemoryInv => NothingIsLost
  BY DEF MemoryInv, StoreInv, LessonInv, Elsewhere, NothingIsLost
<1>. QED
  BY <1>1, MemoryInit, MemoryStep, PTL DEF Spec
-----------------------------------------------------------------------------
(* The streamed answers.  What the page shows grows with what the call of  *)
(* the watched session has received, and is emptied with it.               *)

StreamShape ==
  /\ DOMAIN streamCall = Sessions
  /\ \A s \in Sessions :
       {"pc", "round", "try", "content", "tools", "think", "held"} \subseteq DOMAIN streamCall[s]

InProgress(s) == streamCall[s].pc \in {"request", "streaming", "done"} /\ streamCall[s].round = 0

PageInv ==
  /\ StreamShape
  /\ streamCall[Watched].pc = "idle" => streamCall[Watched].content = <<>>
  /\ InProgress(Watched) /\ ~ cleared => page = streamCall[Watched].content

LEMMA PageInit == Stream!Init => PageInv
<1> SUFFICES ASSUME Stream!Init PROVE PageInv
  OBVIOUS
<1>1. PICK provider \in [Sessions -> Providers] :
        streamCall = [s \in Sessions |->
          [pc |-> "idle", provider |-> provider[s], round |-> 0, try |-> 1,
           content |-> <<>>, tools |-> <<>>, think |-> FALSE, held |-> <<>>, calls |-> {}]]
  BY DEF Stream!Init
<1> QED BY <1>1, StreamAssumption DEF PageInv, StreamShape, InProgress

\* A step of one call keeps the page with the watched one, or clears it.
LEMMA PageStep ==
  ASSUME PageInv, NEW s \in Sessions, StreamShape',
         \A t \in Sessions \ {s} : streamCall'[t] = streamCall[t],
         \/ s # Watched /\ (cleared' \/ UNCHANGED <<page, cleared>>)
         \/ /\ s = Watched /\ streamCall'[s].pc # "idle"
            /\ InProgress(s)' /\ ~ cleared' => page' = streamCall'[s].content
  PROVE  PageInv'
BY StreamAssumption DEF PageInv, InProgress

\* What is added to the answer is added to the page.
LEMMA GrowingStep ==
  ASSUME PageInv, NEW s \in Sessions, NEW pieces, StreamShape',
         \A t \in Sessions \ {s} : streamCall'[t] = streamCall[t],
         streamCall[s].pc = "streaming", streamCall'[s].pc \in {"streaming", "done"},
         streamCall'[s].round = streamCall[s].round,
         streamCall'[s].content = streamCall[s].content \o pieces,
         page' = IF s = Watched THEN page \o pieces ELSE page, cleared' = cleared
  PROVE  PageInv'
BY PageStep DEF PageInv, InProgress

LEMMA PageNext == PageInv /\ [Stream!Next]_(Stream!vars) => PageInv'
<1> SUFFICES ASSUME PageInv, [Stream!Next]_(Stream!vars) PROVE PageInv'
  OBVIOUS
<1> USE DEF Stream!At
<1>0. StreamShape
  BY DEF PageInv
<1>1. ASSUME NEW s \in Sessions, Stream!Send(s) PROVE PageInv'
  <2>1. /\ StreamShape' /\ streamCall'[s].pc = "request"
        /\ streamCall'[s].content = streamCall[s].content
        /\ \A t \in Sessions \ {s} : streamCall'[t] = streamCall[t]
    BY <1>0, <1>1 DEF StreamShape, Stream!Send
  <2>2. streamCall[s].pc = "idle" /\ page' = (IF s = Watched THEN <<>> ELSE page) /\ cleared' = cleared
    BY <1>1 DEF Stream!Send
  <2> QED BY <2>1, <2>2, PageStep DEF PageInv
<1>2. ASSUME NEW s \in Sessions, Stream!Respond(s) PROVE PageInv'
  <2>1. /\ StreamShape' /\ streamCall'[s].pc = "streaming"
        /\ streamCall'[s].content = streamCall[s].content /\ streamCall'[s].round = streamCall[s].round
        /\ \A t \in Sessions \ {s} : streamCall'[t] = streamCall[t]
    BY <1>0, <1>2 DEF StreamShape, Stream!Respond
  <2>2. streamCall[s].pc = "request" /\ UNCHANGED <<page, cleared>>
    BY <1>2 DEF Stream!Respond
  <2> QED BY <2>1, <2>2, PageStep DEF PageInv, InProgress
<1>3. ASSUME NEW s \in Sessions, NEW n, Stream!ReceiveText(s, n), streamCall[s].pc = "streaming",
             cleared' = cleared
      PROVE  PageInv'
  <2>1. PICK f :
          /\ streamCall' = [streamCall EXCEPT ![s].content = @ \o f.shown, ![s].held = f.held,
                                              ![s].think = f.think]
          /\ page' = IF s = Watched THEN page \o f.shown ELSE page
    BY <1>3 DEF Stream!ReceiveText, Stream!Shows
  <2>2. /\ StreamShape' /\ streamCall'[s].pc = streamCall[s].pc
        /\ streamCall'[s].content = streamCall[s].content \o f.shown
        /\ streamCall'[s].round = streamCall[s].round
        /\ \A t \in Sessions \ {s} : streamCall'[t] = streamCall[t]
    BY <1>0, <2>1 DEF StreamShape
  <2> QED BY <1>3, <2>1, <2>2, GrowingStep
<1>4. ASSUME NEW s \in Sessions, NEW n, Stream!ReceiveTool(s, n), streamCall[s].pc = "streaming",
             cleared' = cleared
      PROVE  PageInv'
  <2>1. PICK tools1 : streamCall' = [streamCall EXCEPT ![s].tools = tools1] /\ page' = page
    BY <1>4 DEF Stream!ReceiveTool
  <2>2. /\ StreamShape' /\ streamCall'[s].pc = streamCall[s].pc
        /\ streamCall'[s].content = streamCall[s].content
        /\ streamCall'[s].round = streamCall[s].round
        /\ \A t \in Sessions \ {s} : streamCall'[t] = streamCall[t]
    BY <1>0, <2>1 DEF StreamShape
  <2> QED BY <1>4, <2>1, <2>2, PageStep DEF PageInv, InProgress
<1>5. ASSUME NEW s \in Sessions, Stream!EndOfStream(s) PROVE PageInv'
  <2>1. PICK rest :
          /\ \E calls : streamCall' = [streamCall EXCEPT ![s].pc = "done", ![s].content = @ \o rest,
                                                        ![s].held = <<>>, ![s].calls = calls]
          /\ page' = IF s = Watched THEN page \o rest ELSE page
    BY <1>5 DEF Stream!EndOfStream, Stream!Shows
  <2>2. /\ StreamShape' /\ streamCall'[s].pc = "done"
        /\ streamCall'[s].content = streamCall[s].content \o rest
        /\ streamCall'[s].round = streamCall[s].round
        /\ \A t \in Sessions \ {s} : streamCall'[t] = streamCall[t]
    BY <1>0, <2>1 DEF StreamShape
  <2>3. streamCall[s].pc = "streaming" /\ cleared' = cleared
    BY <1>5 DEF Stream!EndOfStream
  <2> QED BY <2>1, <2>2, <2>3, GrowingStep
<1>6. ASSUME NEW s \in Sessions, Stream!NextRound(s) PROVE PageInv'
  <2>1. /\ StreamShape' /\ streamCall'[s].pc = "request" /\ streamCall'[s].round = 1
        /\ \A t \in Sessions \ {s} : streamCall'[t] = streamCall[t]
    BY <1>0, <1>6 DEF StreamShape, Stream!NextRound, Stream!Retried, Stream!Nothing
  <2>2. UNCHANGED <<page, cleared>>
    BY <1>6 DEF Stream!NextRound
  <2> QED BY <2>1, <2>2, PageStep DEF InProgress
<1>7. ASSUME NEW s \in Sessions, Stream!Retry(s) PROVE PageInv'
  <2>1. /\ StreamShape' /\ streamCall'[s].pc = "request" /\ streamCall'[s].content = <<>>
        /\ \A t \in Sessions \ {s} : streamCall'[t] = streamCall[t]
    BY <1>0, <1>7 DEF StreamShape, Stream!Retry, Stream!Retried, Stream!Forget, Stream!Nothing
  <2>2. page' = <<>> /\ (s # Watched => cleared')
    BY <1>7 DEF Stream!Retry, Stream!Clear
  <2> QED BY <2>1, <2>2, PageStep
<1>8. ASSUME NEW s \in Sessions, Stream!Fail(s) PROVE PageInv'
  <2>1. /\ StreamShape' /\ streamCall'[s].pc = "failed"
        /\ \A t \in Sessions \ {s} : streamCall'[t] = streamCall[t]
    BY <1>0, <1>8 DEF StreamShape, Stream!Fail
  <2>2. UNCHANGED <<page, cleared>>
    BY <1>8 DEF Stream!Fail
  <2> QED BY <2>1, <2>2, PageStep DEF InProgress
<1>9. CASE UNCHANGED Stream!vars
  BY <1>9 DEF Stream!vars, PageInv, StreamShape, InProgress
<1>10. ASSUME NEW s \in Sessions, Stream!Receive(s) PROVE PageInv'
  <2>1. streamCall[s].pc = "streaming" /\ cleared' = cleared
    BY <1>10 DEF Stream!Receive
  <2>2. \E n : Stream!ReceiveTool(s, n) \/ Stream!ReceiveText(s, n)
    BY <1>10 DEF Stream!Receive
  <2> QED BY <2>1, <2>2, <1>3, <1>4
<1>11. ASSUME NEW s \in Sessions,
              Stream!RequestFails(s) \/ Stream!StreamFails(s) \/ Stream!EmptyAnswer(s)
       PROVE  PageInv'
  <2>1. Stream!Retry(s) \/ Stream!Fail(s)
    BY <1>11 DEF Stream!RequestFails, Stream!StreamFails, Stream!EmptyAnswer
  <2> QED BY <2>1, <1>7, <1>8
<1> QED BY <1>1, <1>2, <1>5, <1>6, <1>9, <1>10, <1>11 DEF Stream!Next

\* The page shows the answer that is returned, whatever the server sent and however
\* often it was asked, unless the loop's first round failed or the call of another
\* session has cleared the page.
THEOREM PagesShowAnswers == Stream!Spec => []Stream!PageShowsAnswer
<1>1. PageInv => Stream!PageShowsAnswer
  BY DEF PageInv, InProgress, Stream!PageShowsAnswer, Stream!At
<1> QED BY <1>1, PageInit, PageNext, PTL DEF Stream!Spec

-----------------------------------------------------------------------------
(* What a call has received.  Item by item, the list of text and the lists *)
(* of arguments are those of the definitions Text and Arguments of what    *)
(* has come so far, but for a piece that is held back (Halfway).           *)

Items == [kind : STRING, call : Nat]

\* Whether the model thinks once all of the script has come.
ThoughtAfter(script) ==
  \E k \in 1..Len(script) :
    /\ Stream!Pair(script, k, "open1", "open2")
    /\ \A m \in (k + 2)..Len(script) : ~ Stream!Pair(script, m, "close1", "close2")

\* One more item makes at most one more pair.
LEMMA PairsGrow ==
  ASSUME NEW r \in Seq(Items), NEW x \in Items, NEW k \in Nat \ {0}, NEW a, NEW b
  PROVE  Stream!Pair(Append(r, x), k, a, b) <=>
           \/ Stream!Pair(r, k, a, b)
           \/ k = Len(r) /\ r[k].kind = a /\ x.kind = b
<1> DEFINE g == Append(r, x)
           n == Len(r)
<1>1. /\ n \in Nat /\ DOMAIN g = 1..(n + 1) /\ DOMAIN r = 1..n
      /\ g[n + 1] = x /\ \A i \in 1..n : g[i] = r[i]
  OBVIOUS
<1> HIDE DEF g, n
<1>2. CASE k + 1 \in 1..n
  <2>1. k \in 1..n /\ k + 1 \in 1..(n + 1) /\ k # n
    BY <1>1, <1>2
  <2>2. g[k] = r[k] /\ g[k + 1] = r[k + 1]
    BY <1>1, <1>2, <2>1
  <2>3. Stream!Pair(g, k, a, b) <=> g[k].kind = a /\ g[k + 1].kind = b
    BY <1>1, <2>1 DEF Stream!Pair
  <2>4. Stream!Pair(r, k, a, b) <=> r[k].kind = a /\ r[k + 1].kind = b
    BY <1>1, <1>2, <2>1 DEF Stream!Pair
  <2> QED BY <2>1, <2>2, <2>3, <2>4 DEF g, n
<1>3. CASE k = n
  <2>1. k + 1 \notin 1..n /\ k + 1 \in 1..(n + 1) /\ k \in 1..n
    BY <1>1, <1>3
  <2>2. g[k] = r[k] /\ g[k + 1] = x
    BY <1>1, <1>3, <2>1
  <2> QED BY <1>1, <1>3, <2>1, <2>2 DEF Stream!Pair, g, n
<1>4. CASE k > n
  <2>1. k + 1 \notin 1..n /\ k + 1 \notin 1..(n + 1) /\ k # n
    BY <1>1, <1>4
  <2> QED BY <1>1, <2>1 DEF Stream!Pair, g, n
<1> QED BY <1>1, <1>2, <1>3, <1>4

\* What has come decides which of it is thought, but for the last piece, whether the
\* next is.
LEMMA ThoughtGrows ==
  ASSUME NEW r \in Seq(Items), NEW x \in Items
  PROVE  /\ \A j \in 1..Len(r) : Stream!InThought(Append(r, x), j) <=> Stream!InThought(r, j)
         /\ Stream!InThought(Append(r, x), Len(r) + 1) <=> ThoughtAfter(r)
<1> DEFINE g == Append(r, x)
           n == Len(r)
           Opens(q, k)  == Stream!Pair(q, k, "open1", "open2")
           Closes(q, k) == Stream!Pair(q, k, "close1", "close2")
<1>0. n \in Nat
  OBVIOUS
<1>1. \A k \in Nat \ {0} : k # n => (Opens(g, k) <=> Opens(r, k)) /\ (Closes(g, k) <=> Closes(r, k))
  BY PairsGrow
<1>2. \A k \in Nat \ {0} : Closes(r, k) \/ Opens(r, k) => k + 1 <= n
  BY <1>0 DEF Stream!Pair
<1>2a. \A k \in Nat \ {0} : Closes(r, k) => Closes(g, k)
  BY PairsGrow
<1>2b. \A k \in Nat \ {0} : Opens(r, k) => Opens(g, k)
  BY PairsGrow
<1> HIDE DEF g, n, Opens, Closes
<1>3. ASSUME NEW j \in 1..n PROVE Stream!InThought(g, j) <=> Stream!InThought(r, j)
  <2>1. Stream!InThought(g, j) <=>
          \E k \in 1..j : Opens(g, k) /\ k + 1 < j /\ \A m \in (k + 2)..j : Closes(g, m) => m + 1 >= j
    BY DEF Stream!InThought, Opens, Closes
  <2>2. Stream!InThought(r, j) <=>
          \E k \in 1..j : Opens(r, k) /\ k + 1 < j /\ \A m \in (k + 2)..j : Closes(r, m) => m + 1 >= j
    BY DEF Stream!InThought, Opens, Closes
  <2>3. \A k \in 1..j : k + 1 < j => (Opens(g, k) <=> Opens(r, k))
    BY <1>0, <1>1
  <2>4. \A k \in 1..j : \A m \in (k + 2)..j :
          (Closes(g, m) => m + 1 >= j) <=> (Closes(r, m) => m + 1 >= j)
    BY <1>0, <1>1
  <2> QED BY <2>1, <2>2, <2>3, <2>4
<1>4. Stream!InThought(g, n + 1) <=> ThoughtAfter(r)
  <2>1. Stream!InThought(g, n + 1) <=>
          \E k \in 1..(n + 1) : /\ Opens(g, k) /\ k + 1 < n + 1
                                /\ \A m \in (k + 2)..(n + 1) : Closes(g, m) => m + 1 >= n + 1
    BY DEF Stream!InThought, Opens, Closes
  <2>2. ThoughtAfter(r) <=> \E k \in 1..n : Opens(r, k) /\ \A m \in (k + 2)..n : ~ Closes(r, m)
    BY DEF ThoughtAfter, Opens, Closes, n
  <2>3. ASSUME NEW k \in 1..(n + 1), Opens(g, k), k + 1 < n + 1,
               \A m \in (k + 2)..(n + 1) : Closes(g, m) => m + 1 >= n + 1
        PROVE  k \in 1..n /\ Opens(r, k) /\ \A m \in (k + 2)..n : ~ Closes(r, m)
    <3>1. k \in 1..n /\ Opens(r, k)
      BY <1>0, <1>1, <2>3
    <3>2. ASSUME NEW m \in (k + 2)..n, Closes(r, m) PROVE FALSE
      <4>1. m \in Nat \ {0} /\ m \in (k + 2)..(n + 1)
        BY <1>0
      <4>2. m + 1 <= n /\ Closes(g, m)
        BY <1>2, <1>2a, <3>2, <4>1
      <4> QED BY <1>0, <2>3, <4>1, <4>2
    <3> QED BY <3>1, <3>2
  <2>4. ASSUME NEW k \in 1..n, Opens(r, k), \A m \in (k + 2)..n : ~ Closes(r, m)
        PROVE  /\ k \in 1..(n + 1) /\ Opens(g, k) /\ k + 1 < n + 1
               /\ \A m \in (k + 2)..(n + 1) : Closes(g, m) => m + 1 >= n + 1
    <3>1. k \in 1..(n + 1) /\ Opens(g, k) /\ k + 1 < n + 1
      <4>1. k \in Nat \ {0}
        BY <1>0
      <4> QED BY <1>0, <1>2, <1>2b, <2>4, <4>1
    <3>2. ASSUME NEW m \in (k + 2)..(n + 1), Closes(g, m) PROVE m + 1 >= n + 1
      <4>1. m \in Nat \ {0}
        BY <1>0
      <4>2. CASE m \in (k + 2)..n /\ m # n
        BY <1>1, <2>4, <3>2, <4>1, <4>2
      <4>3. CASE m = n \/ m = n + 1
        BY <1>0, <4>3
      <4> QED BY <1>0, <4>2, <4>3
    <3> QED BY <3>1, <3>2
  <2> QED BY <2>1, <2>2, <2>3, <2>4
<1> QED BY <1>3, <1>4 DEF g, n

\* The last piece and the next are the halves of a tag.
Joins(r, x, a, b) == Len(r) >= 1 /\ r[Len(r)].kind = a /\ x.kind = b

\* A thought is begun and ended by the halves of its tags.
LEMMA ThoughtAfterGrows ==
  ASSUME NEW r \in Seq(Items), NEW x \in Items
  PROVE  ThoughtAfter(Append(r, x)) <=>
           \/ Joins(r, x, "open1", "open2")
           \/ ThoughtAfter(r) /\ ~ Joins(r, x, "close1", "close2")
<1> DEFINE g == Append(r, x)
           n == Len(r)
           Opens(q, k)  == Stream!Pair(q, k, "open1", "open2")
           Closes(q, k) == Stream!Pair(q, k, "close1", "close2")
           Open  == Joins(r, x, "open1", "open2")
           Close == Joins(r, x, "close1", "close2")
<1>0. n \in Nat /\ Len(g) = n + 1
  OBVIOUS
<1>1. \A k \in Nat \ {0} : /\ Opens(g, k) <=> Opens(r, k) \/ (k = n /\ Open)
                           /\ Closes(g, k) <=> Closes(r, k) \/ (k = n /\ Close)
  BY PairsGrow DEF Joins
<1>2. \A k \in Nat \ {0} : /\ Opens(r, k) => k + 1 <= n /\ r[k + 1].kind = "open2" /\ r[k].kind = "open1"
                           /\ Closes(r, k) => k + 1 <= n /\ r[k].kind = "close1"
  BY <1>0 DEF Stream!Pair
<1>2a. (Open => n >= 1 /\ r[n].kind = "open1") /\ (Close => n >= 1 /\ r[n].kind = "close1")
  BY DEF Joins
<1>3. ThoughtAfter(r) <=> \E k \in 1..n : Opens(r, k) /\ \A m \in (k + 2)..n : ~ Closes(r, m)
  BY DEF ThoughtAfter
<1>4. ThoughtAfter(g) <=> \E k \in 1..(n + 1) : Opens(g, k) /\ \A m \in (k + 2)..(n + 1) : ~ Closes(g, m)
  BY <1>0 DEF ThoughtAfter
<1> HIDE DEF g, n, Opens, Closes, Open, Close
<1>5. ASSUME Open PROVE ThoughtAfter(g)
  <2>1. n \in 1..(n + 1) /\ n \in Nat \ {0} /\ \A m \in (n + 2)..(n + 1) : FALSE
    BY <1>0, <1>2a, <1>5
  <2>2. Opens(g, n)
    BY <1>1, <1>5, <2>1
  <2> QED BY <1>4, <2>1, <2>2
<1>6. ASSUME ThoughtAfter(r), ~ Close PROVE ThoughtAfter(g)
  <2>1. PICK k \in 1..n : Opens(r, k) /\ \A m \in (k + 2)..n : ~ Closes(r, m)
    BY <1>3, <1>6
  <2>2. k \in 1..(n + 1) /\ k \in Nat \ {0}
    BY <1>0
  <2>3. Opens(g, k)
    BY <1>1, <2>1, <2>2
  <2>4. ASSUME NEW m \in (k + 2)..(n + 1), Closes(g, m) PROVE FALSE
    <3>1. m \in Nat \ {0}
      BY <2>2
    <3>2. Closes(r, m)
      BY <1>1, <1>6, <2>4, <3>1
    <3>3. m \in (k + 2)..n
      BY <1>0, <1>2, <2>2, <3>1, <3>2
    <3> QED BY <2>1, <3>2, <3>3
  <2> QED BY <1>4, <2>2, <2>3, <2>4
<1>7. ASSUME ThoughtAfter(g), ~ Open PROVE ThoughtAfter(r) /\ ~ Close
  <2>1. PICK k \in 1..(n + 1) : Opens(g, k) /\ \A m \in (k + 2)..(n + 1) : ~ Closes(g, m)
    BY <1>4, <1>7
  <2>2. k \in Nat \ {0} /\ Opens(r, k)
    BY <1>0, <1>1, <1>7, <2>1
  <2>3. k + 1 <= n /\ k \in 1..n /\ r[k + 1].kind = "open2"
    BY <1>0, <1>2, <2>2
  <2>4. ASSUME NEW m \in (k + 2)..n, Closes(r, m) PROVE FALSE
    <3>1. m \in Nat \ {0} /\ m \in (k + 2)..(n + 1)
      BY <1>0, <2>2
    <3> QED BY <1>1, <2>1, <2>4, <3>1
  <2>5. ASSUME Close PROVE FALSE
    <3>1. k + 1 # n
      BY <1>2a, <2>3, <2>5
    <3>2. n \in (k + 2)..(n + 1) /\ n \in Nat \ {0}
      BY <1>0, <2>2, <2>3, <3>1
    <3>3. Closes(g, n)
      BY <1>1, <2>5, <3>2
    <3> QED BY <2>1, <3>2, <3>3
  <2> QED BY <1>3, <2>1, <2>2, <2>3, <2>4, <2>5
<1> QED BY <1>5, <1>6, <1>7 DEF g, Open, Close

\* The last piece is in the thought, unless it begins it.
LEMMA LastIsThought ==
  ASSUME NEW r \in Seq(Items), Len(r) >= 1, r[Len(r)].kind \in {"open1", "close1"}
  PROVE  Stream!InThought(r, Len(r)) <=> ThoughtAfter(r)
<1> DEFINE n == Len(r)
           Opens(k)  == Stream!Pair(r, k, "open1", "open2")
           Closes(k) == Stream!Pair(r, k, "close1", "close2")
<1>0. n \in Nat
  OBVIOUS
<1>1. \A k \in Nat \ {0} : /\ Opens(k) => k + 1 <= n /\ r[k + 1].kind = "open2"
                           /\ Closes(k) => k + 1 <= n /\ r[k + 1].kind = "close2"
  BY <1>0 DEF Stream!Pair
<1>2. ThoughtAfter(r) <=> \E k \in 1..n : Opens(k) /\ \A m \in (k + 2)..n : ~ Closes(m)
  BY DEF ThoughtAfter
<1>3. Stream!InThought(r, n) <=>
        \E k \in 1..n : Opens(k) /\ k + 1 < n /\ \A m \in (k + 2)..n : Closes(m) => m + 1 >= n
  BY DEF Stream!InThought
<1>4. r[n].kind # "open2" /\ r[n].kind # "close2" /\ n >= 1
  OBVIOUS
<1> HIDE DEF n, Opens, Closes
<1>5. \A k \in 1..n : Opens(k) => k + 1 < n
  BY <1>0, <1>1, <1>4
<1>6. ASSUME NEW k \in 1..n, NEW m \in (k + 2)..n
      PROVE  ~ Closes(m) <=> (Closes(m) => m + 1 >= n)
  <2>1. m \in Nat \ {0}
    BY <1>0
  <2>2. Closes(m) => m + 1 < n
    BY <1>0, <1>1, <1>4, <2>1
  <2> QED BY <1>0, <2>1, <2>2
<1> QED BY <1>2, <1>3, <1>5, <1>6 DEF n

\* Which pieces are in a tag.
LEMMA TagsGrow ==
  ASSUME NEW r \in Seq(Items), NEW x \in Items
  PROVE  LET g == Append(r, x) n == Len(r) IN
         /\ \A j \in 1..(n - 1) : Stream!InTag(g, j) <=> Stream!InTag(r, j)
         /\ n >= 1 => (Stream!InTag(g, n) <=>
              \/ Stream!InTag(r, n) \/ Joins(r, x, "open1", "open2")
              \/ Joins(r, x, "close1", "close2") /\ Stream!InThought(r, n))
         /\ Stream!InTag(g, n + 1) <=>
              \/ Joins(r, x, "open1", "open2")
              \/ Joins(r, x, "close1", "close2") /\ Stream!InThought(r, n)
<1> DEFINE g == Append(r, x)
           n == Len(r)
           Opens(q, k)  == Stream!Pair(q, k, "open1", "open2")
           Closes(q, k) == Stream!Pair(q, k, "close1", "close2")
           Open  == Joins(r, x, "open1", "open2")
           Close == Joins(r, x, "close1", "close2")
           Tagged(q, k) == Opens(q, k) \/ (Closes(q, k) /\ Stream!InThought(q, k))
<1>0. n \in Nat /\ DOMAIN r = 1..n /\ DOMAIN g = 1..(n + 1)
  OBVIOUS
<1>1. \A k \in Nat \ {0} : /\ Opens(g, k) <=> Opens(r, k) \/ (k = n /\ Open)
                           /\ Closes(g, k) <=> Closes(r, k) \/ (k = n /\ Close)
  BY PairsGrow DEF Joins
<1>2. \A k \in Nat \ {0} : Opens(r, k) \/ Closes(r, k) => k + 1 <= n
  BY <1>0 DEF Stream!Pair
<1>3. \A k \in 1..n : Stream!InThought(g, k) <=> Stream!InThought(r, k)
  BY ThoughtGrows
<1>4. /\ \A j : Stream!InTag(g, j) <=> \E k \in {j - 1, j} \cap (1..(n + 1)) : Tagged(g, k)
      /\ \A j : Stream!InTag(r, j) <=> \E k \in {j - 1, j} \cap (1..n) : Tagged(r, k)
  BY <1>0 DEF Stream!InTag
<1> HIDE DEF g, n, Opens, Closes, Open, Close
<1>5. \A k \in 1..(n - 1) : Tagged(g, k) <=> Tagged(r, k)
  BY <1>0, <1>1, <1>3
<1>6. n >= 1 => (Tagged(g, n) <=> Open \/ (Close /\ Stream!InThought(r, n)))
  <2> SUFFICES ASSUME n >= 1 PROVE Tagged(g, n) <=> Open \/ (Close /\ Stream!InThought(r, n))
    OBVIOUS
  <2>1. n \in Nat \ {0} /\ n \in 1..n
    BY <1>0
  <2>2. ~ Opens(r, n) /\ ~ Closes(r, n)
    BY <1>0, <1>2, <2>1
  <2> QED BY <1>1, <1>3, <2>1, <2>2
<1>7. ~ Tagged(g, n + 1) /\ (n >= 1 => ~ Tagged(r, n))
  <2>1. n + 1 \in Nat \ {0} /\ ~ (n + 1 + 1 <= n) /\ n + 1 # n /\ ~ (n + 1 <= n)
    BY <1>0
  <2>2. ~ Opens(g, n + 1) /\ ~ Closes(g, n + 1)
    BY <1>1, <1>2, <2>1
  <2>3. n >= 1 => ~ Opens(r, n) /\ ~ Closes(r, n)
    BY <1>0, <1>2, <2>1
  <2> QED BY <2>2, <2>3
<1>8. Open \/ Close => n >= 1
  BY DEF Open, Close, Joins, n
<1> HIDE DEF Tagged
<1>9. ASSUME NEW j \in 1..(n - 1) PROVE Stream!InTag(g, j) <=> Stream!InTag(r, j)
  <2>1. \A k \in {j - 1, j} : k \in 1..(n + 1) <=> k \in 1..n
    BY <1>0
  <2>2. \A k \in {j - 1, j} : k \in 1..n => k \in 1..(n - 1)
    BY <1>0
  <2> QED BY <1>4, <1>5, <2>1, <2>2
<1>10. ASSUME n >= 1
       PROVE  Stream!InTag(g, n) <=> Stream!InTag(r, n) \/ Tagged(g, n)
  <2>1. n \in 1..n /\ n \in 1..(n + 1) /\ (n - 1 \in 1..n <=> n - 1 \in 1..(n + 1))
        /\ (n - 1 \in 1..n => n - 1 \in 1..(n - 1))
    BY <1>0, <1>10
  <2>2. Stream!InTag(g, n) <=> (n - 1 \in 1..n /\ Tagged(g, n - 1)) \/ Tagged(g, n)
    BY <1>4, <2>1
  <2>3. Stream!InTag(r, n) <=> n - 1 \in 1..n /\ Tagged(r, n - 1)
    BY <1>4, <1>7, <1>10, <2>1
  <2> QED BY <1>5, <2>1, <2>2, <2>3
<1>11. Stream!InTag(g, n + 1) <=> n >= 1 /\ Tagged(g, n)
  <2>1. n + 1 - 1 = n /\ (n \in 1..(n + 1) <=> n >= 1)
    BY <1>0
  <2>2. Stream!InTag(g, n + 1) <=> \E k \in {n, n + 1} \cap (1..(n + 1)) : Tagged(g, k)
    <3>1. PICK j : j = n + 1
      OBVIOUS
    <3>2. Stream!InTag(g, j) <=> \E k \in {j - 1, j} \cap (1..(n + 1)) : Tagged(g, k)
      BY <1>4
    <3>3. {j - 1, j} = {n, n + 1}
      BY <1>0, <2>1, <3>1
    <3> QED BY <3>1, <3>2, <3>3
  <2> QED BY <1>7, <2>1, <2>2
<1> QED BY <1>6, <1>8, <1>9, <1>10, <1>11 DEF g, n, Open, Close

TextOf(r) == Stream!Text("openai", r)

\* What of an openai server's text is visible, once one more item has come.
LEMMA TextGrows ==
  ASSUME NEW r \in Seq(Items), NEW x \in Items
  PROVE  LET n == Len(r) IN
         /\ TextOf(r) \subseteq 1..n
         /\ Joins(r, x, "open1", "open2") /\ ~ ThoughtAfter(r) => TextOf(Append(r, x)) = TextOf(r) \ {n}
         /\ ~ ThoughtAfter(r) /\ ~ Joins(r, x, "open1", "open2") /\ x.kind \notin Stream!ToolKinds
              => TextOf(Append(r, x)) = TextOf(r) \cup {n + 1}
         /\ ThoughtAfter(r) \/ x.kind \in Stream!ToolKinds => TextOf(Append(r, x)) = TextOf(r)
<1> DEFINE g == Append(r, x)
           n == Len(r)
           Open  == Joins(r, x, "open1", "open2")
           Close == Joins(r, x, "close1", "close2")
           InTxt(q, j) == /\ q[j].kind \notin Stream!ToolKinds
                          /\ ~ Stream!InThought(q, j) /\ ~ Stream!InTag(q, j)
<1>1. n \in Nat /\ DOMAIN r = 1..n /\ DOMAIN g = 1..(n + 1) /\ g[n + 1] = x /\ \A j \in 1..n : g[j] = r[j]
  OBVIOUS
<1>2. TextOf(r) = {j \in 1..n : InTxt(r, j)} /\ TextOf(g) = {j \in 1..(n + 1) : InTxt(g, j)}
  BY <1>1 DEF TextOf, Stream!Text
<1>3. \A j \in 1..(n - 1) : InTxt(g, j) <=> InTxt(r, j)
  <2> TAKE j \in 1..(n - 1)
  <2>1. j \in 1..n
    BY <1>1
  <2>2. g[j] = r[j] /\ (Stream!InThought(g, j) <=> Stream!InThought(r, j))
    BY <1>1, <2>1, ThoughtGrows
  <2>3. Stream!InTag(g, j) <=> Stream!InTag(r, j)
    BY TagsGrow
  <2> QED BY <2>2, <2>3
<1>4. Close /\ Stream!InThought(r, n) => ThoughtAfter(r)
  BY LastIsThought DEF Joins
<1>5. Open => (Stream!InThought(r, n) <=> ThoughtAfter(r))
  BY LastIsThought DEF Joins
<1>6. n >= 1 => (InTxt(g, n) <=> InTxt(r, n) /\ ~ Open)
  <2> SUFFICES ASSUME n >= 1 PROVE InTxt(g, n) <=> InTxt(r, n) /\ ~ Open
    OBVIOUS
  <2>1. n \in 1..n
    BY <1>1
  <2>2. g[n] = r[n] /\ (Stream!InThought(g, n) <=> Stream!InThought(r, n))
    BY <1>1, <2>1, ThoughtGrows
  <2>3. Stream!InTag(g, n) <=> Stream!InTag(r, n) \/ Open \/ (Close /\ Stream!InThought(r, n))
    BY TagsGrow
  <2> QED BY <2>2, <2>3
<1>7. InTxt(g, n + 1) <=> x.kind \notin Stream!ToolKinds /\ ~ ThoughtAfter(r) /\ ~ Open
  <2>1. Stream!InThought(g, n + 1) <=> ThoughtAfter(r)
    BY ThoughtGrows
  <2>2. Stream!InTag(g, n + 1) <=> Open \/ (Close /\ Stream!InThought(r, n))
    BY TagsGrow
  <2> QED BY <1>1, <1>4, <2>1, <2>2
<1>8. Open => n >= 1 /\ x.kind \notin Stream!ToolKinds
  BY DEF Joins, Stream!ToolKinds, Stream!Arguing, Stream!Naming
<1>9. Open /\ ThoughtAfter(r) => ~ InTxt(r, n)
  BY <1>5
<1> HIDE DEF InTxt, Open, Close, g, n
<1>10. \A j \in 1..(n + 1) : j \in 1..(n - 1) \/ (j = n /\ n >= 1) \/ j = n + 1
  BY <1>1
<1>11. \A j \in TextOf(g) : (j \in TextOf(r) /\ (j = n => ~ Open)) \/ (j = n + 1 /\ InTxt(g, n + 1))
  BY <1>1, <1>2, <1>3, <1>6, <1>10
<1>12. \A j \in TextOf(r) : (j = n /\ Open) \/ j \in TextOf(g)
  BY <1>1, <1>2, <1>3, <1>6, <1>10
<1>13. n + 1 \in TextOf(g) <=> InTxt(g, n + 1)
  BY <1>1, <1>2
<1>14. n \in TextOf(r) => InTxt(r, n)
  BY <1>2
<1>15. TextOf(r) \subseteq 1..n /\ n + 1 \notin TextOf(r)
  BY <1>1, <1>2
<1>16. ASSUME Open, ~ ThoughtAfter(r) PROVE TextOf(g) = TextOf(r) \ {n}
  <2>1. \A j \in TextOf(g) : j \in TextOf(r) \ {n}
    BY <1>7, <1>11, <1>16
  <2> QED BY <1>12, <1>11, <1>7, <1>16, <2>1
<1>17. ASSUME ~ Open, ~ ThoughtAfter(r), x.kind \notin Stream!ToolKinds
       PROVE  TextOf(g) = TextOf(r) \cup {n + 1}
  BY <1>7, <1>11, <1>12, <1>13, <1>17
<1>18. ASSUME ThoughtAfter(r) \/ x.kind \in Stream!ToolKinds PROVE TextOf(g) = TextOf(r)
  BY <1>7, <1>8, <1>9, <1>11, <1>12, <1>14, <1>18
<1> QED BY <1>15, <1>16, <1>17, <1>18 DEF g, n, Open

\* What is held back, at the place h of the answer if there is any, may be half a tag; and
\* it is the last of the visible text.
Halfway(r, think, h) ==
  /\ h \in 0..Len(r)
  /\ think <=> ThoughtAfter(r)
  /\ h # 0 => /\ r[h].kind \in {IF think THEN "close1" ELSE "open1", "lt"}
              /\ r[h].kind # "lt" => h = Len(r)
              /\ ~ think => h \in TextOf(r) /\ \A p \in TextOf(r) : p <= h
  /\ Len(r) >= 1 /\ r[Len(r)].kind = (IF think THEN "close1" ELSE "open1") => h = Len(r)

HeldKindOf(r, h) == IF h = 0 THEN "none" ELSE r[h].kind

\* A piece of text within a thought.
LEMMA ThoughtGoesOn ==
  ASSUME NEW r \in Seq(Items), NEW x \in Items, NEW h, Halfway(r, TRUE, h), x.kind \notin Stream!ToolKinds
  PROVE  /\ TextOf(Append(r, x)) = TextOf(r)
         /\ Halfway(Append(r, x), ~(HeldKindOf(r, h) = "close1" /\ x.kind = "close2"),
                    IF x.kind \in {"close1", "lt"} THEN Len(r) + 1 ELSE 0)
<1> DEFINE g == Append(r, x)
           n == Len(r)
<1>1. n \in Nat /\ Len(g) = n + 1 /\ g[n + 1] = x /\ h \in Nat
  BY DEF Halfway
<1>2. TextOf(g) = TextOf(r)
  BY TextGrows DEF Halfway
<1>3. HeldKindOf(r, h) = "close1" /\ x.kind = "close2" <=> Joins(r, x, "close1", "close2")
  <2>1. h # 0 => h \in 1..n
    BY <1>1 DEF Halfway
  <2> QED BY <1>1, <2>1 DEF Halfway, HeldKindOf, Joins
<1>4. ~ Joins(r, x, "open1", "open2") \/ ~ (x.kind = "close2")
  BY DEF Joins
<1>5. ThoughtAfter(g) <=> ~ (HeldKindOf(r, h) = "close1" /\ x.kind = "close2")
  BY <1>3, <1>4, ThoughtAfterGrows DEF Halfway
<1> HIDE DEF g, n
<1>6. Halfway(g, ~(HeldKindOf(r, h) = "close1" /\ x.kind = "close2"),
              IF x.kind \in {"close1", "lt"} THEN n + 1 ELSE 0)
  <2>1. CASE HeldKindOf(r, h) = "close1" /\ x.kind = "close2"
    BY <1>1, <1>5, <2>1 DEF Halfway
  <2>2. CASE ~ (HeldKindOf(r, h) = "close1" /\ x.kind = "close2")
    BY <1>1, <1>5, <2>2 DEF Halfway
  <2> QED BY <2>1, <2>2
<1> QED BY <1>2, <1>6 DEF g, n

\* A piece of text that begins a thought.
LEMMA ThoughtBegins ==
  ASSUME NEW r \in Seq(Items), NEW x \in Items, NEW h, Halfway(r, FALSE, h),
         HeldKindOf(r, h) = "open1", x.kind = "open2"
  PROVE  TextOf(Append(r, x)) = TextOf(r) \ {h} /\ Halfway(Append(r, x), TRUE, 0)
<1> DEFINE g == Append(r, x)
           n == Len(r)
<1>1. n \in Nat /\ Len(g) = n + 1 /\ g[n + 1] = x
  OBVIOUS
<1>2. h = n /\ n >= 1 /\ r[n].kind = "open1"
  BY <1>1 DEF Halfway, HeldKindOf
<1>3. Joins(r, x, "open1", "open2")
  BY <1>2 DEF Joins
<1>4. TextOf(g) = TextOf(r) \ {h} /\ ThoughtAfter(g)
  BY <1>2, <1>3, TextGrows, ThoughtAfterGrows DEF Halfway
<1> HIDE DEF g
<1> QED BY <1>1, <1>4 DEF Halfway, g

\* Any other piece of text, outside a thought.
LEMMA TextGoesOn ==
  ASSUME NEW r \in Seq(Items), NEW x \in Items, NEW h, Halfway(r, FALSE, h), x.kind \notin Stream!ToolKinds,
         ~ (HeldKindOf(r, h) = "open1" /\ x.kind = "open2")
  PROVE  /\ TextOf(Append(r, x)) = TextOf(r) \cup {Len(r) + 1}
         /\ Halfway(Append(r, x), FALSE, IF x.kind \in {"open1", "lt"} THEN Len(r) + 1 ELSE 0)
<1> DEFINE g == Append(r, x)
           n == Len(r)
<1>1. n \in Nat /\ Len(g) = n + 1 /\ g[n + 1] = x
  OBVIOUS
<1>2. ~ Joins(r, x, "open1", "open2")
  BY <1>1 DEF Halfway, HeldKindOf, Joins
<1>3. TextOf(g) = TextOf(r) \cup {n + 1} /\ ~ ThoughtAfter(g) /\ TextOf(r) \subseteq 1..n
  BY <1>2, TextGrows, ThoughtAfterGrows DEF Halfway
<1> HIDE DEF g, n
<1>4. n + 1 \in TextOf(g) /\ \A p \in TextOf(g) : p <= n + 1
  BY <1>1, <1>3
<1>5. Halfway(g, FALSE, IF x.kind \in {"open1", "lt"} THEN n + 1 ELSE 0)
  BY <1>1, <1>3, <1>4 DEF Halfway
<1> QED BY <1>3, <1>5 DEF g, n

\* A piece of a call, which does not come between the halves of a tag.
LEMMA CallsLeaveText ==
  ASSUME NEW r \in Seq(Items), NEW x \in Items, NEW h, NEW think \in BOOLEAN, Halfway(r, think, h),
         x.kind \in Stream!ToolKinds, Len(r) >= 1 => r[Len(r)].kind \notin {"open1", "close1"}
  PROVE  TextOf(Append(r, x)) = TextOf(r) /\ Halfway(Append(r, x), think, h)
<1> DEFINE g == Append(r, x)
           n == Len(r)
<1>1. n \in Nat /\ Len(g) = n + 1 /\ g[n + 1] = x /\ \A i \in 1..n : g[i] = r[i]
  OBVIOUS
<1>2. ~ Joins(r, x, "open1", "open2") /\ ~ Joins(r, x, "close1", "close2")
  BY DEF Joins
<1>3. TextOf(g) = TextOf(r) /\ (ThoughtAfter(g) <=> ThoughtAfter(r))
  BY <1>2, TextGrows, ThoughtAfterGrows
<1>4. h # 0 => h \in 1..n /\ r[h].kind = "lt"
  <2>1. h # 0 => h \in 1..n /\ n >= 1
    BY <1>1 DEF Halfway
  <2>2. h # 0 => r[h].kind \in {"open1", "close1", "lt"} /\ (r[h].kind # "lt" => h = n)
    BY DEF Halfway
  <2> QED BY <2>1, <2>2
<1> HIDE DEF g, n
<1>5. h \in 0..(n + 1) /\ (h # 0 => g[h].kind = "lt")
  BY <1>1, <1>4 DEF Halfway, n
<1>6. x.kind \notin {"open1", "close1"}
  BY DEF Stream!ToolKinds, Stream!Arguing, Stream!Naming
<1>7. ~ think /\ h # 0 => h \in TextOf(g) /\ \A p \in TextOf(g) : p <= h
  BY <1>3 DEF Halfway
<1>8. think <=> ThoughtAfter(g)
  BY <1>3 DEF Halfway
<1>9. Halfway(g, think, h)
  BY <1>1, <1>5, <1>6, <1>7, <1>8 DEF Halfway
<1> QED BY <1>3, <1>9 DEF g

Pieces == [try : Nat, round : Nat, at : Nat]
PieceOf(c, n) == [try |-> c.try, round |-> c.round, at |-> n]

CallSteps == {"idle", "request", "streaming", "failed", "done"}
Calls == [pc : CallSteps, provider : Providers, round : Nat, try : Nat, content : Seq(Pieces),
          tools : Seq([name : Seq(Pieces), args : Seq(Pieces)]), think : BOOLEAN, held : Seq(Pieces),
          calls : SUBSET [call : Nat, part : Nat \X Nat, name : Seq(Pieces), args : Seq(Pieces)]]

\* The pieces x are of the items at the places P of the answer to c, in their order.
Lists(x, P, c) ==
  /\ x \in Seq(Pieces) /\ P \subseteq Nat /\ IsFiniteSet(P)
  /\ Len(x) = Cardinality(P)
  /\ {x[i] : i \in DOMAIN x} = {PieceOf(c, p) : p \in P}
  /\ \A i, j \in DOMAIN x : i < j => x[i].at < x[j].at

\* The parts of a call that is under way.
LEMMA CallTypes ==
  ASSUME NEW c \in Calls
  PROVE  /\ c.try \in Nat /\ c.round \in Nat /\ c.think \in BOOLEAN /\ c.provider \in Providers
         /\ c.content \in Seq(Pieces) /\ c.held \in Seq(Pieces)
         /\ c.tools \in Seq([name : Seq(Pieces), args : Seq(Pieces)])
BY DEF Calls

\* Nothing is listed of nothing.
LEMMA NothingListed == ASSUME NEW c PROVE Lists(<<>>, {}, c)
BY FS_EmptySet DEF Lists

\* A piece that comes behind all others is added to the list.
LEMMA ListGrows ==
  ASSUME NEW c, c.try \in Nat, c.round \in Nat, NEW P, NEW x, Lists(x, P, c),
         NEW p \in Nat, \A q \in P : q < p
  PROVE  Lists(x \o <<PieceOf(c, p)>>, P \cup {p}, c)
<1> DEFINE e == PieceOf(c, p)
           y == x \o <<e>>
           l == Len(x)
<1>1. e \in Pieces /\ e.at = p /\ <<e>> \in Seq(Pieces)
  BY DEF PieceOf, Pieces
<1>2. x \in Seq(Pieces) /\ l \in Nat /\ DOMAIN x = 1..l
  BY DEF Lists
<1>3. /\ y \in Seq(Pieces) /\ Len(y) = l + 1 /\ DOMAIN y = 1..(l + 1)
      /\ y[l + 1] = e /\ \A i \in 1..l : y[i] = x[i]
  BY <1>1, <1>2
<1>4. p \notin P
  BY DEF Lists
<1>5. IsFiniteSet(P \cup {p}) /\ Cardinality(P \cup {p}) = l + 1
  BY <1>4, FS_AddElement DEF Lists
<1>6. \A i \in 1..l : x[i].at < p
  <2> TAKE i \in 1..l
  <2>1. PICK q \in P : x[i] = PieceOf(c, q)
    BY <1>2 DEF Lists
  <2>2. x[i].at = q
    BY <2>1 DEF PieceOf
  <2> QED BY <2>2
<1>7. \A i \in 1..l : \E q \in P : x[i] = PieceOf(c, q)
  BY <1>2 DEF Lists
<1>8. \A q \in P : \E i \in 1..l : x[i] = PieceOf(c, q)
  BY <1>2 DEF Lists
<1> HIDE DEF y, l, e
<1>9. {y[i] : i \in DOMAIN y} = {PieceOf(c, q) : q \in P \cup {p}}
  <2>1. ASSUME NEW i \in 1..(l + 1) PROVE \E q \in P \cup {p} : y[i] = PieceOf(c, q)
    <3>1. CASE i = l + 1
      BY <1>3, <3>1 DEF e
    <3>2. CASE i # l + 1
      <4>1. i \in 1..l
        BY <1>2, <3>2
      <4> QED BY <1>3, <1>7, <4>1
    <3> QED BY <3>1, <3>2
  <2>2. ASSUME NEW q \in P \cup {p} PROVE \E i \in 1..(l + 1) : y[i] = PieceOf(c, q)
    <3>1. CASE q = p
      <4>1. l + 1 \in 1..(l + 1)
        BY <1>2
      <4> QED BY <1>3, <3>1, <4>1 DEF e
    <3>2. CASE q \in P
      <4>1. PICK i \in 1..l : x[i] = PieceOf(c, q)
        BY <1>8, <3>2
      <4>2. i \in 1..(l + 1) /\ y[i] = x[i]
        BY <1>2, <1>3
      <4> QED BY <4>1, <4>2
    <3> QED BY <3>1, <3>2
  <2>3. DOMAIN y = 1..(l + 1)
    BY <1>3
  <2> QED BY <2>1, <2>2, <2>3
<1>10. \A i, j \in 1..(l + 1) : i < j => y[i].at < y[j].at
  <2> TAKE i, j \in 1..(l + 1)
  <2> SUFFICES ASSUME i < j PROVE y[i].at < y[j].at
    OBVIOUS
  <2>1. i \in 1..l /\ y[i] = x[i]
    BY <1>2, <1>3
  <2>2. CASE j = l + 1
    BY <1>1, <1>3, <1>6, <2>1, <2>2
  <2>3. CASE j # l + 1
    <3>1. j \in 1..l /\ y[j] = x[j]
      BY <1>2, <1>3, <2>3
    <3>2. x[i].at < x[j].at
      BY <1>2, <2>1, <3>1 DEF Lists
    <3> QED BY <2>1, <3>1, <3>2
  <2> QED BY <2>2, <2>3
<1>11. P \cup {p} \subseteq Nat
  BY DEF Lists
<1> QED BY <1>3, <1>5, <1>9, <1>10, <1>11 DEF Lists, y, e

\* A list does not depend on anything else of the call.
LEMMA ListStays ==
  ASSUME NEW c, NEW d, c.try = d.try, c.round = d.round, NEW x, NEW P, Lists(x, P, c)
  PROVE  Lists(x, P, d)
<1>1. \A n : PieceOf(c, n) = PieceOf(d, n)
  BY DEF PieceOf
<1> QED BY <1>1 DEF Lists

\* What a call c has of an openai server's text: the list shown of what is visible, but for
\* what is held back.
Filtered(c, r, think, held, content) ==
  \E h : /\ Halfway(r, think, h)
         /\ held = IF h = 0 THEN <<>> ELSE <<PieceOf(c, h)>>
         /\ Lists(content, IF think THEN TextOf(r) ELSE TextOf(r) \ {h}, c)

\* The text that a call has of what was received.
TextOk(c, r) ==
  IF c.provider = "openai"
  THEN Filtered(c, r, c.think, c.held, c.content)
  ELSE ~ c.think /\ c.held = <<>> /\ Lists(c.content, Stream!Text(c.provider, r), c)

\* With what was held back the text is complete.
LEMMA HeldCompletes ==
  ASSUME NEW c, c.try \in Nat, c.round \in Nat, NEW r \in Seq(Items), NEW held, NEW content,
         Filtered(c, r, FALSE, held, content)
  PROVE  Lists(content \o held, TextOf(r), c) /\ held \in Seq(Pieces)
<1>0. PICK h : /\ Halfway(r, FALSE, h)
               /\ held = IF h = 0 THEN <<>> ELSE <<PieceOf(c, h)>>
               /\ Lists(content, TextOf(r) \ {h}, c)
  BY DEF Filtered
<1>1. TextOf(r) \subseteq Nat \ {0}
  <2>1. TextOf(r) \subseteq DOMAIN r
    BY DEF TextOf, Stream!Text
  <2> QED BY <2>1
<1>2. CASE h = 0
  <2>1. TextOf(r) \ {h} = TextOf(r) /\ held = <<>>
    BY <1>0, <1>1, <1>2
  <2>2. content \in Seq(Pieces)
    BY <1>0 DEF Lists
  <2>3. content \o <<>> = content /\ <<>> \in Seq(Pieces)
    BY <2>2
  <2>4. Lists(content, TextOf(r), c)
    BY <1>0, <2>1
  <2> QED BY <2>1, <2>3, <2>4
<1>3. CASE h # 0
  <2>1. h \in Nat /\ h \in TextOf(r) /\ \A p \in TextOf(r) : p <= h
    BY <1>0, <1>1, <1>3 DEF Halfway
  <2>2. \A p \in TextOf(r) \ {h} : p < h
    BY <1>1, <2>1
  <2>3. (TextOf(r) \ {h}) \cup {h} = TextOf(r)
    BY <2>1
  <2>4. Lists(content \o <<PieceOf(c, h)>>, (TextOf(r) \ {h}) \cup {h}, c)
    BY <1>0, <2>1, <2>2, ListGrows
  <2>5. held = <<PieceOf(c, h)>>
    BY <1>0, <1>3
  <2>6. PieceOf(c, h) \in Pieces
    BY <2>1 DEF PieceOf, Pieces
  <2>7. <<PieceOf(c, h)>> \in Seq(Pieces)
    BY <2>6
  <2>8. Lists(content \o <<PieceOf(c, h)>>, TextOf(r), c)
    BY <2>3, <2>4
  <2> QED BY <2>5, <2>7, <2>8
<1> QED BY <1>2, <1>3

\* Joining lists of pieces.
LEMMA PiecesAssociate ==
  ASSUME NEW p \in Seq(Pieces), NEW q \in Seq(Pieces), NEW z \in Seq(Pieces)
  PROVE  p \o (q \o z) = (p \o q) \o z
OBVIOUS

\* No place is beyond the end.
LEMMA TextIsWithin ==
  ASSUME NEW r \in Seq(Items)
  PROVE  TextOf(r) \subseteq 1..Len(r) /\ 0 \notin TextOf(r) /\ Len(r) + 1 \notin TextOf(r)
<1>1. TextOf(r) \subseteq DOMAIN r
  BY DEF TextOf, Stream!Text
<1> QED BY <1>1

\* A piece of text within a thought.
LEMMA FilteredThought ==
  ASSUME NEW c, c.try \in Nat, c.round \in Nat, NEW r \in Seq(Items), NEW x \in Items,
         NEW h, Halfway(r, TRUE, h), NEW content, Lists(content, TextOf(r), c),
         x.kind \notin Stream!ToolKinds, NEW think \in BOOLEAN,
         think <=> ~(HeldKindOf(r, h) = "close1" /\ x.kind = "close2")
  PROVE  Filtered(c, Append(r, x), think,
                  IF x.kind \in {"close1", "lt"} THEN <<PieceOf(c, Len(r) + 1)>> ELSE <<>>, content)
<1> DEFINE g == Append(r, x)
           n == Len(r)
           k == IF x.kind \in {"close1", "lt"} THEN n + 1 ELSE 0
           held == IF x.kind \in {"close1", "lt"} THEN <<PieceOf(c, n + 1)>> ELSE <<>>
<1>1. held = IF k = 0 THEN <<>> ELSE <<PieceOf(c, k)>>
  <2>1. n + 1 # 0
    OBVIOUS
  <2> QED BY <2>1
<1>2. TextOf(g) = TextOf(r) /\ Halfway(g, think, k)
  <2>1. think = ~(HeldKindOf(r, h) = "close1" /\ x.kind = "close2")
    OBVIOUS
  <2> QED BY <2>1, ThoughtGoesOn
<1>3. k \notin TextOf(r)
  BY TextIsWithin
<1> HIDE DEF k, g, held
<1>4. Lists(content, IF think THEN TextOf(g) ELSE TextOf(g) \ {k}, c)
  <2>1. TextOf(r) \ {k} = TextOf(r)
    BY <1>3
  <2>2. (IF think THEN TextOf(g) ELSE TextOf(g) \ {k}) = TextOf(r)
    BY <1>2, <2>1
  <2> QED BY <2>2
<1>5. Filtered(c, g, think, held, content)
  BY <1>1, <1>2, <1>4 DEF Filtered
<1> QED BY <1>5 DEF g, held

\* A piece of text that begins a thought.
LEMMA FilteredBegins ==
  ASSUME NEW c, NEW r \in Seq(Items), NEW x \in Items,
         NEW h, Halfway(r, FALSE, h), NEW content, Lists(content, TextOf(r) \ {h}, c),
         HeldKindOf(r, h) = "open1", x.kind = "open2"
  PROVE  Filtered(c, Append(r, x), TRUE, <<>>, content)
<1>1. TextOf(Append(r, x)) = TextOf(r) \ {h} /\ Halfway(Append(r, x), TRUE, 0)
  BY ThoughtBegins
<1> QED BY <1>1 DEF Filtered

\* Any other piece of text, outside a thought.
LEMMA FilteredText ==
  ASSUME NEW c, c.try \in Nat, c.round \in Nat, NEW r \in Seq(Items), NEW x \in Items,
         NEW h, Halfway(r, FALSE, h), NEW held, held = IF h = 0 THEN <<>> ELSE <<PieceOf(c, h)>>,
         NEW content, Lists(content, TextOf(r) \ {h}, c),
         x.kind \notin Stream!ToolKinds, ~ (HeldKindOf(r, h) = "open1" /\ x.kind = "open2"),
         NEW here, here = <<PieceOf(c, Len(r) + 1)>>
  PROVE  IF x.kind \in {"open1", "lt"}
         THEN Filtered(c, Append(r, x), FALSE, here, content \o held)
         ELSE Filtered(c, Append(r, x), FALSE, <<>>, content \o (held \o here))
<1> DEFINE g == Append(r, x)
           n == Len(r)
<1>1. Filtered(c, r, FALSE, held, content)
  BY DEF Filtered
<1>2. Lists(content \o held, TextOf(r), c) /\ held \in Seq(Pieces)
  BY <1>1, HeldCompletes
<1>3. TextOf(r) \subseteq 1..n /\ 0 \notin TextOf(r) /\ n + 1 \notin TextOf(r) /\ n \in Nat
  BY TextIsWithin
<1>4. /\ TextOf(g) = TextOf(r) \cup {n + 1}
      /\ Halfway(g, FALSE, IF x.kind \in {"open1", "lt"} THEN n + 1 ELSE 0)
  BY TextGoesOn
<1> HIDE DEF g, n
<1>5. CASE x.kind \in {"open1", "lt"}
  <2>0. (IF x.kind \in {"open1", "lt"} THEN n + 1 ELSE 0) = n + 1
    BY <1>5
  <2>1. Halfway(g, FALSE, n + 1) /\ n + 1 # 0
    <3>1. Halfway(g, FALSE, n + 1)
      BY <1>4, <2>0
    <3>2. n + 1 # 0
      <4>1. n \in Nat
        BY <1>3
      <4> QED BY <4>1
    <3> QED BY <3>1, <3>2
  <2>1a. here = IF n + 1 = 0 THEN <<>> ELSE <<PieceOf(c, n + 1)>>
    BY <2>1 DEF n
  <2>2. TextOf(g) \ {n + 1} = TextOf(r)
    BY <1>3, <1>4
  <2>3. Lists(content \o held, TextOf(g) \ {n + 1}, c)
    BY <1>2, <2>2
  <2>4. Filtered(c, g, FALSE, here, content \o held)
    BY <2>1, <2>1a, <2>3 DEF Filtered
  <2> QED BY <1>5, <2>4 DEF g
<1>6. CASE x.kind \notin {"open1", "lt"}
  <2>1. Halfway(g, FALSE, 0)
    BY <1>4, <1>6
  <2>2. TextOf(g) \ {0} = TextOf(r) \cup {n + 1}
    BY <1>3, <1>4
  <2>3. \A p \in TextOf(r) : p < n + 1
    BY <1>3
  <2>4. n + 1 \in Nat
    BY <1>3
  <2>5. Lists((content \o held) \o <<PieceOf(c, n + 1)>>, TextOf(r) \cup {n + 1}, c)
    BY <1>2, <2>3, <2>4, ListGrows
  <2>6. content \o (held \o here) = (content \o held) \o <<PieceOf(c, n + 1)>>
    <3>1. here = <<PieceOf(c, n + 1)>>
      BY DEF n
    <3>2. here \in Seq(Pieces)
      <4>1. PieceOf(c, n + 1) \in Pieces
        BY <2>4 DEF PieceOf, Pieces
      <4> QED BY <3>1, <4>1
    <3>3. content \in Seq(Pieces)
      BY DEF Lists
    <3> QED BY <1>2, <3>1, <3>2, <3>3, PiecesAssociate
  <2>7. Filtered(c, g, FALSE, <<>>, content \o (held \o here))
    BY <2>1, <2>2, <2>5, <2>6 DEF Filtered
  <2> QED BY <1>6, <2>7 DEF g
<1> QED BY <1>5, <1>6

\* A server's text that is not filtered.
LEMMA PlainTextGrows ==
  ASSUME NEW provider, provider # "openai", NEW r \in Seq(Items), NEW x \in Items
  PROVE  /\ Stream!Text(provider, r) \subseteq 1..Len(r)
         /\ Stream!Text(provider, Append(r, x)) =
              IF x.kind \in Stream!ToolKinds THEN Stream!Text(provider, r)
              ELSE Stream!Text(provider, r) \cup {Len(r) + 1}
<1> DEFINE g == Append(r, x)
           n == Len(r)
           A == Stream!Text(provider, r)
           B == Stream!Text(provider, g)
<1>1. n \in Nat /\ DOMAIN r = 1..n /\ DOMAIN g = 1..(n + 1) /\ g[n + 1] = x /\ \A i \in 1..n : g[i] = r[i]
  OBVIOUS
<1>2. \A i : i \in A <=> i \in 1..n /\ r[i].kind \notin Stream!ToolKinds
  BY <1>1 DEF Stream!Text
<1>3. \A i : i \in B <=> i \in 1..(n + 1) /\ g[i].kind \notin Stream!ToolKinds
  BY <1>1 DEF Stream!Text
<1> HIDE DEF A, B, n, g
<1>4. \A i \in 1..(n + 1) : i \in 1..n \/ i = n + 1
  BY <1>1
<1>5. n + 1 \in 1..(n + 1) /\ \A i \in 1..n : i \in 1..(n + 1)
  BY <1>1
<1>6. \A i : i \in B <=> i \in A \/ (i = n + 1 /\ x.kind \notin Stream!ToolKinds)
  BY <1>1, <1>2, <1>3, <1>4, <1>5
<1>7. A \subseteq 1..n
  BY <1>2
<1>8. B = IF x.kind \in Stream!ToolKinds THEN A ELSE A \cup {n + 1}
  <2>1. CASE x.kind \in Stream!ToolKinds
    BY <1>6, <2>1
  <2>2. CASE x.kind \notin Stream!ToolKinds
    BY <1>6, <2>2
  <2> QED BY <2>1, <2>2
<1> QED BY <1>7, <1>8 DEF A, B, n, g

\* The places of the pieces of call k that are of certain kinds.
Of(r, k, K) == {n \in DOMAIN r : r[n].call = k /\ r[n].kind \in K}

\* The calls of an answer, and the pieces of certain kinds of each, once one more item has come.
LEMMA CallsGrow ==
  ASSUME NEW r \in Seq(Items), NEW x \in Items, NEW K \in SUBSET Stream!ToolKinds
  PROVE  /\ Stream!CallsIn(Append(r, x)) =
              Stream!CallsIn(r) \cup (IF x.kind \in Stream!ToolKinds THEN {x.call} ELSE {})
         /\ \A i : /\ Of(r, i, K) \subseteq 1..Len(r)
                   /\ Of(Append(r, x), i, K) = Of(r, i, K) \cup
                        (IF x.call = i /\ x.kind \in K THEN {Len(r) + 1} ELSE {})
                   /\ i \notin Stream!CallsIn(r) => Of(r, i, K) = {}
<1> DEFINE g == Append(r, x)
           n == Len(r)
           P == Stream!CallsIn(r)
           Q == Stream!CallsIn(g)
<1>1. n \in Nat /\ DOMAIN r = 1..n /\ DOMAIN g = 1..(n + 1) /\ g[n + 1] = x /\ \A i \in 1..n : g[i] = r[i]
  OBVIOUS
<1>2. \A k : k \in P <=> \E i \in 1..n : r[i].kind \in Stream!ToolKinds /\ r[i].call = k
  BY <1>1 DEF Stream!CallsIn
<1>3. \A k : k \in Q <=> \E i \in 1..(n + 1) : g[i].kind \in Stream!ToolKinds /\ g[i].call = k
  BY <1>1 DEF Stream!CallsIn
<1>a. \A k, i : i \in Of(r, k, K) <=>
                 i \in 1..n /\ r[i].call = k /\ r[i].kind \in K
  BY <1>1 DEF Of
<1>b. \A k, i : i \in Of(g, k, K) <=>
                 i \in 1..(n + 1) /\ g[i].call = k /\ g[i].kind \in K
  BY <1>1 DEF Of
<1>c. \A kind \in K : kind \in Stream!ToolKinds
  OBVIOUS
<1> HIDE DEF P, Q, n, g
<1>4. \A i \in 1..(n + 1) : i \in 1..n \/ i = n + 1
  BY <1>1
<1>5. n + 1 \in 1..(n + 1) /\ \A i \in 1..n : i \in 1..(n + 1)
  BY <1>1
<1>6. \A k : k \in Q <=> k \in P \/ (x.kind \in Stream!ToolKinds /\ x.call = k)
  <2> TAKE k
  <2>1. ASSUME k \in Q PROVE k \in P \/ (x.kind \in Stream!ToolKinds /\ x.call = k)
    <3>1. PICK i \in 1..(n + 1) : g[i].kind \in Stream!ToolKinds /\ g[i].call = k
      BY <1>3, <2>1
    <3> QED BY <1>1, <1>2, <1>4, <3>1
  <2>2. ASSUME k \in P PROVE k \in Q
    <3>1. PICK i \in 1..n : r[i].kind \in Stream!ToolKinds /\ r[i].call = k
      BY <1>2, <2>2
    <3>2. i \in 1..(n + 1) /\ g[i] = r[i]
      BY <1>1, <1>5
    <3> QED BY <1>3, <3>1, <3>2
  <2>3. ASSUME x.kind \in Stream!ToolKinds, x.call = k PROVE k \in Q
    BY <1>1, <1>3, <1>5, <2>3
  <2> QED BY <2>1, <2>2, <2>3
<1>7. Q = P \cup (IF x.kind \in Stream!ToolKinds THEN {x.call} ELSE {})
  <2>1. CASE x.kind \in Stream!ToolKinds
    BY <1>6, <2>1
  <2>2. CASE x.kind \notin Stream!ToolKinds
    BY <1>6, <2>2
  <2> QED BY <2>1, <2>2
<1>8. ASSUME NEW k
      PROVE  /\ Of(r, k, K) \subseteq 1..n
             /\ Of(g, k, K) = Of(r, k, K) \cup
                  (IF x.call = k /\ x.kind \in K THEN {n + 1} ELSE {})
             /\ k \notin P => Of(r, k, K) = {}
  <2> DEFINE A == Of(r, k, K)
             B == Of(g, k, K)
             counts == x.call = k /\ x.kind \in K
  <2>1. \A i : i \in A <=> i \in 1..n /\ r[i].call = k /\ r[i].kind \in K
    BY <1>a
  <2>2. \A i : i \in B <=> i \in 1..(n + 1) /\ g[i].call = k /\ g[i].kind \in K
    BY <1>b
  <2>3. \A i \in A : k \in P
    BY <1>2, <1>c, <2>1
  <2> HIDE DEF A, B
  <2>4. \A i : i \in B <=> i \in A \/ (i = n + 1 /\ counts)
    BY <1>1, <1>4, <1>5, <2>1, <2>2
  <2> HIDE DEF counts
  <2>5. B = A \cup (IF counts THEN {n + 1} ELSE {})
    <3>1. CASE counts
      BY <2>4, <3>1
    <3>2. CASE ~ counts
      BY <2>4, <3>2
    <3> QED BY <3>1, <3>2
  <2>6. A \subseteq 1..n /\ (k \notin P => A = {})
    BY <2>1, <2>3
  <2> QED BY <2>5, <2>6 DEF A, B, counts
<1> QED BY <1>7, <1>8 DEF P, Q, n, g

CallRecords == [name : Seq(Pieces), args : Seq(Pieces)]

\* Replacing one element of a sequence.
LEMMA Replaced ==
  ASSUME NEW S, NEW q \in Seq(S), NEW v \in S, NEW k \in 1..Len(q), NEW t, t = [q EXCEPT ![k] = v]
  PROVE  t \in Seq(S) /\ Len(t) = Len(q) /\ t[k] = v /\ \A j \in 1..Len(q) : j # k => t[j] = q[j]
OBVIOUS

LEMMA ReplacedCall ==
  \A q \in Seq(CallRecords), v \in CallRecords : \A k \in 1..Len(q) : \A t :
    t = [q EXCEPT ![k] = v] =>
      t \in Seq(CallRecords) /\ Len(t) = Len(q) /\ t[k] = v /\ \A j \in 1..Len(q) : j # k => t[j] = q[j]
BY Replaced

\* Adding a piece at the end.
LEMMA AppendIsJoin ==
  ASSUME NEW p \in Seq(Pieces), NEW e \in Pieces
  PROVE  Append(p, e) = p \o <<e>>
OBVIOUS

\* The calls that c has of what was received.
Listed(c, r, tools) ==
  /\ tools \in Seq(CallRecords)
  /\ Stream!CallsIn(r) = 1..Len(tools)
  /\ \A i \in 1..Len(tools) : /\ Lists(tools[i].args, Of(r, i, Stream!Arguing), c)
                             /\ Lists(tools[i].name, Of(r, i, Stream!Naming), c)

\* Names and arguments are such places.
LEMMA KindsOfPieces ==
  /\ Stream!Arguing \in SUBSET Stream!ToolKinds /\ Stream!Naming \in SUBSET Stream!ToolKinds
  /\ \A r, i : Stream!Arguments(r, i) = Of(r, i, Stream!Arguing)
  /\ \A r, i : Stream!Names(r, i) = Of(r, i, Stream!Naming)
BY DEF Stream!ToolKinds, Stream!Arguments, Stream!Names, Of

\* A piece of text adds to no call.
LEMMA TextLeavesCalls ==
  ASSUME NEW c, NEW r \in Seq(Items), NEW x \in Items, x.kind \notin Stream!ToolKinds,
         NEW tools, Listed(c, r, tools)
  PROVE  Listed(c, Append(r, x), tools)
<1>1. /\ Stream!Arguing \in SUBSET Stream!ToolKinds /\ Stream!Naming \in SUBSET Stream!ToolKinds
      /\ x.kind \notin Stream!Arguing /\ x.kind \notin Stream!Naming
  BY DEF Stream!ToolKinds, Stream!Arguing, Stream!Naming
<1>2. ASSUME NEW K \in SUBSET Stream!ToolKinds
      PROVE  Stream!CallsIn(Append(r, x)) = Stream!CallsIn(r) /\ \A i : Of(Append(r, x), i, K) = Of(r, i, K)
  <2>1. x.kind \notin K
    OBVIOUS
  <2>2. Stream!CallsIn(Append(r, x)) = Stream!CallsIn(r) \cup {}
    BY CallsGrow
  <2>3. ASSUME NEW i PROVE Of(Append(r, x), i, K) = Of(r, i, K)
    <3>1. Of(Append(r, x), i, K) = Of(r, i, K) \cup {}
      BY <2>1, CallsGrow
    <3> QED BY <3>1
  <2> QED BY <2>2, <2>3
<1>3. \A i : Of(Append(r, x), i, Stream!Arguing) = Of(r, i, Stream!Arguing)
  BY <1>1, <1>2, Zenon
<1>4. \A i : Of(Append(r, x), i, Stream!Naming) = Of(r, i, Stream!Naming)
  BY <1>1, <1>2, Zenon
<1>5. Stream!CallsIn(Append(r, x)) = Stream!CallsIn(r)
  BY <1>1, <1>2, Zenon
<1> QED BY <1>3, <1>4, <1>5 DEF Listed

\* Places for calls not begun.
LEMMA Padding ==
  ASSUME NEW tools \in Seq(CallRecords), NEW i \in 1..(Len(tools) + 1)
  PROVE  LET t == tools \o [k \in 1..(i - Len(tools)) |-> Stream!NoCall] IN
         /\ t \in Seq(CallRecords) /\ Len(t) = IF i <= Len(tools) THEN Len(tools) ELSE i
         /\ \A j \in 1..Len(tools) : t[j] = tools[j]
         /\ i = Len(tools) + 1 => t[i] = Stream!NoCall
<1> DEFINE l == Len(tools)
           e == IF i <= l THEN 0 ELSE 1
           pad == [k \in 1..e |-> Stream!NoCall]
           t == tools \o pad
<1>1. Stream!NoCall \in CallRecords
  BY DEF Stream!NoCall, CallRecords
<1>2. l \in Nat /\ e \in Nat /\ DOMAIN tools = 1..l
  OBVIOUS
<1>3. 1..(i - l) = 1..e
  <2>1. CASE i <= l
    <3>1. i - l \in Int /\ i - l <= 0 /\ e = 0
      BY <1>2, <2>1
    <3> QED BY <3>1
  <2>2. CASE i = l + 1
    <3>1. i - l = 1 /\ e = 1
      BY <1>2, <2>2
    <3> QED BY <3>1
  <2>3. i <= l \/ i = l + 1
    BY <1>2
  <2> QED BY <2>1, <2>2, <2>3
<1>4. pad \in Seq(CallRecords) /\ Len(pad) = e /\ \A k \in 1..e : pad[k] = Stream!NoCall
  BY <1>1, <1>2
<1>5. /\ t \in Seq(CallRecords) /\ Len(t) = l + e
      /\ \A j \in 1..l : t[j] = tools[j]
      /\ \A j \in (l + 1)..(l + e) : t[j] = pad[j - l]
  <2> HIDE DEF CallRecords, pad, e
  <2> QED BY <1>2, <1>4
<1>6. i = l + 1 => e = 1 /\ i - l = 1 /\ i \in (l + 1)..(l + e)
  BY <1>2
<1>7. i = l + 1 => t[i] = Stream!NoCall
  <2> HIDE DEF t, pad
  <2> QED BY <1>4, <1>5, <1>6
<1>8. l + e = IF i <= l THEN l ELSE i
  BY <1>2
<1>9. t = tools \o [k \in 1..(i - l) |-> Stream!NoCall]
  BY <1>3
<1> HIDE DEF e, t, pad
<1> QED BY <1>5, <1>7, <1>8, <1>9 DEF l

\* One part of a call, once one more item has come.
LEMMA FieldGrows ==
  ASSUME NEW c, c.try \in Nat, c.round \in Nat, NEW r \in Seq(Items), NEW x \in Items,
         NEW K \in SUBSET Stream!ToolKinds, NEW j, NEW field, Lists(field, Of(r, j, K), c),
         NEW grown, grown = IF x.call = j /\ x.kind \in K
                            THEN Append(field, PieceOf(c, Len(r) + 1)) ELSE field
  PROVE  Lists(grown, Of(Append(r, x), j, K), c)
<1>1. /\ Of(r, j, K) \subseteq 1..Len(r)
      /\ Of(Append(r, x), j, K) = Of(r, j, K) \cup
           (IF x.call = j /\ x.kind \in K THEN {Len(r) + 1} ELSE {})
  BY CallsGrow
<1>2. CASE ~ (x.call = j /\ x.kind \in K)
  BY <1>1, <1>2
<1>3. CASE x.call = j /\ x.kind \in K
  <2>1. Len(r) + 1 \in Nat /\ \A q \in Of(r, j, K) : q < Len(r) + 1
    BY <1>1
  <2>2. Lists(field \o <<PieceOf(c, Len(r) + 1)>>, Of(r, j, K) \cup {Len(r) + 1}, c)
    BY <2>1, ListGrows
  <2>3. field \in Seq(Pieces) /\ PieceOf(c, Len(r) + 1) \in Pieces
    BY <2>1 DEF Lists, PieceOf, Pieces
  <2>4. grown = field \o <<PieceOf(c, Len(r) + 1)>>
    <3> HIDE DEF Pieces
    <3> QED BY <1>3, <2>3, AppendIsJoin
  <2> QED BY <1>1, <1>3, <2>2, <2>4
<1> QED BY <1>2, <1>3

\* A piece of a call is added to that call, the last one or a new one.
LEMMA CallsAdvance ==
  ASSUME NEW c, c.try \in Nat, c.round \in Nat, NEW r \in Seq(Items), NEW x \in Items,
         x.kind \in Stream!ToolKinds, NEW tools, Listed(c, r, tools), x.call \in 1..(Len(tools) + 1),
         NEW padded, padded = tools \o [k \in 1..(x.call - Len(tools)) |-> Stream!NoCall],
         NEW new \in CallRecords,
         new.args = IF x.kind \in Stream!Arguing
                    THEN Append(padded[x.call].args, PieceOf(c, Len(r) + 1)) ELSE padded[x.call].args,
         new.name = IF x.kind \in Stream!Naming
                    THEN Append(padded[x.call].name, PieceOf(c, Len(r) + 1)) ELSE padded[x.call].name,
         NEW t, t = [padded EXCEPT ![x.call] = new]
  PROVE  Listed(c, Append(r, x), t)
<1> DEFINE g == Append(r, x)
           n == Len(r)
           l == Len(tools)
           i == x.call
           m == IF i <= l THEN l ELSE i
<1>1. tools \in Seq(CallRecords) /\ l \in Nat /\ n \in Nat /\ i \in 1..(l + 1) /\ i \in 1..m /\ m \in Nat
      /\ Stream!CallsIn(r) = 1..l
  BY DEF Listed
<1>2. /\ padded \in Seq(CallRecords) /\ Len(padded) = m
      /\ \A j \in 1..l : padded[j] = tools[j]
      /\ i = l + 1 => padded[i] = Stream!NoCall
  BY <1>1, Padding
<1>3. \A j \in 1..m : j \in 1..l \/ (j = i /\ i = l + 1)
  BY <1>1
<1>4. Stream!CallsIn(g) = 1..m
  <2>1. Stream!CallsIn(g) = 1..l \cup {i}
    BY <1>1, CallsGrow, KindsOfPieces
  <2> QED BY <1>1, <2>1
<1>5. \A j : j \notin 1..l => Of(r, j, Stream!Arguing) = {} /\ Of(r, j, Stream!Naming) = {}
  BY <1>1, CallsGrow, KindsOfPieces
<1>6. t \in Seq(CallRecords) /\ Len(t) = m /\ t[i] = new /\ \A j \in 1..m : j # i => t[j] = padded[j]
  <2>1. padded \in Seq(CallRecords) /\ i \in 1..Len(padded) /\ Len(padded) = m
    BY <1>1, <1>2
  <2>1a. new \in CallRecords
    OBVIOUS
  <2>1b. t = [padded EXCEPT ![i] = new]
    OBVIOUS
  <2> HIDE DEF m, i
  <2>2. /\ t \in Seq(CallRecords) /\ Len(t) = Len(padded) /\ t[i] = new
        /\ \A j \in 1..Len(padded) : j # i => t[j] = padded[j]
    BY ONLY <2>1, <2>1a, <2>1b, Replaced, SMT
  <2> QED BY <2>1, <2>2
<1> HIDE DEF g, n, l, i, m
<1>7. \A j \in 1..m : /\ Lists(padded[j].args, Of(r, j, Stream!Arguing), c)
                     /\ Lists(padded[j].name, Of(r, j, Stream!Naming), c)
  <2> TAKE j \in 1..m
  <2>1. CASE j \in 1..l
    BY <1>2, <2>1 DEF Listed, l
  <2>2. CASE j = i /\ i = l + 1
    <3>1. padded[j].args = <<>> /\ padded[j].name = <<>>
      <4>1. Stream!NoCall.args = <<>> /\ Stream!NoCall.name = <<>>
        BY DEF Stream!NoCall
      <4> QED BY <1>2, <2>2, <4>1
    <3>2. j \notin 1..l
      BY <1>1, <2>2
    <3>3. Of(r, j, Stream!Arguing) = {} /\ Of(r, j, Stream!Naming) = {}
      BY <1>5, <3>2
    <3> QED BY <3>1, <3>3, NothingListed
  <2> QED BY <1>3, <2>1, <2>2
<1>8. ASSUME NEW j \in 1..m
      PROVE  /\ Lists(t[j].args, Of(g, j, Stream!Arguing), c)
             /\ Lists(t[j].name, Of(g, j, Stream!Naming), c)
  <2>0. j # x.call => t[j] = padded[j]
    BY <1>6 DEF i
  <2>a. j = x.call => t[j] = new
    BY <1>6 DEF i
  <2>1. t[j].args = IF x.call = j /\ x.kind \in Stream!Arguing
                    THEN Append(padded[j].args, PieceOf(c, Len(r) + 1)) ELSE padded[j].args
    <3>1. CASE j = x.call
      <4>1. new.args = IF x.kind \in Stream!Arguing
                       THEN Append(padded[j].args, PieceOf(c, Len(r) + 1)) ELSE padded[j].args
        BY ONLY <3>1, new.args = IF x.kind \in Stream!Arguing
                       THEN Append(padded[x.call].args, PieceOf(c, Len(r) + 1)) ELSE padded[x.call].args
      <4>2. t[j].args = new.args
        BY <2>a, <3>1
      <4> QED BY ONLY <3>1, <4>1, <4>2
    <3>2. CASE j # x.call
      <4>1. ~ (x.call = j) /\ t[j] = padded[j]
        BY <2>0, <3>2
      <4> QED BY ONLY <4>1
    <3> QED BY <3>1, <3>2
  <2>2. t[j].name = IF x.call = j /\ x.kind \in Stream!Naming
                    THEN Append(padded[j].name, PieceOf(c, Len(r) + 1)) ELSE padded[j].name
    <3>1. CASE j = x.call
      <4>1. new.name = IF x.kind \in Stream!Naming
                       THEN Append(padded[j].name, PieceOf(c, Len(r) + 1)) ELSE padded[j].name
        BY ONLY <3>1, new.name = IF x.kind \in Stream!Naming
                       THEN Append(padded[x.call].name, PieceOf(c, Len(r) + 1)) ELSE padded[x.call].name
      <4>2. t[j].name = new.name
        BY <2>a, <3>1
      <4> QED BY ONLY <3>1, <4>1, <4>2
    <3>2. CASE j # x.call
      <4>1. ~ (x.call = j) /\ t[j] = padded[j]
        BY <2>0, <3>2
      <4> QED BY ONLY <4>1
    <3> QED BY <3>1, <3>2
  <2>3. Lists(t[j].args, Of(Append(r, x), j, Stream!Arguing), c)
    BY <1>7, <2>1, KindsOfPieces, FieldGrows
  <2>4. Lists(t[j].name, Of(Append(r, x), j, Stream!Naming), c)
    BY <1>7, <2>2, KindsOfPieces, FieldGrows
  <2> QED BY <2>3, <2>4 DEF g
<1> QED BY <1>4, <1>6, <1>8 DEF Listed, g, i

\* What a server has sent, once it has sent one more item.
LEMMA ReceivedGrows ==
  ASSUME NEW script \in Seq(Items), NEW m \in Nat, m + 1 <= Len(script)
  PROVE  /\ SubSeq(script, 1, m) \in Seq(Items) /\ Len(SubSeq(script, 1, m)) = m
         /\ \A i \in 1..m : SubSeq(script, 1, m)[i] = script[i]
         /\ script[m + 1] \in Items /\ m + 1 \in 1..Len(script)
         /\ SubSeq(script, 1, m + 1) = Append(SubSeq(script, 1, m), script[m + 1])
<1> DEFINE r == SubSeq(script, 1, m)
           g == SubSeq(script, 1, m + 1)
           x == script[m + 1]
<1>1. m + 1 \in 1..Len(script) /\ x \in Items
  OBVIOUS
<1>2. r \in Seq(Items) /\ Len(r) = m /\ \A i \in 1..m : r[i] = script[i]
  OBVIOUS
<1>3. g \in Seq(Items) /\ Len(g) = m + 1 /\ \A i \in 1..(m + 1) : g[i] = script[i]
  OBVIOUS
<1> HIDE DEF r, g, x
<1>4. Append(r, x) \in Seq(Items) /\ Len(Append(r, x)) = m + 1
  BY <1>1, <1>2
<1>5. \A i \in 1..(m + 1) : Append(r, x)[i] = g[i]
  <2> TAKE i \in 1..(m + 1)
  <2>1. CASE i \in 1..m
    BY <1>2, <1>3, <2>1
  <2>2. CASE i = m + 1
    BY <1>1, <1>2, <1>3, <2>2 DEF x
  <2>3. i \in 1..m \/ i = m + 1
    OBVIOUS
  <2> QED BY <2>1, <2>2, <2>3
<1>6. g = Append(r, x)
  BY <1>3, <1>4, <1>5, SeqEqual
<1> QED BY <1>1, <1>2, <1>6 DEF r, g, x

\* The kinds of items that begin a call, of a server that does not number the calls.
Starting == Stream!Naming \cup {"noname"}

Servers == [script : Seq(Items), sent : Nat]
Sent(v) == SubSeq(v.script, 1, v.sent)

Blank(c) == c.content = <<>> /\ c.tools = <<>> /\ ~ c.think /\ c.held = <<>>

\* What a call has at the end.
Ended(c, v) ==
  LET words == Stream!Text(c.provider, Sent(v)) IN
  /\ c.calls = Stream!Returned(c.provider, v.script, c.tools)
  /\ Lists(c.content, words, c) \/
       (Lists(c.content, {0} \cup words, c) /\ c.calls = {} /\ c.tools # <<>>)
  /\ c.provider # "anthropic" /\ c.tools # <<>> => c.content # <<>> \/ c.calls # {}

\* What a call has, of what its server has sent.
Faithful(c, v) ==
  /\ c.pc \in {"idle", "request"} => Blank(c)
  /\ c.pc \in {"streaming", "done"} =>
       /\ v.script \in Scripts[c.provider] /\ v.sent <= Len(v.script)
       /\ Listed(c, Sent(v), c.tools)
  /\ c.pc = "streaming" => TextOk(c, Sent(v))
  /\ c.pc = "done" => Ended(c, v)

ReceiptInv ==
  /\ streamCall \in [Sessions -> Calls] /\ server \in [Sessions -> Servers]
  /\ \A s \in Sessions : Faithful(streamCall[s], server[s])

\* Lists do not depend on anything else of the call.
LEMMA FilteredStays ==
  ASSUME NEW c, NEW d, c.try = d.try, c.round = d.round, NEW r, NEW think, NEW held, NEW content,
         Filtered(c, r, think, held, content)
  PROVE  Filtered(d, r, think, held, content)
<1>1. PICK h : /\ Halfway(r, think, h)
               /\ held = IF h = 0 THEN <<>> ELSE <<PieceOf(c, h)>>
               /\ Lists(content, IF think THEN TextOf(r) ELSE TextOf(r) \ {h}, c)
  BY DEF Filtered
<1>2. PieceOf(c, h) = PieceOf(d, h)
  BY DEF PieceOf
<1>3. Lists(content, IF think THEN TextOf(r) ELSE TextOf(r) \ {h}, d)
  BY <1>1, ListStays
<1> QED BY <1>1, <1>2, <1>3 DEF Filtered

LEMMA ListedStays ==
  ASSUME NEW c, NEW d, c.try = d.try, c.round = d.round, NEW r, NEW tools, Listed(c, r, tools)
  PROVE  Listed(d, r, tools)
<1>1. \A i \in 1..Len(tools) : /\ Lists(tools[i].args, Of(r, i, Stream!Arguing), d)
                              /\ Lists(tools[i].name, Of(r, i, Stream!Naming), d)
  BY ListStays DEF Listed
<1> QED BY <1>1 DEF Listed

\* A step of one session.
LEMMA ReceiptStep ==
  ASSUME ReceiptInv, NEW s \in Sessions, NEW d \in Calls, NEW v \in Servers, Faithful(d, v),
         streamCall' = [streamCall EXCEPT ![s] = d], server' = [server EXCEPT ![s] = v]
  PROVE  ReceiptInv'
<1>1. streamCall' \in [Sessions -> Calls] /\ server' \in [Sessions -> Servers]
  BY DEF ReceiptInv
<1>2. \A t \in Sessions : Faithful(streamCall'[t], server'[t])
  <2> TAKE t \in Sessions
  <2>1. CASE t = s
    <3>1. streamCall'[t] = d /\ server'[t] = v
      BY <2>1 DEF ReceiptInv
    <3> QED BY <3>1
  <2>2. CASE t # s
    <3>1. streamCall'[t] = streamCall[t] /\ server'[t] = server[t]
      BY <2>2 DEF ReceiptInv
    <3> QED BY <3>1 DEF ReceiptInv
  <2> QED BY <2>1, <2>2
<1> QED BY <1>1, <1>2 DEF ReceiptInv

\* A step that leaves the servers alone.
LEMMA ServerSame ==
  ASSUME ReceiptInv, NEW s \in Sessions, UNCHANGED server
  PROVE  server' = [server EXCEPT ![s] = server[s]]
BY DEF ReceiptInv

\* Nothing has been received of an answer that begins.
LEMMA NothingReceived ==
  ASSUME NEW c \in Calls, Blank(c), NEW script \in Seq(Items)
  PROVE  /\ Listed(c, SubSeq(script, 1, 0), c.tools) /\ TextOk(c, SubSeq(script, 1, 0))
<1>1. SubSeq(script, 1, 0) = <<>>
  OBVIOUS
<1>2. /\ TextOf(<<>>) = {} /\ ~ ThoughtAfter(<<>>) /\ Stream!Text(c.provider, <<>>) = {}
      /\ Stream!CallsIn(<<>>) = {}
  BY DEF TextOf, Stream!Text, ThoughtAfter, Stream!CallsIn
<1>3. Listed(c, <<>>, <<>>)
  <2>1. <<>> \in Seq(CallRecords) /\ Len(<<>>) = 0 /\ 1..0 = {}
    OBVIOUS
  <2> QED BY <1>2, <2>1 DEF Listed
<1>4. Halfway(<<>>, FALSE, 0)
  BY <1>2 DEF Halfway
<1>5. Filtered(c, <<>>, FALSE, <<>>, <<>>)
  <2>1. Lists(<<>>, TextOf(<<>>) \ {0}, c)
    BY <1>2, NothingListed
  <2> QED BY <1>4, <2>1 DEF Filtered
<1>6. TextOk(c, <<>>)
  <2>1. c.think = FALSE /\ c.held = <<>> /\ c.content = <<>>
    BY CallTypes DEF Blank
  <2>2. Lists(c.content, Stream!Text(c.provider, <<>>), c)
    BY <1>2, <2>1, NothingListed
  <2> QED BY <1>5, <2>1, <2>2 DEF TextOk
<1> QED BY <1>1, <1>3, <1>6 DEF Blank

\* Joining nothing.
LEMMA NothingAdded == ASSUME NEW p \in Seq(Pieces) PROVE p \o <<>> = p
OBVIOUS

\* What a call has of the text, once one more piece of it has come.
LEMMA TextReceived ==
  ASSUME NEW s \in Sessions, NEW c \in Calls, c = streamCall[s], NEW v \in Servers, v = server[s],
         NEW n, n = v.sent + 1, n <= Len(v.script), v.script[n].kind \notin Stream!ToolKinds,
         TextOk(c, Sent(v)),
         NEW f, f = IF c.provider = "openai" THEN Stream!Filter(s, n) ELSE Stream!Unfiltered(s, n)
  PROVE  /\ f.think \in BOOLEAN
         /\ IF c.provider = "openai"
            THEN Filtered(c, SubSeq(v.script, 1, n), f.think, f.held, c.content \o f.shown)
            ELSE /\ f.think = FALSE /\ f.held = <<>>
                 /\ Lists(c.content \o f.shown, Stream!Text(c.provider, SubSeq(v.script, 1, n)), c)
<1> DEFINE r == Sent(v)
           x == v.script[n]
           g == SubSeq(v.script, 1, n)
           here == <<PieceOf(c, n)>>
<1>1. v.script \in Seq(Items) /\ v.sent \in Nat
  BY DEF Servers
<1>2. /\ r \in Seq(Items) /\ Len(r) = v.sent /\ x \in Items /\ g = Append(r, x)
      /\ n = Len(r) + 1 /\ n \in Nat /\ \A i \in 1..Len(r) : r[i] = v.script[i]
  <2>1. v.sent + 1 <= Len(v.script) /\ n \in Nat
    BY <1>1
  <2>2. /\ r \in Seq(Items) /\ Len(r) = v.sent /\ \A i \in 1..v.sent : r[i] = v.script[i]
        /\ v.script[v.sent + 1] \in Items
        /\ SubSeq(v.script, 1, v.sent + 1) = Append(r, v.script[v.sent + 1])
    BY <1>1, <2>1, ReceivedGrows DEF Sent
  <2> QED BY <2>1, <2>2
<1>3. c.try \in Nat /\ c.round \in Nat /\ c.think \in BOOLEAN /\ c.content \in Seq(Pieces)
  BY CallTypes
<1>4. /\ Stream!Kind(s, n) = x.kind /\ Stream!Piece(s, n) = PieceOf(c, n)
  BY DEF Stream!Kind, Stream!Piece, PieceOf
<1> HIDE DEF r, x, g
<1>5. CASE c.provider = "openai"
  <2>1. PICK h : /\ Halfway(r, c.think, h)
                 /\ c.held = IF h = 0 THEN <<>> ELSE <<PieceOf(c, h)>>
                 /\ Lists(c.content, IF c.think THEN TextOf(r) ELSE TextOf(r) \ {h}, c)
    BY <1>5 DEF TextOk, Filtered, r
  <2>2. Stream!HeldKind(s) = HeldKindOf(r, h)
    <3>1. CASE h = 0
      BY <2>1, <3>1 DEF Stream!HeldKind, HeldKindOf
    <3>2. CASE h # 0
      <4>1. h \in 1..Len(r)
        BY <1>2, <2>1, <3>2 DEF Halfway
      <4>2. c.held = <<PieceOf(c, h)>>
        BY <2>1, <3>2
      <4>3. c.held # <<>> /\ Head(c.held) = PieceOf(c, h)
        BY <4>2
      <4>4. Head(c.held).at = h
        BY <4>3 DEF PieceOf
      <4>5. v.script[h].kind = r[h].kind
        BY <1>2, <4>1
      <4> QED BY <3>2, <4>3, <4>4, <4>5 DEF Stream!HeldKind, Stream!Kind, HeldKindOf
    <3> QED BY <3>1, <3>2
  <2>3. f = Stream!Filter(s, n)
    BY <1>5
  <2>4. CASE c.think
    <3>1. f = [shown |-> <<>>, held |-> IF x.kind \in {"close1", "lt"} THEN here ELSE <<>>,
               think |-> ~(HeldKindOf(r, h) = "close1" /\ x.kind = "close2")]
      BY <1>4, <2>2, <2>3, <2>4 DEF Stream!Filter
    <3>2. f.shown = <<>> /\ f.held = (IF x.kind \in {"close1", "lt"} THEN here ELSE <<>>)
      BY <3>1
    <3>3. f.think = ~(HeldKindOf(r, h) = "close1" /\ x.kind = "close2")
      BY <3>1
    <3>4. f.think \in BOOLEAN
      BY <3>3
    <3>5. Halfway(r, TRUE, h) /\ Lists(c.content, TextOf(r), c)
      BY <1>3, <2>1, <2>4
    <3>6. x.kind \notin Stream!ToolKinds
      BY DEF x
    <3>7. Filtered(c, Append(r, x), f.think,
                   IF x.kind \in {"close1", "lt"} THEN <<PieceOf(c, Len(r) + 1)>> ELSE <<>>, c.content)
      BY <1>2, <1>3, <3>3, <3>4, <3>5, <3>6, FilteredThought
    <3>8. Filtered(c, g, f.think, f.held, c.content)
      BY <1>2, <3>2, <3>7
    <3>9. c.content \o f.shown = c.content
      BY <1>3, <3>2, NothingAdded
    <3> QED BY <1>5, <3>4, <3>8, <3>9 DEF g
  <2>5. CASE ~ c.think /\ HeldKindOf(r, h) = "open1" /\ x.kind = "open2"
    <3>1. f = [shown |-> <<>>, held |-> <<>>, think |-> TRUE]
      BY <1>4, <2>2, <2>3, <2>5 DEF Stream!Filter
    <3>2. f.shown = <<>> /\ f.held = <<>> /\ f.think = TRUE
      BY <3>1
    <3>3. Halfway(r, FALSE, h) /\ Lists(c.content, TextOf(r) \ {h}, c)
      BY <1>3, <2>1, <2>5
    <3>4. Filtered(c, g, TRUE, <<>>, c.content)
      BY <1>2, <2>5, <3>3, FilteredBegins
    <3>5. c.content \o f.shown = c.content
      BY <1>3, <3>2, NothingAdded
    <3> QED BY <1>5, <3>2, <3>4, <3>5 DEF g
  <2>6. CASE ~ c.think /\ ~ (HeldKindOf(r, h) = "open1" /\ x.kind = "open2")
    <3>1. Halfway(r, FALSE, h) /\ Lists(c.content, TextOf(r) \ {h}, c)
      BY <1>3, <2>1, <2>6
    <3>2. x.kind \notin Stream!ToolKinds /\ here = <<PieceOf(c, Len(r) + 1)>>
      BY <1>2 DEF x
    <3> DEFINE held == c.held
    <3>3. held = IF h = 0 THEN <<>> ELSE <<PieceOf(c, h)>>
      BY <2>1
    <3>4. IF x.kind \in {"open1", "lt"}
          THEN Filtered(c, g, FALSE, here, c.content \o held)
          ELSE Filtered(c, g, FALSE, <<>>, c.content \o (held \o here))
      <4> HIDE DEF held, here
      <4> QED BY <1>2, <1>3, <2>6, <3>1, <3>2, <3>3, FilteredText
    <3>5. CASE x.kind \in {"open1", "lt"}
      <4>1. f = [shown |-> c.held, held |-> here, think |-> FALSE]
        BY <1>4, <2>2, <2>3, <2>6, <3>5 DEF Stream!Filter
      <4>2. f.shown = c.held /\ f.held = here /\ f.think = FALSE
        BY <4>1
      <4> QED BY <1>5, <3>4, <3>5, <4>2 DEF g
    <3>6. CASE x.kind \notin {"open1", "lt"}
      <4>1. f = [shown |-> c.held \o here, held |-> <<>>, think |-> FALSE]
        BY <1>4, <2>2, <2>3, <2>6, <3>6 DEF Stream!Filter
      <4>2. f.shown = c.held \o here /\ f.held = <<>> /\ f.think = FALSE
        BY <4>1
      <4> QED BY <1>5, <3>4, <3>6, <4>2 DEF g
    <3> QED BY <3>5, <3>6
  <2> QED BY <1>3, <2>4, <2>5, <2>6
<1>6. CASE c.provider # "openai"
  <2>1. ~ c.think /\ c.held = <<>> /\ Lists(c.content, Stream!Text(c.provider, r), c)
    BY <1>6 DEF TextOk, r
  <2>2. f = [shown |-> here, held |-> c.held, think |-> c.think]
    BY <1>4, <1>6 DEF Stream!Unfiltered
  <2>3. f.shown = here /\ f.held = c.held /\ f.think = c.think
    BY <2>2
  <2>4. f.think = FALSE /\ f.held = <<>>
    BY <1>3, <2>1, <2>3
  <2>5. x.kind \notin Stream!ToolKinds
    BY DEF x
  <2>6. /\ Stream!Text(c.provider, g) = Stream!Text(c.provider, r) \cup {n}
        /\ Stream!Text(c.provider, r) \subseteq 1..Len(r)
    BY <1>2, <1>6, <2>5, PlainTextGrows
  <2>7. \A q \in Stream!Text(c.provider, r) : q < n
    BY <1>2, <2>6
  <2>8. Lists(c.content \o here, Stream!Text(c.provider, r) \cup {n}, c)
    BY <1>2, <1>3, <2>1, <2>7, ListGrows
  <2> QED BY <1>6, <2>3, <2>4, <2>6, <2>8 DEF g
<1> QED BY <1>5, <1>6

\* A call that has received one more item.
LEMMA ReceiveKeeps == ASSUME ReceiptInv, NEW s \in Sessions, Stream!Receive(s) PROVE ReceiptInv'
<1> DEFINE c == streamCall[s]
           v == server[s]
           n == server[s].sent + 1
           r == Sent(v)
           x == v.script[n]
           w == [v EXCEPT !.sent = n]
<1>1. /\ c \in Calls /\ v \in Servers /\ Faithful(c, v)
      /\ v.script \in Seq(Items) /\ v.sent \in Nat /\ n \in Nat
  BY DEF ReceiptInv, Servers
<1>2. /\ c.pc = "streaming" /\ n <= Len(v.script)
      /\ server' = [server EXCEPT ![s].sent = n]
      /\ IF x.kind \in Stream!ToolKinds THEN Stream!ReceiveTool(s, n) ELSE Stream!ReceiveText(s, n)
  BY DEF Stream!Receive, Stream!At, Stream!Kind
<1>3. server' = [server EXCEPT ![s] = w]
  BY <1>2 DEF ReceiptInv
<1>4. w \in Servers /\ w.script = v.script /\ w.sent = n
  BY <1>1 DEF Servers
<1>5. /\ v.script \in Scripts[c.provider] /\ Listed(c, r, c.tools) /\ TextOk(c, r)
  BY <1>1, <1>2 DEF Faithful
<1>6. /\ r \in Seq(Items) /\ Len(r) = v.sent /\ \A i \in 1..Len(r) : r[i] = v.script[i]
      /\ x \in Items /\ n \in 1..Len(v.script) /\ Sent(w) = Append(r, x) /\ n = Len(r) + 1
  <2>1. v.sent + 1 <= Len(v.script)
    BY <1>2
  <2>2. /\ r \in Seq(Items) /\ Len(r) = v.sent /\ \A i \in 1..v.sent : r[i] = v.script[i]
        /\ v.script[v.sent + 1] \in Items /\ v.sent + 1 \in 1..Len(v.script)
        /\ SubSeq(v.script, 1, v.sent + 1) = Append(r, v.script[v.sent + 1])
    BY <1>1, <2>1, ReceivedGrows DEF Sent
  <2>3. Sent(w) = SubSeq(v.script, 1, v.sent + 1)
    BY <1>4 DEF Sent
  <2> QED BY <2>2, <2>3
<1>7. /\ c.try \in Nat /\ c.round \in Nat /\ c.think \in BOOLEAN /\ c.content \in Seq(Pieces)
      /\ c.held \in Seq(Pieces) /\ c.provider \in Providers
  BY <1>1, CallTypes
<1> HIDE DEF c, v, r, x, w
<1>8. CASE x.kind \notin Stream!ToolKinds
  <2> DEFINE f == IF c.provider = "openai" THEN Stream!Filter(s, n) ELSE Stream!Unfiltered(s, n)
             d == [c EXCEPT !.content = @ \o f.shown, !.held = f.held, !.think = f.think]
  <2>1. streamCall' = [streamCall EXCEPT ![s] = d]
    BY <1>2, <1>8 DEF Stream!ReceiveText, c, ReceiptInv
  <2>2. /\ f.think \in BOOLEAN
        /\ IF c.provider = "openai"
           THEN Filtered(c, Sent(w), f.think, f.held, c.content \o f.shown)
           ELSE /\ f.think = FALSE /\ f.held = <<>>
                /\ Lists(c.content \o f.shown, Stream!Text(c.provider, Sent(w)), c)
    <3>1. SubSeq(v.script, 1, n) = Sent(w)
      BY <1>4 DEF Sent
    <3>2. v.script[n].kind \notin Stream!ToolKinds /\ TextOk(c, Sent(v)) /\ n = v.sent + 1
      BY <1>5, <1>8 DEF x, r, v
    <3>3. c = streamCall[s] /\ v = server[s]
      BY DEF c, v
    <3> HIDE DEF n, f
    <3>4. f = IF c.provider = "openai" THEN Stream!Filter(s, n) ELSE Stream!Unfiltered(s, n)
      BY DEF f
    <3>5. c \in Calls /\ v \in Servers /\ n <= Len(v.script)
      BY <1>1, <1>2
    <3>6. /\ f.think \in BOOLEAN
          /\ IF c.provider = "openai"
             THEN Filtered(c, SubSeq(v.script, 1, n), f.think, f.held, c.content \o f.shown)
             ELSE /\ f.think = FALSE /\ f.held = <<>>
                  /\ Lists(c.content \o f.shown, Stream!Text(c.provider, SubSeq(v.script, 1, n)), c)
      BY <3>2, <3>3, <3>4, <3>5, TextReceived
    <3> QED BY <3>1, <3>6
  <2> HIDE DEF f
  <2>3. /\ f.held \in Seq(Pieces) /\ c.content \o f.shown \in Seq(Pieces)
    <3>1. <<>> \in Seq(Pieces)
      OBVIOUS
    <3>2. ASSUME Filtered(c, Sent(w), f.think, f.held, c.content \o f.shown)
          PROVE  f.held \in Seq(Pieces) /\ c.content \o f.shown \in Seq(Pieces)
      <4>1. PICK h : /\ Halfway(Sent(w), f.think, h)
                     /\ f.held = IF h = 0 THEN <<>> ELSE <<PieceOf(c, h)>>
                     /\ c.content \o f.shown \in Seq(Pieces)
        BY <3>2 DEF Filtered, Lists
      <4>2. h \in Nat
        BY <1>6, <4>1 DEF Halfway
      <4>3. PieceOf(c, h) \in Pieces
        BY <1>7, <4>2 DEF PieceOf, Pieces
      <4>4. <<PieceOf(c, h)>> \in Seq(Pieces)
        BY <4>3
      <4> QED BY <3>1, <4>1, <4>4
    <3> QED BY <2>2, <3>1, <3>2 DEF Lists
  <2>4. /\ d \in Calls /\ d.pc = "streaming" /\ d.provider = c.provider /\ d.try = c.try
        /\ d.round = c.round /\ d.tools = c.tools /\ d.held = f.held /\ d.think = f.think
        /\ d.content = c.content \o f.shown
    BY <1>1, <1>2, <2>2, <2>3 DEF Calls
  <2> HIDE DEF d
  <2>5. Listed(d, Sent(w), d.tools)
    <3>1. Listed(c, Sent(w), c.tools)
      BY <1>5, <1>6, <1>8, TextLeavesCalls
    <3> QED BY <2>4, <3>1, ListedStays
  <2>6. TextOk(d, Sent(w))
    <3>1. CASE c.provider = "openai"
      <4>1. Filtered(d, Sent(w), f.think, f.held, c.content \o f.shown)
        BY <2>2, <2>4, <3>1, FilteredStays
      <4> QED BY <2>4, <3>1, <4>1 DEF TextOk
    <3>2. CASE c.provider # "openai"
      <4>1. Lists(c.content \o f.shown, Stream!Text(c.provider, Sent(w)), d)
        BY <2>2, <2>4, <3>2, ListStays
      <4>2. d.think = FALSE /\ d.held = <<>>
        BY <2>2, <2>4, <3>2
      <4> QED BY <2>4, <3>2, <4>1, <4>2 DEF TextOk
    <3> QED BY <3>1, <3>2
  <2>7. Faithful(d, w)
    BY <1>2, <1>4, <1>5, <2>4, <2>5, <2>6 DEF Faithful
  <2> QED BY <1>3, <1>4, <2>1, <2>4, <2>7, ReceiptStep
<1>9. CASE x.kind \in Stream!ToolKinds
  <2> DEFINE i == Stream!Index(s, n)
             tools == c.tools \o [k \in 1..(i - Len(c.tools)) |-> Stream!NoCall]
             e == PieceOf(c, n)
             new == [name |-> IF x.kind \in Stream!Naming THEN Append(tools[i].name, e) ELSE tools[i].name,
                     args |-> IF x.kind \in Stream!Arguing THEN Append(tools[i].args, e) ELSE tools[i].args]
             t == [tools EXCEPT ![i] = new]
             d == [c EXCEPT !.tools = t]
  <2>0. /\ Stream!Kind(s, n) = x.kind /\ Stream!Piece(s, n) = e
    BY DEF Stream!Kind, Stream!Piece, PieceOf, x, v, c
  <2>1. streamCall' = [streamCall EXCEPT ![s] = d]
    BY <1>2, <1>9, <2>0 DEF Stream!ReceiveTool, c, ReceiptInv
  <2>2. c.tools \in Seq(CallRecords) /\ Stream!CallsIn(r) = 1..Len(c.tools)
    BY <1>5 DEF Listed
  <2>3. /\ i = x.call /\ i \in 1..(Len(c.tools) + 1)
        /\ c.provider = "openai" /\ Len(r) >= 1 => r[Len(r)].kind \notin {"open1", "close1"}
    <3>1. Stream!Orderly(c.provider, v.script)
      BY <1>5, <1>7, ScriptsAssumption
    <3>2. PICK k \in 0..n :
            /\ Stream!CallsIn(SubSeq(v.script, 1, n - 1)) = 1..k
            /\ x.call \in CASE c.provider = "openai" -> 1..(k + 1)
                            [] c.provider # "openai" /\ x.kind \notin Starting -> {k} \ {0}
                            [] OTHER -> {k + 1}
            /\ c.provider = "openai" /\ n > 1 => v.script[n - 1].kind \notin {"open1", "close1"}
      <4>1. \A m \in DOMAIN v.script : v.script[m].kind \in Stream!ToolKinds =>
              \E k \in 0..m :
                /\ Stream!CallsIn(SubSeq(v.script, 1, m - 1)) = 1..k
                /\ v.script[m].call \in CASE c.provider = "openai" -> 1..(k + 1)
                                         [] c.provider # "openai" /\ v.script[m].kind \notin Starting -> {k} \ {0}
                                         [] OTHER -> {k + 1}
                /\ c.provider = "openai" /\ m > 1 => v.script[m - 1].kind \notin {"open1", "close1"}
        BY <3>1 DEF Stream!Orderly, Starting
      <4>2. n \in DOMAIN v.script /\ v.script[n].kind \in Stream!ToolKinds
        BY <1>1, <1>6, <1>9 DEF x
      <4> HIDE DEF n
      <4> QED BY <4>1, <4>2 DEF x
    <3>3. n - 1 = v.sent
      BY <1>1 DEF v
    <3>4. Stream!CallsIn(r) = 1..k
      BY <3>2, <3>3 DEF r, Sent
    <3>5. k = Len(c.tools)
      <4>1. 1..k = 1..Len(c.tools) /\ k \in Nat /\ Len(c.tools) \in Nat
        BY <1>1, <2>2, <3>4
      <4> HIDE DEF n
      <4> QED BY <4>1
    <3>6. c.provider = "openai" /\ Len(r) >= 1 => r[Len(r)].kind \notin {"open1", "close1"}
      <4>1. Len(r) >= 1 => Len(r) \in 1..Len(r) /\ n > 1 /\ Len(r) = n - 1
        BY <1>1, <1>6
      <4> QED BY <1>6, <3>2, <4>1
    <3>7. i = x.call
      <4>1. CASE c.provider = "openai"
        BY <4>1 DEF Stream!Index, c, x, v
      <4>2. CASE c.provider # "openai" /\ x.kind \notin Starting
        <5>1. x.call = Len(c.tools) /\ Len(c.tools) \in Nat
          BY <2>2, <3>2, <3>5, <4>2
        <5>2. i = Len(c.tools) + 0
          BY <2>0, <4>2 DEF Stream!Index, Starting, c
        <5> QED BY <5>1, <5>2
      <4>3. CASE c.provider # "openai" /\ x.kind \in Starting
        <5>1. x.call = Len(c.tools) + 1
          BY <3>2, <3>5, <4>3
        <5>2. i = Len(c.tools) + 1
          BY <2>0, <4>3 DEF Stream!Index, Starting, c
        <5> QED BY <5>1, <5>2
      <4> QED BY <4>1, <4>2, <4>3
    <3>8. x.call \in 1..(Len(c.tools) + 1)
      <4>1. Len(c.tools) \in Nat
        BY <2>2
      <4>2. x.call \in 1..(k + 1)
        BY <3>2, <3>5, <4>1
      <4> QED BY <3>5, <4>2
    <3> QED BY <3>6, <3>7, <3>8
  <2> HIDE DEF i
  <2>4. tools \in Seq(CallRecords) /\ i \in 1..Len(tools)
    <3>1. /\ tools \in Seq(CallRecords)
          /\ Len(tools) = IF i <= Len(c.tools) THEN Len(c.tools) ELSE i
      BY <2>2, <2>3, Padding
    <3>2. Len(c.tools) \in Nat
      BY <2>2
    <3> HIDE DEF tools
    <3> QED BY <2>3, <3>1, <3>2
  <2>5. e \in Pieces
    BY <1>1, <1>7 DEF PieceOf, Pieces
  <2> HIDE DEF tools, e
  <2>6. new \in CallRecords
    <3>1. tools[i] \in CallRecords
      BY <2>4
    <3>2. tools[i].name \in Seq(Pieces) /\ tools[i].args \in Seq(Pieces)
      BY <3>1 DEF CallRecords
    <3>3. Append(tools[i].name, e) \in Seq(Pieces) /\ Append(tools[i].args, e) \in Seq(Pieces)
      BY <2>5, <3>2
    <3> QED BY <3>2, <3>3 DEF CallRecords
  <2>7. /\ new.args = IF x.kind \in Stream!Arguing THEN Append(tools[i].args, PieceOf(c, Len(r) + 1))
                      ELSE tools[i].args
        /\ new.name = IF x.kind \in Stream!Naming THEN Append(tools[i].name, PieceOf(c, Len(r) + 1))
                      ELSE tools[i].name
    BY <1>6 DEF e
  <2> HIDE DEF new
  <2>8. Listed(c, Sent(w), t)
    <3>1. tools = c.tools \o [k \in 1..(x.call - Len(c.tools)) |-> Stream!NoCall]
      BY <2>3 DEF tools
    <3>2. t = [tools EXCEPT ![x.call] = new] /\ x.call \in 1..(Len(c.tools) + 1)
      BY <2>3
    <3>3. /\ new.args = IF x.kind \in Stream!Arguing
                        THEN Append(tools[x.call].args, PieceOf(c, Len(r) + 1)) ELSE tools[x.call].args
          /\ new.name = IF x.kind \in Stream!Naming
                        THEN Append(tools[x.call].name, PieceOf(c, Len(r) + 1)) ELSE tools[x.call].name
      BY <2>3, <2>7
    <3> HIDE DEF t
    <3>4. Listed(c, Append(r, x), t)
      BY <1>5, <1>6, <1>7, <1>9, <2>6, <3>1, <3>2, <3>3, CallsAdvance
    <3> QED BY <1>6, <3>4
  <2>9. t \in Seq(CallRecords)
    BY <2>8 DEF Listed
  <2> HIDE DEF t
  <2>10. /\ d \in Calls /\ d.pc = "streaming" /\ d.provider = c.provider /\ d.try = c.try
         /\ d.round = c.round /\ d.tools = t /\ d.held = c.held /\ d.think = c.think
         /\ d.content = c.content
    BY <1>1, <1>2, <2>9 DEF Calls, CallRecords
  <2> HIDE DEF d
  <2>11. Listed(d, Sent(w), d.tools)
    BY <2>8, <2>10, ListedStays
  <2>12. TextOk(d, Sent(w))
    <3>1. CASE c.provider = "openai"
      <4>1. PICK h : /\ Halfway(r, c.think, h)
                     /\ c.held = IF h = 0 THEN <<>> ELSE <<PieceOf(c, h)>>
                     /\ Lists(c.content, IF c.think THEN TextOf(r) ELSE TextOf(r) \ {h}, c)
        BY <1>5, <3>1 DEF TextOk, Filtered
      <4>2. TextOf(Sent(w)) = TextOf(r) /\ Halfway(Sent(w), c.think, h)
        BY <1>6, <1>7, <1>9, <2>3, <3>1, <4>1, CallsLeaveText
      <4>3. Filtered(c, Sent(w), c.think, c.held, c.content)
        BY <4>1, <4>2 DEF Filtered
      <4>4. Filtered(d, Sent(w), c.think, c.held, c.content)
        BY <2>10, <4>3, FilteredStays
      <4> QED BY <2>10, <3>1, <4>4 DEF TextOk
    <3>2. CASE c.provider # "openai"
      <4>1. Stream!Text(c.provider, Sent(w)) = Stream!Text(c.provider, r)
        BY <1>6, <1>9, <3>2, PlainTextGrows
      <4>2. ~ c.think /\ c.held = <<>> /\ Lists(c.content, Stream!Text(c.provider, Sent(w)), c)
        BY <1>5, <3>2, <4>1 DEF TextOk
      <4>3. Lists(c.content, Stream!Text(c.provider, Sent(w)), d)
        BY <2>10, <4>2, ListStays
      <4> QED BY <2>10, <3>2, <4>2, <4>3 DEF TextOk
    <3> QED BY <3>1, <3>2
  <2>13. Faithful(d, w)
    BY <1>2, <1>4, <1>5, <2>10, <2>11, <2>12 DEF Faithful
  <2> QED BY <1>3, <1>4, <2>1, <2>10, <2>13, ReceiptStep
<1> QED BY <1>8, <1>9

\* A part of a call's arguments: what is made of it is the object that it is, or {}.
LEMMA PartIsParsed ==
  ASSUME NEW script, NEW args \in Seq(Pieces), NEW a \in 0..Len(args), NEW b \in a..Len(args)
  PROVE  LET z == Stream!Parsed(script, args, <<a, b>>) IN
         /\ SubSeq(args, a + 1, b) \in Seq(Pieces) /\ Len(SubSeq(args, a + 1, b)) = b - a
         /\ a < b => SubSeq(args, a + 1, b)[b - a] = args[b]
         /\ Stream!IsObject(script, args, a, b) => z = SubSeq(args, a + 1, b)
         /\ z # <<>> => Stream!IsObject(script, args, a, b) /\ z = SubSeq(args, a + 1, b)
<1> DEFINE stretch == SubSeq(args, a + 1, b)
           closes(j) == script[args[j].at].kind \in Stream!Closing
           ends == {k \in DOMAIN stretch : script[stretch[k].at].kind \in Stream!Closing}
           z == Stream!Parsed(script, args, <<a, b>>)
<1>1. a \in Nat /\ b \in Nat /\ a <= b /\ b <= Len(args) /\ b - a \in Nat
  OBVIOUS
<1>2. stretch \in Seq(Pieces) /\ Len(stretch) = b - a /\ \A k \in 1..(b - a) : stretch[k] = args[a + k]
  OBVIOUS
<1>3. ends = {k \in 1..(b - a) : closes(a + k)}
  BY <1>2
<1>4. z = IF ends = {Len(stretch)} /\ (a = 0 \/ closes(a)) THEN stretch ELSE <<>>
  BY DEF Stream!Parsed
<1>5. Stream!IsObject(script, args, a, b) <=>
        a < b /\ (a = 0 \/ closes(a)) /\ closes(b) /\ \A k \in (a + 1)..(b - 1) : ~ closes(k)
  BY DEF Stream!IsObject
<1> HIDE DEF stretch, closes, ends, z
<1>6. a < b => b - a \in 1..(b - a) /\ a + (b - a) = b
  BY <1>1
<1>7. ASSUME Stream!IsObject(script, args, a, b) PROVE z = stretch
  <2>1. \A k \in 1..(b - a) : k # b - a => ~ closes(a + k)
    <3> TAKE k \in 1..(b - a)
    <3>1. k # b - a => a + k \in (a + 1)..(b - 1)
      BY <1>1
    <3> QED BY <1>5, <1>7, <3>1
  <2>2. ends = {b - a}
    BY <1>3, <1>5, <1>6, <1>7, <2>1
  <2> QED BY <1>2, <1>4, <1>5, <1>7, <2>2
<1>8. ASSUME z # <<>> PROVE Stream!IsObject(script, args, a, b) /\ z = stretch
  <2>1. ends = {b - a} /\ (a = 0 \/ closes(a)) /\ z = stretch
    BY <1>2, <1>4, <1>8
  <2>2. b - a \in 1..(b - a) /\ closes(a + (b - a))
    BY <1>3, <2>1
  <2>3. a < b /\ closes(b)
    BY <1>1, <1>6, <2>2
  <2>4. \A k \in (a + 1)..(b - 1) : ~ closes(k)
    <3> TAKE k \in (a + 1)..(b - 1)
    <3>1. k - a \in 1..(b - a) /\ k - a # b - a /\ a + (k - a) = k
      BY <1>1
    <3> QED BY <1>3, <2>1, <3>1
  <2> QED BY <1>5, <2>1, <2>3, <2>4
<1>9. a < b => stretch[b - a] = args[b]
  BY <1>2, <1>6
<1> QED BY <1>2, <1>7, <1>8, <1>9 DEF stretch, z

\* Parts are within their arguments.
LEMMA PartsFit ==
  ASSUME NEW provider, NEW script, NEW args \in Seq(Pieces),
         NEW p \in Stream!Parts(provider, script, args)
  PROVE  /\ p = <<p[1], p[2]>> /\ p \in Nat \X Nat
         /\ p[1] \in 0..Len(args) /\ p[2] \in p[1]..Len(args)
         /\ p[1] = 0 \/ p[1] \in Stream!Cuts(provider, script, args)
         /\ p[2] = Len(args) \/ p[2] \in Stream!Cuts(provider, script, args)
         /\ p[1] < p[2] \/ (p[1] = Len(args) /\ p[2] = Len(args))
         /\ \A k \in Stream!Cuts(provider, script, args) : k <= p[1] \/ p[2] <= k
<1> DEFINE cuts == Stream!Cuts(provider, script, args)
<1>1. cuts \subseteq 1..Len(args) /\ Len(args) \in Nat
  BY DEF Stream!Cuts
<1>2. /\ p \in ({0} \cup cuts) \X (cuts \cup {Len(args)})
      /\ p[1] < p[2] \/ (p[1] = Len(args) /\ p[2] = Len(args))
      /\ \A k \in cuts : k <= p[1] \/ p[2] <= k
  BY DEF Stream!Parts
<1> HIDE DEF cuts
<1>3. /\ p = <<p[1], p[2]>> /\ (p[1] = 0 \/ p[1] \in cuts) /\ (p[2] = Len(args) \/ p[2] \in cuts)
  BY <1>2
<1>4. p[1] \in 0..Len(args) /\ p[2] \in 0..Len(args)
  BY <1>1, <1>3
<1>5. p[2] \in p[1]..Len(args)
  BY <1>1, <1>2, <1>4
<1> QED BY <1>2, <1>3, <1>4, <1>5 DEF cuts

\* An unspoilt object is a part.
LEMMA ObjectsAreParts ==
  ASSUME NEW provider, NEW script, NEW args \in Seq(Pieces), NEW b \in DOMAIN args, NEW a \in 0..b,
         Stream!IsObject(script, args, a, b), Stream!Unspoilt(provider, script, args, b)
  PROVE  <<a, b>> \in Stream!Parts(provider, script, args)
<1> DEFINE cuts == Stream!Cuts(provider, script, args)
           kind(j) == script[args[j].at].kind
<1>1. Len(args) \in Nat /\ b \in 1..Len(args) /\ a \in Nat /\ a < b /\ DOMAIN args = 1..Len(args)
  BY DEF Stream!IsObject
<1>2. /\ a = 0 \/ kind(a) \in Stream!Closing
      /\ kind(b) \in Stream!Closing /\ \A k \in (a + 1)..(b - 1) : kind(k) \notin Stream!Closing
  BY DEF Stream!IsObject
<1>3. \A k : k \in cuts <=>
        /\ k \in 1..Len(args) /\ provider # "anthropic"
        /\ (kind(k) \in Stream!Closing \cup Stream!Breaking /\ k < Len(args)) \/ kind(k) = "torn"
        /\ \A j \in 1..(k - 1) : kind(j) \notin Stream!Breaking
  BY <1>1 DEF Stream!Cuts
<1>4. CASE provider = "anthropic"
  <2>1. b = Len(args) /\ \A k \in 1..(b - 1) : kind(k) \notin Stream!Closing
    BY <1>4 DEF Stream!Unspoilt
  <2>2. a = 0
    <3>1. a # 0 => a \in 1..(b - 1)
      BY <1>1
    <3> QED BY <1>2, <2>1, <3>1
  <2>3. cuts = {}
    BY <1>3, <1>4
  <2>4. <<0, b>> \in ({0} \cup cuts) \X (cuts \cup {Len(args)})
    BY <2>1
  <2> QED BY <1>1, <2>1, <2>2, <2>3, <2>4 DEF Stream!Parts
<1>5. CASE provider # "anthropic"
  <2>1. \A k \in 1..b : kind(k) \notin Stream!Breaking
    BY <1>5 DEF Stream!Unspoilt
  <2> HIDE DEF kind, cuts
  <2>2. a \in {0} \cup cuts
    <3>1. a # 0 => a \in 1..Len(args) /\ a < Len(args) /\ \A j \in 1..(a - 1) : j \in 1..b
      BY <1>1
    <3> QED BY <1>2, <1>3, <1>5, <2>1, <3>1
  <2>3. b \in cuts \cup {Len(args)}
    <3>1. b # Len(args) => b < Len(args) /\ \A j \in 1..(b - 1) : j \in 1..b
      BY <1>1
    <3> QED BY <1>1, <1>2, <1>3, <1>5, <2>1, <3>1
  <2>4. \A k \in cuts : k <= a \/ b <= k
    <3> TAKE k \in cuts
    <3>1. k \in 1..Len(args)
      BY <1>3
    <3>2. kind(k) \in Stream!Closing \/ kind(k) \in Stream!Breaking
      BY <1>3 DEF Stream!Breaking
    <3>3. ~ (k <= a \/ b <= k) => k \in (a + 1)..(b - 1) /\ k \in 1..b
      BY <1>1, <3>1
    <3> QED BY <1>2, <2>1, <3>2, <3>3
  <2>5. <<a, b>>[1] = a /\ <<a, b>>[2] = b /\ <<a, b>> \in ({0} \cup cuts) \X (cuts \cup {Len(args)})
    BY <2>2, <2>3
  <2> QED BY <1>1, <2>4, <2>5 DEF Stream!Parts, cuts
<1> QED BY <1>4, <1>5

\* Arguments that consist of unspoilt objects have no other parts.
LEMMA PartsAreObjects ==
  ASSUME NEW provider, NEW script, NEW args \in Seq(Pieces), args # <<>>,
         script[args[Len(args)].at].kind \in Stream!Closing,
         Stream!Unspoilt(provider, script, args, Len(args)),
         NEW p \in Stream!Parts(provider, script, args)
  PROVE  Stream!IsObject(script, args, p[1], p[2]) /\ p[1] < p[2]
<1> DEFINE cuts == Stream!Cuts(provider, script, args)
           kind(j) == script[args[j].at].kind
           a == p[1]
           b == p[2]
           l == Len(args)
<1>1. l \in Nat /\ l >= 1 /\ DOMAIN args = 1..l
  OBVIOUS
<1>2. /\ a \in 0..l /\ b \in a..l /\ (a = 0 \/ a \in cuts) /\ (b = l \/ b \in cuts)
      /\ a < b \/ (a = l /\ b = l)
      /\ \A k \in cuts : k <= a \/ b <= k
  BY PartsFit
<1>3. \A k : k \in cuts <=>
        /\ k \in 1..l /\ provider # "anthropic"
        /\ (kind(k) \in Stream!Closing \cup Stream!Breaking /\ k < l) \/ kind(k) = "torn"
        /\ \A j \in 1..(k - 1) : kind(j) \notin Stream!Breaking
  BY <1>1 DEF Stream!Cuts
<1>4. kind(l) \in Stream!Closing
  OBVIOUS
<1>5. Stream!IsObject(script, args, a, b) <=>
        a < b /\ (a = 0 \/ kind(a) \in Stream!Closing) /\ kind(b) \in Stream!Closing
        /\ \A k \in (a + 1)..(b - 1) : kind(k) \notin Stream!Closing
  BY DEF Stream!IsObject
<1>6. CASE provider = "anthropic"
  <2>1. \A k \in 1..(l - 1) : kind(k) \notin Stream!Closing
    BY <1>6 DEF Stream!Unspoilt
  <2> HIDE DEF kind, cuts, a, b, l
  <2>2. a = 0 /\ b = l
    BY <1>2, <1>3, <1>6
  <2>3. \A k \in (a + 1)..(b - 1) : k \in 1..(l - 1)
    BY <1>1, <2>2
  <2>4. a < b
    BY <1>1, <2>2
  <2> QED BY <1>4, <1>5, <2>1, <2>2, <2>3, <2>4 DEF a, b
<1>7. CASE provider # "anthropic"
  <2>1. \A k \in 1..l : kind(k) \notin Stream!Breaking /\ kind(k) # "torn"
    BY <1>7 DEF Stream!Unspoilt, Stream!Breaking
  <2> HIDE DEF kind, cuts, a, b, l
  <2>2. \A k : k \in cuts <=> k \in 1..l /\ kind(k) \in Stream!Closing /\ k < l
    <3> TAKE k
    <3>1. k \in 1..l => \A j \in 1..(k - 1) : j \in 1..l
      BY <1>1
    <3> QED BY <1>3, <1>7, <2>1, <3>1
  <2>3. a < b
    BY <1>1, <1>2, <2>2
  <2>4. \A k \in (a + 1)..(b - 1) : kind(k) \notin Stream!Closing
    <3> TAKE k \in (a + 1)..(b - 1)
    <3>1. k \in 1..l /\ k < l /\ ~ (k <= a \/ b <= k)
      BY <1>1, <1>2
    <3> QED BY <1>2, <2>2, <3>1
  <2> QED BY <1>2, <1>4, <1>5, <2>2, <2>3, <2>4 DEF a, b
<1> QED BY <1>6, <1>7

\* The calls that are returned, one by one.
LEMMA ReturnedIs ==
  ASSUME NEW provider, NEW script, NEW tools, NEW x
  PROVE  x \in Stream!Returned(provider, script, tools) <=>
         /\ \E i \in DOMAIN tools : \E p \in Stream!Parts(provider, script, tools[i].args) :
              x = [call |-> i, part |-> p, name |-> tools[i].name,
                   args |-> Stream!Parsed(script, tools[i].args, p)]
         /\ \/ x.name # <<>>
            \/ IF provider = "anthropic" THEN x.call < Len(tools) ELSE Stream!Told(script, x.args)
BY DEF Stream!Returned

LEMMA ReturnedTypes ==
  ASSUME NEW provider, NEW script, NEW tools \in Seq(CallRecords)
  PROVE  Stream!Returned(provider, script, tools) \in
           SUBSET [call : Nat, part : Nat \X Nat, name : Seq(Pieces), args : Seq(Pieces)]
<1> SUFFICES ASSUME NEW x \in Stream!Returned(provider, script, tools)
             PROVE  x \in [call : Nat, part : Nat \X Nat, name : Seq(Pieces), args : Seq(Pieces)]
  OBVIOUS
<1>1. PICK i \in DOMAIN tools : \E p \in Stream!Parts(provider, script, tools[i].args) :
        x = [call |-> i, part |-> p, name |-> tools[i].name,
             args |-> Stream!Parsed(script, tools[i].args, p)]
  BY ReturnedIs
<1>2. PICK p \in Stream!Parts(provider, script, tools[i].args) :
        x = [call |-> i, part |-> p, name |-> tools[i].name,
             args |-> Stream!Parsed(script, tools[i].args, p)]
  BY <1>1
<1>3. i \in Nat /\ tools[i].name \in Seq(Pieces) /\ tools[i].args \in Seq(Pieces)
  <2>1. i \in Nat /\ tools[i] \in CallRecords
    OBVIOUS
  <2> QED BY <2>1 DEF CallRecords
<1>4. p = <<p[1], p[2]>> /\ p \in Nat \X Nat /\ p[1] \in 0..Len(tools[i].args) /\ p[2] \in p[1]..Len(tools[i].args)
  BY <1>3, PartsFit
<1>5. Stream!Parsed(script, tools[i].args, p) \in Seq(Pieces)
  <2> DEFINE args == tools[i].args
             a == p[1]
             b == p[2]
             z == Stream!Parsed(script, args, <<a, b>>)
  <2>0. args \in Seq(Pieces) /\ a \in 0..Len(args) /\ b \in a..Len(args) /\ p = <<a, b>>
    BY <1>3, <1>4
  <2> HIDE DEF args, a, b
  <2>1. SubSeq(args, a + 1, b) \in Seq(Pieces) /\ (z # <<>> => z = SubSeq(args, a + 1, b))
    BY <2>0, PartIsParsed
  <2>2. <<>> \in Seq(Pieces)
    OBVIOUS
  <2>3. z \in Seq(Pieces)
    BY <2>1, <2>2, Zenon
  <2> QED BY <2>0, <2>3 DEF args
<1> QED BY <1>2, <1>3, <1>4, <1>5

\* The apology comes before what was held back.
LEMMA ApologyFirst ==
  ASSUME NEW c, c.try \in Nat, c.round \in Nat, NEW x, NEW P, Lists(x, P, c), 0 \notin P
  PROVE  Lists(<<PieceOf(c, 0)>> \o x, {0} \cup P, c)
<1> DEFINE e == PieceOf(c, 0)
           y == <<e>> \o x
           l == Len(x)
<1>1. e \in Pieces /\ e.at = 0 /\ <<e>> \in Seq(Pieces)
  BY DEF PieceOf, Pieces
<1>2. x \in Seq(Pieces) /\ l \in Nat /\ DOMAIN x = 1..l
  BY DEF Lists
<1>3. /\ y \in Seq(Pieces) /\ Len(y) = l + 1 /\ DOMAIN y = 1..(l + 1)
      /\ y[1] = e /\ \A i \in 2..(l + 1) : y[i] = x[i - 1]
  BY <1>1, <1>2
<1>4. IsFiniteSet({0} \cup P) /\ Cardinality({0} \cup P) = l + 1 /\ {0} \cup P \subseteq Nat
  <2>1. {0} \cup P = P \cup {0}
    OBVIOUS
  <2> QED BY <2>1, FS_AddElement DEF Lists
<1>5. /\ \A i \in 1..l : \E q \in P : x[i] = PieceOf(c, q)
      /\ \A q \in P : \E i \in 1..l : x[i] = PieceOf(c, q)
  BY <1>2 DEF Lists
<1>6. \A i \in 1..l : x[i].at > 0
  <2> TAKE i \in 1..l
  <2>1. PICK q \in P : x[i] = PieceOf(c, q)
    BY <1>5
  <2>2. x[i].at = q /\ q \in Nat /\ q # 0
    BY <2>1 DEF PieceOf, Lists
  <2> QED BY <2>2
<1> HIDE DEF y, l, e
<1>7. \A i \in 1..(l + 1) : i = 1 \/ (i \in 2..(l + 1) /\ i - 1 \in 1..l)
  BY <1>2
<1>8. {y[i] : i \in DOMAIN y} = {PieceOf(c, q) : q \in {0} \cup P}
  <2>1. ASSUME NEW i \in 1..(l + 1) PROVE \E q \in {0} \cup P : y[i] = PieceOf(c, q)
    BY <1>3, <1>5, <1>7 DEF e
  <2>2. ASSUME NEW q \in {0} \cup P PROVE \E i \in 1..(l + 1) : y[i] = PieceOf(c, q)
    <3>1. CASE q = 0
      <4>1. 1 \in 1..(l + 1)
        BY <1>2
      <4> QED BY <1>3, <3>1, <4>1 DEF e
    <3>2. CASE q \in P
      <4>1. PICK i \in 1..l : x[i] = PieceOf(c, q)
        BY <1>5, <3>2
      <4>2. i + 1 \in 2..(l + 1) /\ i + 1 \in 1..(l + 1) /\ (i + 1) - 1 = i
        BY <1>2
      <4>3. y[i + 1] = x[(i + 1) - 1]
        BY <1>3, <4>2
      <4>4. y[i + 1] = PieceOf(c, q)
        BY ONLY <4>1, <4>2, <4>3
      <4> QED BY <4>2, <4>4
    <3> QED BY <3>1, <3>2
  <2>3. DOMAIN y = 1..(l + 1)
    BY <1>3
  <2> QED BY ONLY <2>1, <2>2, <2>3
<1>9. \A i, j \in 1..(l + 1) : i < j => y[i].at < y[j].at
  <2> TAKE i, j \in 1..(l + 1)
  <2> SUFFICES ASSUME i < j PROVE y[i].at < y[j].at
    OBVIOUS
  <2>1. j \in 2..(l + 1) /\ j - 1 \in 1..l /\ y[j] = x[j - 1]
    BY <1>2, <1>3, <1>7
  <2>2. CASE i = 1
    BY <1>1, <1>3, <1>6, <2>1, <2>2
  <2>3. CASE i # 1
    <3>1. i \in 2..(l + 1) /\ i - 1 \in 1..l /\ y[i] = x[i - 1] /\ i - 1 < j - 1
      BY <1>2, <1>3, <1>7, <2>3
    <3>2. x[i - 1].at < x[j - 1].at
      BY <1>2, <2>1, <3>1 DEF Lists
    <3> QED BY <2>1, <3>1, <3>2
  <2> QED BY <2>2, <2>3
<1> QED BY <1>3, <1>4, <1>8, <1>9 DEF Lists, y, e

\* A call whose stream has ended.
LEMMA EndKeeps == ASSUME ReceiptInv, NEW s \in Sessions, Stream!EndOfStream(s) PROVE ReceiptInv'
<1> DEFINE c == streamCall[s]
           v == server[s]
           made == Stream!Returned(c.provider, v.script, c.tools)
           apology == Stream!Fallback(s, made)
           rest == IF c.think THEN <<>> ELSE c.held
           d == [c EXCEPT !.pc = "done", !.content = @ \o (apology \o rest), !.held = <<>>, !.calls = made]
           words == Stream!Text(c.provider, Sent(v))
<1>1. /\ c \in Calls /\ v \in Servers /\ Faithful(c, v)
  BY DEF ReceiptInv
<1>2. /\ c.pc = "streaming" /\ server' = server
      /\ streamCall' = [streamCall EXCEPT ![s] = d]
  BY DEF Stream!EndOfStream, Stream!At, ReceiptInv
<1>3. /\ c.try \in Nat /\ c.round \in Nat /\ c.think \in BOOLEAN /\ c.content \in Seq(Pieces)
      /\ c.held \in Seq(Pieces) /\ c.tools \in Seq(CallRecords)
  BY <1>1, CallTypes DEF CallRecords
<1>4. Sent(v) \in Seq(Items)
  <2>1. v.script \in Seq(Items) /\ v.sent \in Nat /\ v.sent <= Len(v.script)
    BY <1>1, <1>2 DEF Servers, Faithful
  <2> QED BY <2>1 DEF Sent
<1>5. TextOk(c, Sent(v)) /\ Listed(c, Sent(v), c.tools) /\ v.script \in Scripts[c.provider] /\ v.sent <= Len(v.script)
  BY <1>1, <1>2 DEF Faithful
<1>6. apology = IF c.provider # "anthropic" /\ c.tools # <<>> /\ made = {} /\ c.content = <<>>
                THEN <<PieceOf(c, 0)>> ELSE <<>>
  BY DEF Stream!Fallback, Stream!Piece, PieceOf
<1>7. made \in SUBSET [call : Nat, part : Nat \X Nat, name : Seq(Pieces), args : Seq(Pieces)]
  BY <1>3, ReturnedTypes
<1> HIDE DEF c, v, made, apology
<1>8. rest \in Seq(Pieces) /\ c.content \o rest \in Seq(Pieces) /\ <<>> \in Seq(Pieces)
  BY <1>3
<1>9. Lists(c.content \o rest, words, c)
  <2>1. CASE c.provider = "openai"
    <3>1. Filtered(c, Sent(v), c.think, c.held, c.content) /\ words = TextOf(Sent(v))
      BY <1>5, <2>1 DEF TextOk, TextOf
    <3>2. CASE c.think
      <4>1. Lists(c.content, TextOf(Sent(v)), c)
        BY <3>1, <3>2 DEF Filtered
      <4>2. c.content \o rest = c.content
        BY <1>3, <3>2, NothingAdded
      <4> QED BY <3>1, <4>1, <4>2
    <3>3. CASE ~ c.think
      <4>1. c.think = FALSE /\ rest = c.held
        BY <1>3, <3>3
      <4>2. Filtered(c, Sent(v), FALSE, c.held, c.content)
        BY <3>1, <4>1
      <4> QED BY <1>3, <1>4, <3>1, <4>1, <4>2, HeldCompletes
    <3> QED BY <3>2, <3>3
  <2>2. CASE c.provider # "openai"
    <3>1. ~ c.think /\ c.held = <<>> /\ Lists(c.content, words, c)
      BY <1>5, <2>2 DEF TextOk
    <3>2. rest = <<>>
      BY <3>1
    <3> QED BY <1>3, <3>1, <3>2, NothingAdded
  <2> QED BY <2>1, <2>2
<1>10. 0 \notin words
  <2>1. words \subseteq DOMAIN Sent(v)
    BY DEF Stream!Text
  <2> QED BY <1>4, <2>1
<1> HIDE DEF rest, words
<1>11. /\ apology \o rest \in Seq(Pieces) /\ c.content \o (apology \o rest) \in Seq(Pieces)
       /\ apology = <<>> => c.content \o (apology \o rest) = c.content \o rest
       /\ apology # <<>> =>
            /\ c.content \o (apology \o rest) = <<PieceOf(c, 0)>> \o (c.content \o rest)
            /\ c.provider # "anthropic" /\ c.tools # <<>> /\ made = {}
            /\ c.content \o (apology \o rest) # <<>>
  <2>1. PieceOf(c, 0) \in Pieces
    BY <1>3 DEF PieceOf, Pieces
  <2>2. CASE apology = <<>>
    <3>1. apology \o rest = rest
      BY <1>8, <2>2
    <3> QED BY <1>8, <2>2, <3>1
  <2>3. CASE apology # <<>>
    <3>1. /\ apology = <<PieceOf(c, 0)>> /\ c.content = <<>>
          /\ c.provider # "anthropic" /\ c.tools # <<>> /\ made = {}
      BY <1>6, <2>3
    <3> HIDE DEF Pieces
    <3>2. /\ apology \o rest \in Seq(Pieces) /\ Len(apology \o rest) > 0
      BY <1>8, <2>1, <3>1
    <3>3. c.content \o rest = rest /\ c.content \o (apology \o rest) = apology \o rest
      BY <1>8, <3>1, <3>2
    <3>4. apology \o rest # <<>>
      BY <3>2
    <3> QED BY <2>3, <3>1, <3>2, <3>3, <3>4
  <2> QED BY <2>2, <2>3
<1>12. c.provider # "anthropic" /\ c.tools # <<>> /\ made = {} => c.content \o (apology \o rest) # <<>>
  <2>1. CASE apology # <<>>
    BY <1>11, <2>1
  <2>2. CASE apology = <<>> /\ c.content # <<>>
    <3>1. Len(c.content) > 0 /\ Len(c.content \o rest) = Len(c.content) + Len(rest) /\ Len(rest) \in Nat
      BY <1>3, <1>8, <2>2
    <3>2. Len(c.content \o rest) > 0
      BY <3>1
    <3> QED BY <1>8, <1>11, <2>2, <3>2
  <2>3. CASE apology = <<>> /\ c.content = <<>>
    BY <1>6, <2>3
  <2> QED BY <2>1, <2>2, <2>3
<1>13. /\ d \in Calls /\ d.pc = "done" /\ d.provider = c.provider /\ d.try = c.try
       /\ d.round = c.round /\ d.tools = c.tools /\ d.content = c.content \o (apology \o rest)
       /\ d.calls = made
  BY <1>1, <1>7, <1>8, <1>11 DEF Calls, CallSteps
<1> HIDE DEF d
<1>14. Ended(d, v)
  <2>1. d.calls = Stream!Returned(d.provider, v.script, d.tools)
    BY <1>13 DEF made
  <2>2. CASE apology = <<>>
    <3>1. Lists(d.content, words, d)
      BY <1>9, <1>11, <1>13, <2>2, ListStays
    <3> QED BY <1>12, <1>13, <2>1, <3>1 DEF Ended, words
  <2>3. CASE apology # <<>>
    <3>1. Lists(d.content, {0} \cup words, c)
      BY <1>3, <1>9, <1>10, <1>11, <1>13, <2>3, ApologyFirst
    <3>2. Lists(d.content, {0} \cup words, d)
      BY <1>13, <3>1, ListStays
    <3> QED BY <1>11, <1>12, <1>13, <2>1, <2>3, <3>2 DEF Ended, words
  <2> QED BY <2>2, <2>3
<1>15. Listed(d, Sent(v), d.tools)
  BY <1>5, <1>13, ListedStays
<1>16. Faithful(d, v)
  BY <1>5, <1>13, <1>14, <1>15 DEF Faithful
<1>17. server' = [server EXCEPT ![s] = v]
  BY <1>2, ServerSame DEF v
<1> QED BY <1>1, <1>2, <1>13, <1>16, <1>17, ReceiptStep

\* A call that asks, or asks again, has received nothing.
LEMMA AskingKeeps ==
  ASSUME ReceiptInv, NEW s \in Sessions, NEW d \in Calls, Blank(d), d.pc = "request",
         streamCall' = [streamCall EXCEPT ![s] = d], UNCHANGED server
  PROVE  ReceiptInv'
<1>1. Faithful(d, server[s]) /\ server[s] \in Servers
  BY DEF Faithful, ReceiptInv
<1>2. server' = [server EXCEPT ![s] = server[s]]
  BY ServerSame
<1> QED BY <1>1, <1>2, ReceiptStep

\* A call that is tried again, or fails.
LEMMA RetryKeeps == ASSUME ReceiptInv, NEW s \in Sessions, Stream!Retry(s), UNCHANGED server PROVE ReceiptInv'
<1> DEFINE d == Stream!Retried(s, Stream!Nothing)
<1>1. streamCall[s] \in Calls /\ streamCall' = [streamCall EXCEPT ![s] = d]
  BY DEF ReceiptInv, Stream!Retry, Stream!Forget
<1>2. <<>> \in Seq(Pieces) /\ <<>> \in Seq([name : Seq(Pieces), args : Seq(Pieces)]) /\ streamCall[s].try + 1 \in Nat
  BY <1>1, CallTypes
<1>3. d \in Calls /\ d.pc = "request" /\ Blank(d)
  BY <1>1, <1>2 DEF Stream!Retried, Stream!Nothing, Blank, Calls, CallSteps
<1> HIDE DEF d
<1> QED BY <1>1, <1>3, AskingKeeps

LEMMA FailKeeps == ASSUME ReceiptInv, NEW s \in Sessions, Stream!Fail(s), UNCHANGED server PROVE ReceiptInv'
<1> DEFINE d == [streamCall[s] EXCEPT !.pc = "failed"]
<1>1. streamCall[s] \in Calls /\ streamCall' = [streamCall EXCEPT ![s] = d]
  BY DEF ReceiptInv, Stream!Fail
<1>2. d \in Calls /\ d.pc = "failed"
  BY <1>1 DEF Calls, CallSteps
<1>3. Faithful(d, server[s]) /\ server[s] \in Servers
  BY <1>2 DEF Faithful, ReceiptInv
<1>4. server' = [server EXCEPT ![s] = server[s]]
  BY ServerSame
<1> HIDE DEF d
<1> QED BY <1>1, <1>2, <1>3, <1>4, ReceiptStep

\* Every step keeps what has been received faithful.
LEMMA ReceiptNext == ReceiptInv /\ [Stream!Next]_(Stream!vars) => ReceiptInv'
<1> SUFFICES ASSUME ReceiptInv, [Stream!Next]_(Stream!vars) PROVE ReceiptInv'
  OBVIOUS
<1>1. ASSUME NEW s \in Sessions, Stream!Send(s) PROVE ReceiptInv'
  <2> DEFINE d == [streamCall[s] EXCEPT !.pc = "request"]
  <2>1. /\ streamCall[s] \in Calls /\ streamCall' = [streamCall EXCEPT ![s] = d]
        /\ server' = server /\ Blank(streamCall[s])
    BY <1>1 DEF ReceiptInv, Faithful, Stream!Send, Stream!At
  <2>2. d \in Calls /\ d.pc = "request" /\ Blank(d)
    BY <2>1 DEF Calls, CallSteps, Blank
  <2> HIDE DEF d
  <2> QED BY <2>1, <2>2, AskingKeeps
<1>2. ASSUME NEW s \in Sessions, Stream!Respond(s) PROVE ReceiptInv'
  <2> DEFINE d == [streamCall[s] EXCEPT !.pc = "streaming"]
  <2>1. /\ streamCall[s] \in Calls /\ streamCall' = [streamCall EXCEPT ![s] = d]
        /\ Blank(streamCall[s])
    BY <1>2 DEF ReceiptInv, Faithful, Stream!Respond, Stream!At
  <2>2. d \in Calls /\ d.pc = "streaming" /\ d.provider = streamCall[s].provider /\ Blank(d)
    BY <2>1 DEF Calls, CallSteps, Blank
  <2>3. PICK script \in Scripts[streamCall[s].provider] :
          server' = [server EXCEPT ![s] = [script |-> script, sent |-> 0]]
    BY <1>2 DEF Stream!Respond
  <2>4. script \in Seq(Items)
    <3>1. streamCall[s].provider \in Providers
      BY <2>1, CallTypes
    <3> QED BY <2>3, <3>1, ScriptsAssumption DEF Stream!Orderly, Items
  <2> DEFINE w == [script |-> script, sent |-> 0]
  <2>5. w \in Servers /\ w.script = script /\ w.sent = 0 /\ w.sent <= Len(w.script)
    BY <2>4 DEF Servers
  <2> HIDE DEF d, w
  <2>6. Listed(d, Sent(w), d.tools) /\ TextOk(d, Sent(w))
    BY <2>2, <2>4, <2>5, NothingReceived DEF Sent
  <2>7. Faithful(d, w)
    BY <2>2, <2>3, <2>5, <2>6 DEF Faithful
  <2>8. server' = [server EXCEPT ![s] = w]
    BY <2>3 DEF w
  <2> QED BY <2>1, <2>2, <2>5, <2>7, <2>8, ReceiptStep
<1>3. ASSUME NEW s \in Sessions, Stream!NextRound(s) PROVE ReceiptInv'
  <2> DEFINE d == [Stream!Retried(s, Stream!Nothing) EXCEPT !.try = 1, !.round = 1]
  <2>1. streamCall[s] \in Calls /\ streamCall' = [streamCall EXCEPT ![s] = d] /\ server' = server
    BY <1>3 DEF ReceiptInv, Stream!NextRound
  <2>2. <<>> \in Seq(Pieces) /\ <<>> \in Seq([name : Seq(Pieces), args : Seq(Pieces)])
    OBVIOUS
  <2>3. d \in Calls /\ d.pc = "request" /\ Blank(d)
    BY <2>1, <2>2 DEF Stream!Retried, Stream!Nothing, Blank, Calls, CallSteps
  <2> HIDE DEF d
  <2> QED BY <2>1, <2>3, AskingKeeps
<1>4. ASSUME NEW s \in Sessions,
             Stream!RequestFails(s) \/ Stream!StreamFails(s) \/ Stream!EmptyAnswer(s)
      PROVE  ReceiptInv'
  <2>1. (Stream!Retry(s) \/ Stream!Fail(s)) /\ UNCHANGED server
    BY <1>4 DEF Stream!RequestFails, Stream!StreamFails, Stream!EmptyAnswer
  <2> QED BY <2>1, RetryKeeps, FailKeeps
<1>5. ASSUME UNCHANGED Stream!vars PROVE ReceiptInv'
  BY <1>5 DEF Stream!vars, ReceiptInv
<1> QED BY <1>1, <1>2, <1>3, <1>4, <1>5, ReceiveKeeps, EndKeeps DEF Stream!Next

\* Nothing has been asked at the start.
LEMMA ReceiptInit == Stream!Init => ReceiptInv
<1> SUFFICES ASSUME Stream!Init PROVE ReceiptInv
  OBVIOUS
<1>1. PICK provider \in [Sessions -> Providers] :
        streamCall = [s \in Sessions |->
          [pc |-> "idle", provider |-> provider[s], round |-> 0, try |-> 1,
           content |-> <<>>, tools |-> <<>>, think |-> FALSE, held |-> <<>>, calls |-> {}]]
  BY DEF Stream!Init
<1>2. server = [s \in Sessions |-> [script |-> <<>>, sent |-> 0]]
  BY DEF Stream!Init
<1>3. <<>> \in Seq(Pieces) /\ <<>> \in Seq([name : Seq(Pieces), args : Seq(Pieces)]) /\ <<>> \in Seq(Items)
  OBVIOUS
<1>4. ASSUME NEW s \in Sessions
      PROVE  /\ streamCall[s] \in Calls /\ streamCall[s].pc = "idle" /\ Blank(streamCall[s])
             /\ server[s] \in Servers
  <2>1. provider[s] \in Providers
    OBVIOUS
  <2> QED BY <1>1, <1>2, <1>3, <2>1 DEF Calls, CallSteps, Blank, Servers
<1>5. \A s \in Sessions : Faithful(streamCall[s], server[s])
  BY <1>4 DEF Faithful
<1>6. streamCall \in [Sessions -> Calls] /\ server \in [Sessions -> Servers]
  BY <1>1, <1>2, <1>4
<1> QED BY <1>5, <1>6 DEF ReceiptInv

\* The module's instance of FiniteSets is the same.
LEMMA SameCardinality == ASSUME NEW P PROVE Stream!Cardinality(P) = Cardinality(P)
BY DEF Stream!Cardinality, Cardinality

\* The answer of a call that is done.
LEMMA ListIsOf ==
  ASSUME NEW s, NEW x, NEW P, Lists(x, P, streamCall[s])
  PROVE  Stream!IsOf(s, x, P)
<1>1. \A n : Stream!Piece(s, n) = PieceOf(streamCall[s], n)
  BY DEF Stream!Piece, PieceOf
<1>2. {Stream!Piece(s, n) : n \in P} = {PieceOf(streamCall[s], n) : n \in P}
  BY <1>1
<1>3. /\ Len(x) = Cardinality(P) /\ {x[i] : i \in DOMAIN x} = {PieceOf(streamCall[s], n) : n \in P}
      /\ \A i, j \in DOMAIN x : i < j => x[i].at < x[j].at
  BY DEF Lists
<1>4. {x[i] : i \in DOMAIN x} = {Stream!Piece(s, n) : n \in P}
  BY <1>2, <1>3
<1>5. Len(x) = Stream!Cardinality(P)
  BY <1>3, SameCardinality
<1> QED BY <1>3, <1>4, <1>5 DEF Stream!IsOf

\* What was received is taken.
LEMMA ReceiptIsTaken == ReceiptInv => Stream!LastTryIsTaken
<1> SUFFICES ASSUME ReceiptInv, NEW s \in Sessions, streamCall[s].pc = "done"
             PROVE  LET c == streamCall[s]
                        r == Stream!Received(s) IN
                    /\ Len(c.tools) = Cardinality(Stream!CallsIn(r))
                    /\ \A i \in DOMAIN c.tools :
                         /\ Stream!IsOf(s, c.tools[i].name, Stream!Names(r, i))
                         /\ Stream!IsOf(s, c.tools[i].args, Stream!Arguments(r, i))
                    /\ \/ Stream!IsOf(s, c.content, Stream!Text(c.provider, r))
                       \/ /\ Stream!IsOf(s, c.content, {0} \cup Stream!Text(c.provider, r))
                          /\ c.calls = {} /\ c.tools # <<>>
  BY SameCardinality DEF Stream!LastTryIsTaken, Stream!At
<1> DEFINE c == streamCall[s]
           r == Stream!Received(s)
<1>1. Ended(c, server[s]) /\ Listed(c, r, c.tools) /\ Sent(server[s]) = r
  BY DEF ReceiptInv, Faithful, Sent, Stream!Received
<1>2. c.tools \in Seq(CallRecords) /\ Stream!CallsIn(r) = 1..Len(c.tools)
      /\ \A i \in 1..Len(c.tools) : /\ Lists(c.tools[i].args, Stream!Arguments(r, i), c)
                                    /\ Lists(c.tools[i].name, Stream!Names(r, i), c)
  BY <1>1, KindsOfPieces DEF Listed
<1>3. \/ Lists(c.content, Stream!Text(c.provider, r), c)
      \/ Lists(c.content, {0} \cup Stream!Text(c.provider, r), c) /\ c.calls = {} /\ c.tools # <<>>
  BY <1>1 DEF Ended
<1> HIDE DEF r
<1>4. DOMAIN c.tools = 1..Len(c.tools) /\ Len(c.tools) \in Nat
  BY <1>2
<1>5. Cardinality(1..Len(c.tools)) = Len(c.tools)
  <2>1. 1 \in Int /\ Len(c.tools) \in Int
    BY <1>4
  <2>2. Cardinality(1..Len(c.tools)) = IF 1 > Len(c.tools) THEN 0 ELSE Len(c.tools) - 1 + 1
    BY <2>1, FS_Interval
  <2> QED BY <1>4, <2>2
<1>6. \/ Stream!IsOf(s, c.content, Stream!Text(c.provider, r))
      \/ Stream!IsOf(s, c.content, {0} \cup Stream!Text(c.provider, r)) /\ c.calls = {} /\ c.tools # <<>>
  BY <1>3, ListIsOf
<1>7. \A i \in DOMAIN c.tools : /\ Stream!IsOf(s, c.tools[i].name, Stream!Names(r, i))
                                /\ Stream!IsOf(s, c.tools[i].args, Stream!Arguments(r, i))
  BY <1>2, <1>4, ListIsOf
<1> QED BY <1>2, <1>5, <1>6, <1>7 DEF r

\* A call that is returned.
LEMMA ReturnedPart ==
  ASSUME NEW provider, NEW script, NEW tools \in Seq(CallRecords),
         NEW x \in Stream!Returned(provider, script, tools)
  PROVE  LET args == tools[x.call].args
             a == x.part[1]
             b == x.part[2] IN
         /\ x.call \in DOMAIN tools /\ x.name = tools[x.call].name /\ args \in Seq(Pieces)
         /\ x = [call |-> x.call, part |-> <<a, b>>, name |-> x.name, args |-> x.args]
         /\ x.part \in Stream!Parts(provider, script, args)
         /\ a \in 0..Len(args) /\ b \in a..Len(args)
         /\ Stream!IsObject(script, args, a, b) => x.args = SubSeq(args, a + 1, b)
         /\ x.args # <<>> => Stream!IsObject(script, args, a, b) /\ x.args = SubSeq(args, a + 1, b)
<1>1. PICK i \in DOMAIN tools : \E p \in Stream!Parts(provider, script, tools[i].args) :
        x = [call |-> i, part |-> p, name |-> tools[i].name,
             args |-> Stream!Parsed(script, tools[i].args, p)]
  BY ReturnedIs
<1>2. PICK p \in Stream!Parts(provider, script, tools[i].args) :
        x = [call |-> i, part |-> p, name |-> tools[i].name,
             args |-> Stream!Parsed(script, tools[i].args, p)]
  BY <1>1
<1>3. /\ x.call = i /\ x.part = p /\ x.name = tools[i].name
      /\ x.args = Stream!Parsed(script, tools[i].args, p)
  BY <1>2
<1>4. tools[i].args \in Seq(Pieces)
  <2>1. tools[i] \in CallRecords
    OBVIOUS
  <2> QED BY <2>1 DEF CallRecords
<1>5. p = <<p[1], p[2]>> /\ p[1] \in 0..Len(tools[i].args) /\ p[2] \in p[1]..Len(tools[i].args)
  BY <1>4, PartsFit
<1> DEFINE args == tools[i].args
           a == p[1]
           b == p[2]
           o == SubSeq(args, a + 1, b)
<1>6. args \in Seq(Pieces) /\ a \in 0..Len(args) /\ b \in a..Len(args) /\ p = <<a, b>>
  BY <1>4, <1>5
<1>7. x.args = Stream!Parsed(script, args, <<a, b>>) /\ x.call = i /\ x.part = p /\ x.name = tools[i].name
  BY <1>3, <1>6
<1>8. x = [call |-> x.call, part |-> <<a, b>>, name |-> x.name, args |-> x.args]
  BY <1>2, <1>3, <1>6
<1> HIDE DEF args, a, b, o
<1>9. /\ Stream!IsObject(script, args, a, b) => x.args = o
      /\ x.args # <<>> => Stream!IsObject(script, args, a, b) /\ x.args = o
  BY <1>6, <1>7, PartIsParsed DEF o
<1> QED BY <1>6, <1>7, <1>8, <1>9 DEF args, a, b, o

\* No object is returned twice.
LEMMA ReturnedOnce ==
  ASSUME NEW provider, NEW script, NEW tools \in Seq(CallRecords),
         NEW x \in Stream!Returned(provider, script, tools),
         NEW y \in Stream!Returned(provider, script, tools),
         x.call = y.call, x.args = y.args, x.args # <<>>,
         \A i, j \in DOMAIN tools[x.call].args :
           i < j => tools[x.call].args[i].at < tools[x.call].args[j].at
  PROVE  x = y
<1> DEFINE args == tools[x.call].args
           a == x.part[1]
           b == x.part[2]
           k == y.part[1]
           l == y.part[2]
<1>1. /\ x = [call |-> x.call, part |-> <<a, b>>, name |-> x.name, args |-> x.args]
      /\ y = [call |-> y.call, part |-> <<k, l>>, name |-> y.name, args |-> y.args]
      /\ x.name = tools[x.call].name /\ y.name = tools[x.call].name /\ args \in Seq(Pieces)
      /\ a \in 0..Len(args) /\ b \in a..Len(args) /\ k \in 0..Len(args) /\ l \in k..Len(args)
      /\ Stream!IsObject(script, args, a, b) /\ x.args = SubSeq(args, a + 1, b)
      /\ Stream!IsObject(script, args, k, l) /\ y.args = SubSeq(args, k + 1, l)
  <2>1. /\ x = [call |-> x.call, part |-> <<a, b>>, name |-> x.name, args |-> x.args]
        /\ x.name = tools[x.call].name /\ args \in Seq(Pieces)
        /\ a \in 0..Len(args) /\ b \in a..Len(args)
        /\ Stream!IsObject(script, args, a, b) /\ x.args = SubSeq(args, a + 1, b)
    BY ReturnedPart
  <2>2. tools[y.call].args = args /\ y.args # <<>>
    OBVIOUS
  <2>3. /\ y = [call |-> y.call, part |-> <<k, l>>, name |-> y.name, args |-> y.args]
        /\ y.name = tools[y.call].name
        /\ k \in 0..Len(args) /\ l \in k..Len(args)
        /\ Stream!IsObject(script, args, k, l) /\ y.args = SubSeq(args, k + 1, l)
    BY <2>2, ReturnedPart
  <2> QED BY <2>1, <2>3
<1>2. a < b /\ k < l
  BY <1>1 DEF Stream!IsObject
<1> HIDE DEF args, a, b, k, l
<1>3. /\ Len(x.args) = b - a /\ x.args[b - a] = args[b]
      /\ Len(x.args) = l - k /\ x.args[l - k] = args[l]
  <2>1. Len(SubSeq(args, a + 1, b)) = b - a /\ SubSeq(args, a + 1, b)[b - a] = args[b]
    BY <1>1, <1>2, PartIsParsed
  <2>2. Len(SubSeq(args, k + 1, l)) = l - k /\ SubSeq(args, k + 1, l)[l - k] = args[l]
    BY <1>1, <1>2, PartIsParsed
  <2>3. x.args = SubSeq(args, a + 1, b) /\ x.args = SubSeq(args, k + 1, l)
    BY <1>1
  <2> QED BY ONLY <2>1, <2>2, <2>3
<1>4. \A i \in DOMAIN args : args[i].at \in Nat
  <2>1. \A i \in DOMAIN args : args[i] \in Pieces
    BY <1>1
  <2> QED BY <2>1 DEF Pieces
<1>5. \A i, j \in DOMAIN args : i < j => args[i].at < args[j].at
  BY DEF args
<1>6. DOMAIN args = 1..Len(args) /\ Len(args) \in Nat
  BY <1>1
<1>7. b - a = l - k /\ args[b] = args[l]
  BY <1>3
<1>8. b \in DOMAIN args /\ l \in DOMAIN args /\ a \in Nat /\ k \in Nat
  BY <1>1, <1>2, <1>6
<1>9. b = l
  <2>1. args[b].at = args[l].at /\ args[b].at \in Nat
    BY <1>4, <1>7, <1>8
  <2>2. ~ (b < l) /\ ~ (l < b)
    BY <1>5, <1>8, <2>1
  <2> QED BY <1>6, <1>8, <2>2
<1>10. a = k
  BY <1>6, <1>7, <1>8, <1>9
<1> QED BY <1>1, <1>9, <1>10

\* What is made of the calls at the end.
LEMMA ReceiptIsSound == ReceiptInv => Stream!CallsAreSound
<1> SUFFICES ASSUME ReceiptInv, NEW s \in Sessions, streamCall[s].pc = "done"
             PROVE  LET c == streamCall[s]
                        script == server[s].script IN
      /\ \A x \in c.calls :
           LET args == c.tools[x.call].args IN
           /\ x.call \in DOMAIN c.tools /\ x.name = c.tools[x.call].name
           /\ x.args # <<>> => \E b \in DOMAIN args : \E a \in 0..b :
                Stream!IsObject(script, args, a, b) /\ x.args = SubSeq(args, a + 1, b)
           /\ x.args = <<>> => ~ (/\ args # <<>> /\ script[args[Len(args)].at].kind \in Stream!Closing
                                  /\ Stream!Unspoilt(c.provider, script, args, Len(args)))
           /\ \A y \in c.calls : x.call = y.call /\ x.args = y.args /\ x.args # <<>> => x = y
      /\ \A i \in DOMAIN c.tools : \A b \in DOMAIN c.tools[i].args : \A a \in 0..b :
           LET args == c.tools[i].args IN
           /\ Stream!IsObject(script, args, a, b) /\ Stream!Unspoilt(c.provider, script, args, b)
           /\ \/ c.tools[i].name # <<>>
              \/ c.provider # "anthropic" /\ script[args[b].at].kind # "vague"
           => \E x \in c.calls : x.call = i /\ x.args = SubSeq(args, a + 1, b)
      /\ c.provider # "anthropic" /\ c.tools # <<>> => c.content # <<>> \/ c.calls # {}
  BY DEF Stream!CallsAreSound, Stream!At
<1> DEFINE c == streamCall[s]
           script == server[s].script
           tools == c.tools
<1>1. Ended(c, server[s]) /\ Listed(c, Sent(server[s]), tools)
  BY DEF ReceiptInv, Faithful
<1>2. /\ c.calls = Stream!Returned(c.provider, script, tools)
      /\ c.provider # "anthropic" /\ tools # <<>> => c.content # <<>> \/ c.calls # {}
  BY <1>1 DEF Ended
<1>3. /\ tools \in Seq(CallRecords)
      /\ \A i \in DOMAIN tools : \A j, k \in DOMAIN tools[i].args :
           j < k => tools[i].args[j].at < tools[i].args[k].at
  BY <1>1 DEF Listed, Lists
<1> HIDE DEF c, script, tools
<1>4. ASSUME NEW x \in c.calls
      PROVE  LET args == tools[x.call].args IN
             /\ x.call \in DOMAIN tools /\ x.name = tools[x.call].name
             /\ x.args # <<>> => \E b \in DOMAIN args : \E a \in 0..b :
                  Stream!IsObject(script, args, a, b) /\ x.args = SubSeq(args, a + 1, b)
             /\ x.args = <<>> => ~ (/\ args # <<>> /\ script[args[Len(args)].at].kind \in Stream!Closing
                                    /\ Stream!Unspoilt(c.provider, script, args, Len(args)))
             /\ \A y \in c.calls : x.call = y.call /\ x.args = y.args /\ x.args # <<>> => x = y
  <2> DEFINE args == tools[x.call].args
             a == x.part[1]
             b == x.part[2]
  <2>1. /\ x.call \in DOMAIN tools /\ x.name = tools[x.call].name /\ args \in Seq(Pieces)
        /\ x.part \in Stream!Parts(c.provider, script, args)
        /\ a \in 0..Len(args) /\ b \in a..Len(args)
        /\ Stream!IsObject(script, args, a, b) => x.args = SubSeq(args, a + 1, b)
        /\ x.args # <<>> => Stream!IsObject(script, args, a, b) /\ x.args = SubSeq(args, a + 1, b)
    BY <1>2, <1>3, ReturnedPart
  <2> HIDE DEF args, a, b
  <2>2. ASSUME x.args # <<>>
        PROVE  \E m \in DOMAIN args : \E k \in 0..m :
                 Stream!IsObject(script, args, k, m) /\ x.args = SubSeq(args, k + 1, m)
    <3>1. a < b
      BY <2>1, <2>2 DEF Stream!IsObject
    <3>2. b \in DOMAIN args /\ a \in 0..b
      BY <2>1, <3>1
    <3> QED BY <2>1, <2>2, <3>2
  <2>3. ASSUME args # <<>>, script[args[Len(args)].at].kind \in Stream!Closing,
               Stream!Unspoilt(c.provider, script, args, Len(args))
        PROVE  x.args # <<>>
    <3>1. Stream!IsObject(script, args, a, b) /\ a < b
      BY <2>1, <2>3, PartsAreObjects DEF a, b
    <3>2. x.args = SubSeq(args, a + 1, b) /\ Len(SubSeq(args, a + 1, b)) = b - a
      BY <2>1, <3>1, PartIsParsed
    <3>3. b - a > 0
      BY <2>1, <3>1
    <3>4. Len(x.args) > 0
      BY <3>2, <3>3
    <3> QED BY <3>4
  <2>4. \A y \in c.calls : x.call = y.call /\ x.args = y.args /\ x.args # <<>> => x = y
    BY <1>2, <1>3, <2>1, ReturnedOnce
  <2> QED BY <2>1, <2>2, <2>3, <2>4 DEF args
<1>5. ASSUME NEW i \in DOMAIN tools, NEW b \in DOMAIN tools[i].args, NEW a \in 0..b,
             Stream!IsObject(script, tools[i].args, a, b),
             Stream!Unspoilt(c.provider, script, tools[i].args, b),
             \/ tools[i].name # <<>>
             \/ c.provider # "anthropic" /\ script[tools[i].args[b].at].kind # "vague"
      PROVE  \E x \in c.calls : x.call = i /\ x.args = SubSeq(tools[i].args, a + 1, b)
  <2> DEFINE args == tools[i].args
             stretch == SubSeq(args, a + 1, b)
             x == [call |-> i, part |-> <<a, b>>, name |-> tools[i].name,
                   args |-> Stream!Parsed(script, args, <<a, b>>)]
  <2>1. args \in Seq(Pieces)
    <3>1. tools[i] \in CallRecords
      BY <1>3
    <3> QED BY <3>1 DEF CallRecords
  <2>2. a \in 0..Len(args) /\ b \in a..Len(args) /\ a < b
    BY <1>5, <2>1 DEF Stream!IsObject
  <2>3. <<a, b>> \in Stream!Parts(c.provider, script, args)
    BY <1>5, <2>1, ObjectsAreParts
  <2>4. /\ Stream!Parsed(script, args, <<a, b>>) = stretch
        /\ Len(stretch) = b - a /\ stretch[b - a] = args[b]
    BY <1>5, <2>1, <2>2, PartIsParsed
  <2> HIDE DEF args, stretch
  <2>5. stretch # <<>> /\ stretch[Len(stretch)] = args[b]
    <3>1. b - a > 0
      BY <2>2
    <3> QED BY <2>4, <3>1
  <2>6. tools[i].name # <<>> \/ (c.provider # "anthropic" /\ Stream!Told(script, stretch))
    BY <1>5, <2>5 DEF Stream!Told, args
  <2>7. x \in Stream!Returned(c.provider, script, tools)
    <3>1. x.name = tools[i].name /\ x.args = stretch
      BY <2>4
    <3>2. \E j \in DOMAIN tools : \E p \in Stream!Parts(c.provider, script, tools[j].args) :
            x = [call |-> j, part |-> p, name |-> tools[j].name,
                 args |-> Stream!Parsed(script, tools[j].args, p)]
      BY <2>3 DEF args
    <3> QED BY <2>6, <3>1, <3>2, ReturnedIs
  <2> QED BY <1>2, <2>4, <2>7 DEF args, stretch
<1> QED BY <1>2, <1>4, <1>5 DEF c, script, tools

\* However often call_stream has tried and wherever each try broke off, what it has at the
\* end is of its last try, and all of that: the text outside the thoughts, which
\* filter_think_tags leaves whole and in order although it holds halves of tags back, and
\* each call with its own name and arguments.  Of what is then made of the calls: each has
\* one of the objects that were received under its name, or {}; an object that is not
\* spoilt by a brace in a string, or by more than one of Anthropic's in a call, is
\* returned once, with the name received or told by its keys; and an apology stands for
\* the text only if all calls were left out.  The page shows that text, unless the loop's
\* first round failed or the call of another session has cleared the page.
THEOREM AnswersAreLastTries == Stream!Spec => []AnswerIsLastTry
<1>1. ReceiptInv => Stream!LastTryIsTaken /\ Stream!CallsAreSound
  BY ReceiptIsTaken, ReceiptIsSound
<1>2. Stream!Spec => [](Stream!LastTryIsTaken /\ Stream!CallsAreSound)
  BY <1>1, ReceiptInit, ReceiptNext, PTL DEF Stream!Spec
<1>3. Stream!LastTryIsTaken /\ Stream!CallsAreSound /\ Stream!PageShowsAnswer => AnswerIsLastTry
  BY DEF AnswerIsLastTry, Stream!AnswerIsLastTry
<1> QED BY <1>2, <1>3, PagesShowAnswers, PTL

-----------------------------------------------------------------------------
(* The files.  What a call takes away when it fills the file is in a       *)
(* backup, in its own text, or excused; and as long as a call was the last *)
(* to change the file, nobody has anything else to note of it.             *)

\* Any set of numbers that is not empty has a least one.
LEMMA LeastExists ==
  ASSUME NEW U \in SUBSET Nat, U # {}
  PROVE  \E k \in U : \A n \in U : k <= n
<1> DEFINE R == OpToRel(<, Nat)
<1>1. IsWellFoundedOn(R, Nat)
  BY NatLessThanWellFounded
<1>2. PICK m \in U : \A n \in U : ~ (<<n, m>> \in R)
  <2> HIDE DEF R
  <2> QED BY <1>1, WFMin
<1>3. \A k, n \in Nat : ~ (<<n, k>> \in R) => k <= n
  BY DEF OpToRel
<1>4. \A n \in U : m <= n
  <2> HIDE DEF R
  <2> QED BY <1>2, <1>3
<1> QED BY <1>4

FileTexts == {Files!NoText} \cup SUBSET Files!Marks

FileCallTypes ==
  [pc : {"idle", "note", "begin", "check", "truncate", "fill", "verify", "register"},
   op : {"none", "read", "write", "edit", "diff", "rollback", "late"},
   path : Spellings \cup {Files!Idle.path},
   text : SUBSET Files!Marks, base : SUBSET Files!Marks]

FileTypeOK ==
  /\ text \subseteq Files!Marks /\ placed \subseteq Files!Marks
  /\ noted \in [Spellings -> FileTexts]
  /\ backups \in [0..MaxTime -> FileTexts]
  /\ now \in 0..MaxTime
  /\ Files!Kept(backups) \subseteq 0..now
  /\ fileCall \in [FileCalls -> FileCallTypes]
  /\ result \in [FileCalls -> {"none", "done", "failed"}]

Writing(c) == fileCall[c].pc \in {"truncate", "fill"}

\* What a call is about to write over.
BaseInv ==
  \A c \in FileCalls : Writing(c) =>
    LET safe == Files!Held(backups) \cup excused IN
    \/ fileCall[c].op \in {"write", "edit", "rollback"} /\ fileCall[c].base \subseteq safe
    \/ fileCall[c].op \in {"diff", "late"} /\ fileCall[c].base \subseteq safe \cup fileCall[c].text

\* Who changed the file last goes on to note it, and the others to note the same.
LastInv ==
  \A c \in FileCalls : last = c =>
    /\ fileCall[c].path \in Spellings
    /\ fileCall[c].pc \in {"idle", "verify", "register"}
    /\ fileCall[c].pc = "idle" => result[c] # "none"
    /\ fileCall[c].pc # "idle" => result[c] = "none" /\ fileCall[c].text = text
    /\ \A d \in FileCalls \ {c} :
         /\ fileCall[d].pc \notin {"verify", "register"}
         /\ fileCall[d].pc = "note" => fileCall[d].text = text

\* A call that is under way has a path and no result, and only writes and edits make backups.
PathInv ==
  \A c \in FileCalls : fileCall[c].pc # "idle" =>
    /\ fileCall[c].path \in Spellings /\ result[c] = "none"
    /\ fileCall[c].pc = "begin" => fileCall[c].op = "write"
    /\ fileCall[c].pc = "check" => fileCall[c].op = "edit"

FileInv ==
  FileTypeOK /\ PathInv /\ BaseInv /\ Files!NothingIsOverwritten /\ LastInv /\ Files!EditsFollowEdits

LEMMA FileInit == Files!Init => FileInv
<1> SUFFICES ASSUME Files!Init PROVE FileInv
  OBVIOUS
<1> USE DEF Files!Init
<1>1. Files!Idle = [pc |-> "idle", op |-> "none", path |-> Files!Idle.path, text |-> {}, base |-> {}]
  BY DEF Files!Idle
<1>2. fileCall \in [FileCalls -> FileCallTypes]
  BY <1>1 DEF FileCallTypes
<1>3. FileTypeOK
  <2>1. Files!Kept(backups) = {}
    BY DEF Files!Kept
  <2> QED BY <1>2, <2>1, FileAssumption DEF FileTypeOK, FileTexts, Files!Marks
<1>4. PathInv /\ BaseInv /\ LastInv /\ Files!EditsFollowEdits
  BY <1>1, FileAssumption DEF PathInv, BaseInv, Writing, LastInv, Files!EditsFollowEdits, Files!NoCall
<1>5. Files!NothingIsOverwritten
  BY DEF Files!NothingIsOverwritten
<1> QED BY <1>3, <1>4, <1>5 DEF FileInv

\* A backup keeps what the file says, and loses nothing that is not excused.
LEMMA TrimmingKeepsLatest ==
  ASSUME NEW b \in [0..MaxTime -> FileTexts],
         NEW n \in Files!Kept(b), Files!Kept(b) \subseteq 0..n
  PROVE  /\ Files!Trimmed(b) \in [0..MaxTime -> FileTexts]
         /\ Files!Trimmed(b)[n] = b[n]
         /\ Files!Kept(Files!Trimmed(b)) \subseteq Files!Kept(b)
<1> DEFINE K == Files!Kept(b)
<1>3. Files!Cardinality(K) = Cardinality(K)
  BY DEF Files!Cardinality, Cardinality
<1>1. CASE Cardinality(K) <= MaxBackups
  BY <1>1, <1>3 DEF Files!Trimmed
<1>2. CASE ~ (Cardinality(K) <= MaxBackups)
  <2>1. K # {n}
    BY <1>2, FS_Singleton, FileAssumption
  <2>2. K \in SUBSET Nat /\ K # {} /\ K \subseteq 0..MaxTime
    BY FileAssumption DEF Files!Kept
  <2>3. Files!Oldest(b) \in K /\ \A u \in K : Files!Oldest(b) <= u
    <3>1. \E k \in K : \A u \in K : k <= u
      BY <2>2, LeastExists
    <3> QED BY <3>1 DEF Files!Oldest
  <2>4. Files!Oldest(b) # n
    <3>1. PICK t \in K : t # n
      BY <2>1
    <3>2. t < n /\ Files!Oldest(b) <= t /\ Files!Oldest(b) \in Nat /\ n \in Nat /\ t \in Nat
      BY <2>2, <2>3, <3>1
    <3> QED BY <3>2
  <2>5. Files!Trimmed(b) = [b EXCEPT ![Files!Oldest(b)] = Files!NoText]
    BY <1>2, <1>3 DEF Files!Trimmed
  <2> QED BY <2>2, <2>3, <2>4, <2>5 DEF Files!Kept, FileTexts
<1> QED BY <1>1, <1>2

LEMMA BackupKeeps ==
  ASSUME FileTypeOK, Files!Backup
  PROVE  /\ backups' \in [0..MaxTime -> FileTexts]
         /\ Files!Kept(backups)' \subseteq 0..now
         /\ text \subseteq Files!Held(backups)'
         /\ Files!Held(backups) \cup excused \subseteq Files!Held(backups)' \cup excused'
<1> DEFINE b == Files!Copied
<1>1. text # Files!NoText
  BY FileAssumption DEF FileTypeOK, Files!NoText
<1>2. /\ b \in [0..MaxTime -> FileTexts]
      /\ b[now] = text /\ now \in Files!Kept(b) /\ Files!Kept(b) \subseteq 0..now
  BY <1>1, FileAssumption DEF FileTypeOK, FileTexts, Files!Copied, Files!Kept
<1> HIDE DEF b
<1>3. backups' = Files!Trimmed(b)
  BY DEF Files!Backup, b
<1>4. /\ backups' \in [0..MaxTime -> FileTexts]
      /\ backups'[now] = text
      /\ Files!Kept(backups)' \subseteq Files!Kept(b)
  BY <1>2, <1>3, TrimmingKeepsLatest
<1>5. text \subseteq Files!Held(backups)'
  BY <1>1, <1>4 DEF Files!Held, Files!Kept, FileTypeOK
<1>6. Files!Held(backups) \cup excused \subseteq Files!Held(backups)' \cup excused'
  BY DEF Files!Backup
<1> QED BY <1>2, <1>4, <1>5, <1>6

\* A call under way stays so with what it writes over, unless it is the one that moves.
AirKept ==
  \A d \in FileCalls : fileCall[d].pc = "fill" =>
    fileCall'[d].pc = "fill" /\ fileCall'[d].base = fileCall[d].base

LEMMA InAirKept == ASSUME AirKept PROVE Files!InAir \subseteq Files!InAir'
BY DEF AirKept, Files!InAir, Files!Is

\* A step of one call that leaves the file, its past and the notes alone.
LEMMA QuietFileStep ==
  ASSUME FileInv, FileTypeOK', PathInv', BaseInv', LastInv', AirKept,
         UNCHANGED <<text, noted, backups, placed, excused, last>>,
         \A c \in FileCalls : last = c /\ Files!Succeeded(c)' =>
           Files!Succeeded(c) /\ fileCall'[c].path = fileCall[c].path
  PROVE  FileInv'
<1>1. Files!NothingIsOverwritten'
  BY InAirKept DEF FileInv, Files!NothingIsOverwritten, Files!Held, Files!Kept
<1>2. Files!EditsFollowEdits'
  BY DEF FileInv, Files!EditsFollowEdits
<1> QED BY <1>1, <1>2 DEF FileInv

\* A call begins: file_read, file_write, file_edit, diff_edit.
LEMMA BeginStep ==
  ASSUME FileInv, NEW c \in FileCalls,
         \/ Files!FileRead(c) \/ Files!FileWrite(c) \/ Files!FileEdit(c) \/ Files!DiffEdit(c)
  PROVE  FileInv'
<1>1. PICK s \in Spellings, pc1 \in {"note", "begin", "check", "truncate"},
           op1 \in {"read", "write", "edit", "diff"}, t \in SUBSET Files!Marks :
        /\ fileCall' = [fileCall EXCEPT ![c] =
                          [pc |-> pc1, op |-> op1, path |-> s, text |-> t, base |-> text]]
        /\ pc1 = "truncate" => op1 = "diff" /\ text \subseteq t
        /\ pc1 = "note" => t = text
        /\ pc1 = "begin" => op1 = "write"
        /\ pc1 = "check" => op1 = "edit"
  BY DEF Files!FileRead, Files!FileWrite, Files!FileEdit, Files!DiffEdit, Files!Call, FileInv,
         FileTypeOK, Files!Marks
<1>2. /\ fileCall[c].pc = "idle" /\ result[c] = "none"
      /\ UNCHANGED <<text, noted, backups, now, result, last, placed, excused>>
  BY DEF Files!FileRead, Files!FileWrite, Files!FileEdit, Files!DiffEdit, Files!Call, Files!Is
<1>3. FileTypeOK'
  <2>1. [pc |-> pc1, op |-> op1, path |-> s, text |-> t, base |-> text] \in FileCallTypes
    BY DEF FileInv, FileTypeOK, FileCallTypes
  <2> QED BY <1>1, <1>2, <2>1 DEF FileInv, FileTypeOK, Files!Kept
<1>4. PathInv' /\ AirKept
  BY <1>1, <1>2 DEF FileInv, FileTypeOK, PathInv, AirKept
<1>5. BaseInv'
  BY <1>1, <1>2 DEF FileInv, FileTypeOK, BaseInv, Writing, Files!Held, Files!Kept
<1>6. LastInv'
  BY <1>1, <1>2 DEF FileInv, FileTypeOK, LastInv
<1>7. \A d \in FileCalls : Files!Succeeded(d)' => Files!Succeeded(d) /\ fileCall'[d].path = fileCall[d].path
  BY <1>1, <1>2 DEF FileInv, FileTypeOK, Files!Succeeded
<1> QED BY <1>2, <1>3, <1>4, <1>5, <1>6, <1>7, QuietFileStep

\* What a call returns with: where it was is left, and it keeps its path and its op.
LEMMA ReturnKeeps ==
  ASSUME FileTypeOK, NEW c \in FileCalls, NEW r \in {"done", "failed"}, Files!Return(c, r)
  PROVE  /\ fileCall' \in [FileCalls -> FileCallTypes]
         /\ result' \in [FileCalls -> {"none", "done", "failed"}]
         /\ fileCall'[c].pc = "idle" /\ result'[c] = r
         /\ fileCall'[c].op = fileCall[c].op /\ fileCall'[c].path = fileCall[c].path
         /\ \A d \in FileCalls \ {c} : fileCall'[d] = fileCall[d] /\ result'[d] = result[d]
<1>1. Files!Idle \in FileCallTypes /\ Files!Idle.pc = "idle"
  BY DEF Files!Idle, FileCallTypes
<1> DEFINE v == [Files!Idle EXCEPT !.op = fileCall[c].op, !.path = fileCall[c].path]
<1>2. v \in FileCallTypes /\ v.pc = "idle" /\ v.op = fileCall[c].op /\ v.path = fileCall[c].path
  BY <1>1 DEF FileTypeOK, FileCallTypes
<1>3. fileCall' = [fileCall EXCEPT ![c] = v] /\ result' = [result EXCEPT ![c] = r]
  BY DEF Files!Return
<1> HIDE DEF v
<1> QED BY <1>2, <1>3 DEF FileTypeOK

LEMMA GotoKeeps ==
  ASSUME FileTypeOK, NEW c \in FileCalls, NEW pc1, NEW t \in SUBSET Files!Marks,
         NEW b \in SUBSET Files!Marks,
         pc1 \in {"truncate", "fill", "verify", "register"}, Files!Goto(c, pc1, t, b)
  PROVE  /\ fileCall' \in [FileCalls -> FileCallTypes]
         /\ fileCall'[c].pc = pc1 /\ fileCall'[c].text = t /\ fileCall'[c].base = b
         /\ fileCall'[c].op = fileCall[c].op /\ fileCall'[c].path = fileCall[c].path
         /\ \A d \in FileCalls \ {c} : fileCall'[d] = fileCall[d]
<1> DEFINE v == [fileCall[c] EXCEPT !.pc = pc1, !.text = t, !.base = b]
<1>1. /\ v \in FileCallTypes /\ v.pc = pc1 /\ v.text = t /\ v.base = b
      /\ v.op = fileCall[c].op /\ v.path = fileCall[c].path
  BY DEF FileTypeOK, FileCallTypes
<1>2. fileCall' = [fileCall EXCEPT ![c] = v]
  BY DEF Files!Goto
<1> HIDE DEF v
<1> QED BY <1>1, <1>2 DEF FileTypeOK

\* A call notes what it read or wrote, which is what the file says if it changed it last.
LEMMA NoteStep ==
  ASSUME FileInv, NEW c \in FileCalls, Files!NoteRead(c) \/ Files!UpdateHash(c)
  PROVE  FileInv'
<1>1. /\ Files!Return(c, "done") /\ Files!Note(c, fileCall[c].text)
      /\ fileCall[c].pc \in {"note", "register"}
      /\ UNCHANGED <<text, backups, now, last, placed, excused>>
  BY DEF Files!NoteRead, Files!UpdateHash, Files!Is
<1>2. /\ fileCall' \in [FileCalls -> FileCallTypes]
      /\ result' \in [FileCalls -> {"none", "done", "failed"}]
      /\ fileCall'[c].pc = "idle" /\ result'[c] = "done"
      /\ fileCall'[c].op = fileCall[c].op /\ fileCall'[c].path = fileCall[c].path
      /\ \A d \in FileCalls \ {c} : fileCall'[d] = fileCall[d] /\ result'[d] = result[d]
  BY <1>1, ReturnKeeps DEF FileInv
<1>3. fileCall[c].path \in Spellings /\ fileCall[c].text \in SUBSET Files!Marks
  BY <1>1 DEF FileInv, FileTypeOK, FileCallTypes, PathInv
<1>4. noted' = [noted EXCEPT ![fileCall[c].path] = fileCall[c].text]
  BY <1>1 DEF Files!Note
<1>5. FileTypeOK'
  BY <1>1, <1>2, <1>3, <1>4 DEF FileInv, FileTypeOK, FileTexts, Files!Kept
<1>6. PathInv' /\ AirKept
  BY <1>1, <1>2 DEF FileInv, PathInv, AirKept
<1>7. BaseInv'
  BY <1>1, <1>2 DEF FileInv, BaseInv, Writing, Files!Held, Files!Kept
<1>8. LastInv'
  BY <1>1, <1>2 DEF FileInv, LastInv
<1>9. Files!NothingIsOverwritten'
  BY <1>1, <1>6, InAirKept DEF FileInv, Files!NothingIsOverwritten, Files!Held, Files!Kept
<1>10. Files!EditsFollowEdits'
  <2> SUFFICES ASSUME NEW d \in FileCalls, last = d, Files!Succeeded(d)'
               PROVE  noted'[fileCall'[d].path] = text
    BY <1>1 DEF Files!EditsFollowEdits
  <2>1. CASE d = c
    BY <1>1, <1>2, <1>3, <1>4, <2>1 DEF FileInv, FileTypeOK, LastInv
  <2>2. CASE d # c
    <3>1. Files!Succeeded(d) /\ fileCall'[d].path = fileCall[d].path
      BY <1>2, <2>2 DEF Files!Succeeded
    <3>2. noted[fileCall[d].path] = text /\ fileCall[d].path \in Spellings
      BY <3>1 DEF FileInv, Files!EditsFollowEdits, LastInv
    <3>3. fileCall[c].text = text
      BY <1>1, <2>2 DEF FileInv, LastInv
    <3> QED BY <1>3, <1>4, <3>1, <3>2, <3>3 DEF FileInv, FileTypeOK
  <2> QED BY <2>1, <2>2
<1> QED BY <1>5, <1>6, <1>7, <1>8, <1>9, <1>10 DEF FileInv

\* file_write and file_edit make a backup and go on, or the edit finds nothing to replace.
LEMMA BackupStep ==
  ASSUME FileInv, NEW c \in FileCalls, Files!Backup,
         fileCall[c].pc \in {"begin", "check"}, fileCall[c].op \in {"write", "edit"},
         \/ Files!Return(c, "failed")
         \/ (\E t \in SUBSET Files!Marks : Files!Goto(c, "truncate", t, text)) /\ UNCHANGED result,
         UNCHANGED <<text, noted, now, last, placed>>
  PROVE  FileInv'
<1>1. /\ backups' \in [0..MaxTime -> FileTexts] /\ Files!Kept(backups)' \subseteq 0..now
      /\ text \subseteq Files!Held(backups)'
      /\ Files!Held(backups) \cup excused \subseteq Files!Held(backups)' \cup excused'
  BY BackupKeeps DEF FileInv
<1>2. /\ fileCall' \in [FileCalls -> FileCallTypes]
      /\ result' \in [FileCalls -> {"none", "done", "failed"}]
      /\ \/ fileCall'[c].pc = "idle" /\ result'[c] = "failed"
         \/ fileCall'[c].pc = "truncate" /\ fileCall'[c].base = text /\ UNCHANGED result
      /\ fileCall'[c].op = fileCall[c].op /\ fileCall'[c].path = fileCall[c].path
      /\ \A d \in FileCalls \ {c} : fileCall'[d] = fileCall[d] /\ result'[d] = result[d]
  <2>1. CASE Files!Return(c, "failed")
    BY <2>1, ReturnKeeps DEF FileInv
  <2>2. ASSUME NEW t \in SUBSET Files!Marks, Files!Goto(c, "truncate", t, text), UNCHANGED result
        PROVE  <1>2
    BY <2>2, GotoKeeps DEF FileInv, FileTypeOK
  <2> QED BY <2>1, <2>2
<1>3. FileTypeOK'
  BY <1>1, <1>2 DEF FileInv, FileTypeOK
<1>4. PathInv' /\ AirKept
  BY <1>2 DEF FileInv, PathInv, AirKept
<1>5. BaseInv'
  BY <1>1, <1>2 DEF FileInv, BaseInv, Writing
<1>6. LastInv'
  BY <1>2 DEF FileInv, LastInv
<1>7. Files!NothingIsOverwritten'
  BY <1>1, <1>4, InAirKept DEF FileInv, Files!NothingIsOverwritten
<1>8. Files!EditsFollowEdits'
  BY <1>2 DEF FileInv, Files!EditsFollowEdits, Files!Succeeded
<1> QED BY <1>3, <1>4, <1>5, <1>6, <1>7, <1>8 DEF FileInv

\* file_rollback takes up a backup; what the file says is meant to go.
LEMMA RollbackStep == ASSUME FileInv, NEW c \in FileCalls, Files!FileRollback(c) PROVE FileInv'
<1>1. PICK s \in Spellings, t \in Files!Kept(backups) :
        fileCall' = [fileCall EXCEPT ![c] = [pc |-> "truncate", op |-> "rollback", path |-> s,
                                             text |-> backups[t], base |-> text]]
  BY DEF Files!FileRollback
<1>2. /\ fileCall[c].pc = "idle" /\ result[c] = "none" /\ excused' = excused \cup text
      /\ UNCHANGED <<text, noted, backups, now, result, last, placed>>
  BY DEF Files!FileRollback, Files!Is
<1>3. backups[t] \in SUBSET Files!Marks
  BY DEF FileInv, FileTypeOK, FileTexts, Files!Kept
<1> DEFINE v == [pc |-> "truncate", op |-> "rollback", path |-> s, text |-> backups[t], base |-> text]
<1>4. /\ v \in FileCallTypes /\ v.pc = "truncate" /\ v.op = "rollback" /\ v.base = text
      /\ v.path = s
  BY <1>3 DEF FileInv, FileTypeOK, FileCallTypes
<1>5. fileCall' = [fileCall EXCEPT ![c] = v]
  BY <1>1
<1> HIDE DEF v
<1>6. FileTypeOK'
  BY <1>2, <1>4, <1>5 DEF FileInv, FileTypeOK, Files!Kept
<1>7. PathInv' /\ AirKept
  BY <1>2, <1>4, <1>5 DEF FileInv, FileTypeOK, PathInv, AirKept
<1>8. BaseInv'
  BY <1>2, <1>4, <1>5 DEF FileInv, FileTypeOK, BaseInv, Writing, Files!Held, Files!Kept
<1>9. LastInv'
  BY <1>2, <1>4, <1>5 DEF FileInv, FileTypeOK, LastInv
<1>10. Files!NothingIsOverwritten'
  BY <1>2, <1>7, InAirKept DEF FileInv, Files!NothingIsOverwritten, Files!Held, Files!Kept
<1>11. Files!EditsFollowEdits'
  BY <1>2, <1>4, <1>5 DEF FileInv, FileTypeOK, Files!EditsFollowEdits, Files!Succeeded
<1> QED BY <1>6, <1>7, <1>8, <1>9, <1>10, <1>11 DEF FileInv

\* The edit is refused, or a check after it fails, or the call is given up before it wrote.
LEMMA FailStep ==
  ASSUME FileInv, NEW c \in FileCalls, fileCall[c].pc # "fill", Files!Return(c, "failed"),
         UNCHANGED <<text, noted, backups, now, last, placed, excused>>
  PROVE  FileInv'
<1>1. /\ fileCall' \in [FileCalls -> FileCallTypes]
      /\ result' \in [FileCalls -> {"none", "done", "failed"}]
      /\ fileCall'[c].pc = "idle" /\ result'[c] = "failed" /\ fileCall'[c].path = fileCall[c].path
      /\ \A d \in FileCalls \ {c} : fileCall'[d] = fileCall[d] /\ result'[d] = result[d]
  BY ReturnKeeps DEF FileInv
<1>2. FileTypeOK'
  BY <1>1 DEF FileInv, FileTypeOK, Files!Kept
<1>3. PathInv' /\ AirKept
  BY <1>1 DEF FileInv, PathInv, AirKept
<1>4. BaseInv'
  BY <1>1 DEF FileInv, BaseInv, Writing, Files!Held, Files!Kept
<1>5. LastInv'
  BY <1>1 DEF FileInv, LastInv
<1>6. \A d \in FileCalls : Files!Succeeded(d)' => Files!Succeeded(d) /\ fileCall'[d].path = fileCall[d].path
  BY <1>1 DEF Files!Succeeded
<1> QED BY <1>2, <1>3, <1>4, <1>5, <1>6, QuietFileStep

\* A write that is given up after it began goes on.
LEMMA LateStep ==
  ASSUME FileInv, NEW c \in FileCalls, Writing(c),
         fileCall' = [fileCall EXCEPT ![c].op = "late"],
         UNCHANGED <<text, noted, backups, now, result, last, placed, excused>>
  PROVE  FileInv'
<1> DEFINE v == [fileCall[c] EXCEPT !.op = "late"]
<1>1. /\ v \in FileCallTypes /\ v.pc = fileCall[c].pc /\ v.text = fileCall[c].text
      /\ v.base = fileCall[c].base /\ v.op = "late" /\ v.path = fileCall[c].path
  BY DEF FileInv, FileTypeOK, FileCallTypes
<1>2. fileCall' = [fileCall EXCEPT ![c] = v]
  OBVIOUS
<1> HIDE DEF v
<1>3. FileTypeOK'
  BY <1>1, <1>2 DEF FileInv, FileTypeOK, Files!Kept
<1>4. PathInv' /\ AirKept
  BY <1>1, <1>2 DEF FileInv, FileTypeOK, PathInv, AirKept, Writing
<1>5. BaseInv'
  BY <1>1, <1>2 DEF FileInv, FileTypeOK, BaseInv, Writing, Files!Held, Files!Kept
<1>6. LastInv'
  BY <1>1, <1>2 DEF FileInv, FileTypeOK, LastInv
<1>7. \A d \in FileCalls : Files!Succeeded(d)' => Files!Succeeded(d) /\ fileCall'[d].path = fileCall[d].path
  BY <1>1, <1>2 DEF FileInv, FileTypeOK, Files!Succeeded
<1> QED BY <1>3, <1>4, <1>5, <1>6, <1>7, QuietFileStep

\* The file is truncated: what it said is in the air, or came into it meanwhile.
LEMMA TruncateStep == ASSUME FileInv, NEW c \in FileCalls, Files!Truncate(c) PROVE FileInv'
<1>1. /\ fileCall[c].pc = "truncate" /\ text' = {} /\ last' = First
      /\ excused' = excused \cup (text \ fileCall[c].base)
      /\ UNCHANGED <<noted, backups, now, result, placed>>
  BY DEF Files!Truncate, Files!Is, Files!NoCall
<1>2. /\ fileCall' \in [FileCalls -> FileCallTypes]
      /\ fileCall'[c].pc = "fill" /\ fileCall'[c].text = fileCall[c].text
      /\ fileCall'[c].base = fileCall[c].base
      /\ fileCall'[c].op = fileCall[c].op /\ fileCall'[c].path = fileCall[c].path
      /\ \A d \in FileCalls \ {c} : fileCall'[d] = fileCall[d]
  <2>1. fileCall[c].text \in SUBSET Files!Marks /\ fileCall[c].base \in SUBSET Files!Marks
    BY DEF FileInv, FileTypeOK, FileCallTypes
  <2> QED BY <2>1, GotoKeeps DEF FileInv, Files!Truncate
<1>3. FileTypeOK'
  BY <1>1, <1>2 DEF FileInv, FileTypeOK, Files!Kept
<1>4. PathInv' /\ AirKept
  BY <1>1, <1>2 DEF FileInv, PathInv, AirKept
<1>5. BaseInv'
  BY <1>1, <1>2 DEF FileInv, BaseInv, Writing, Files!Held, Files!Kept
<1>6. LastInv' /\ Files!EditsFollowEdits'
  BY <1>1, FileAssumption DEF LastInv, Files!EditsFollowEdits
<1>7. Files!NothingIsOverwritten'
  <2>1. fileCall[c].base \subseteq Files!InAir'
    BY <1>2 DEF Files!InAir, Files!Is
  <2>2. Files!InAir \subseteq Files!InAir'
    BY <1>4, InAirKept
  <2>3. Files!Held(backups)' = Files!Held(backups)
    BY <1>1 DEF Files!Held, Files!Kept
  <2> HIDE <1>2
  <2> QED BY <1>1, <2>1, <2>2, <2>3 DEF FileInv, Files!NothingIsOverwritten
<1> QED BY <1>3, <1>4, <1>5, <1>6, <1>7 DEF FileInv

\* The file is filled: what the call wrote over is safe, or in its text.
LEMMA FillStep == ASSUME FileInv, NEW c \in FileCalls, Files!Fill(c) PROVE FileInv'
<1>1. /\ fileCall[c].pc = "fill" /\ text' = fileCall[c].text
      /\ placed' = placed \cup fileCall[c].text /\ excused' = excused \cup text
      /\ last' = IF \E d \in FileCalls \ {c} : fileCall[d].pc # "idle" THEN First ELSE c
      /\ UNCHANGED <<noted, backups, now>>
  BY DEF Files!Fill, Files!Is, Files!NoCall
<1>2. fileCall[c].text \in SUBSET Files!Marks /\ result[c] = "none"
  BY <1>1 DEF FileInv, FileTypeOK, FileCallTypes, PathInv
<1>3. /\ fileCall' \in [FileCalls -> FileCallTypes]
      /\ result' \in [FileCalls -> {"none", "done", "failed"}]
      /\ \/ /\ fileCall'[c].pc \in {"verify", "register"} /\ fileCall'[c].text = fileCall[c].text
            /\ UNCHANGED result
         \/ fileCall'[c].pc = "idle" /\ result'[c] = "done" /\ fileCall[c].op \in {"diff", "late"}
      /\ fileCall'[c].op = fileCall[c].op /\ fileCall'[c].path = fileCall[c].path
      /\ \A d \in FileCalls \ {c} : fileCall'[d] = fileCall[d] /\ result'[d] = result[d]
  <2>1. \/ Files!Goto(c, "register", fileCall[c].text, {}) /\ UNCHANGED result
        \/ Files!Goto(c, "verify", fileCall[c].text, {}) /\ UNCHANGED result
        \/ Files!Return(c, "done") /\ fileCall[c].op \in {"diff", "late"}
    <3>1. fileCall[c].op \in {"write", "edit", "rollback", "diff", "late"}
      BY <1>1 DEF FileInv, BaseInv, Writing
    <3> QED BY <3>1 DEF Files!Fill
  <2>2. {} \in SUBSET Files!Marks
    OBVIOUS
  <2>3. CASE Files!Return(c, "done") /\ fileCall[c].op \in {"diff", "late"}
    BY <2>3, ReturnKeeps DEF FileInv
  <2>4. ASSUME NEW pc1 \in {"verify", "register"}, Files!Goto(c, pc1, fileCall[c].text, {}), UNCHANGED result
        PROVE  <1>3
    BY <2>4, <2>2, <1>2, GotoKeeps DEF FileInv, FileTypeOK
  <2> QED BY <2>1, <2>3, <2>4
<1>4. FileTypeOK'
  BY <1>1, <1>2, <1>3 DEF FileInv, FileTypeOK, Files!Kept
<1>5. PathInv'
  BY <1>1, <1>2, <1>3 DEF FileInv, PathInv
<1>6. BaseInv'
  BY <1>1, <1>3 DEF FileInv, BaseInv, Writing, Files!Held, Files!Kept
<1>7. LastInv'
  BY <1>1, <1>2, <1>3, FileAssumption DEF FileInv, PathInv, LastInv
<1>8. Files!NothingIsOverwritten'
  <2>1. Files!InAir \subseteq Files!InAir' \cup fileCall[c].base
    BY <1>3 DEF Files!InAir, Files!Is
  <2>2. fileCall[c].base \subseteq Files!Held(backups) \cup excused \cup fileCall[c].text
    BY <1>1 DEF FileInv, BaseInv, Writing
  <2>3. Files!Held(backups)' = Files!Held(backups)
    BY <1>1 DEF Files!Held, Files!Kept
  <2> HIDE <1>3
  <2> QED BY <1>1, <2>1, <2>2, <2>3 DEF FileInv, Files!NothingIsOverwritten
<1>9. Files!EditsFollowEdits'
  BY <1>1, <1>2, <1>3, FileAssumption DEF Files!EditsFollowEdits, Files!Succeeded
<1> QED BY <1>4, <1>5, <1>6, <1>7, <1>8, <1>9 DEF FileInv

\* What is read after an edit or a rollback is what will be noted.
LEMMA VerifyStep == ASSUME FileInv, NEW c \in FileCalls, Files!Verify(c) PROVE FileInv'
<1>1. /\ fileCall[c].pc = "verify"
      /\ UNCHANGED <<text, noted, backups, now, last, placed, excused>>
  BY DEF Files!Verify, Files!Is
<1>2. CASE Files!Return(c, "failed")
  BY <1>1, <1>2, FailStep
<1>3. CASE ~ Files!Return(c, "failed")
  <2>1. PICK t \in {fileCall[c].text, text} : Files!Goto(c, "register", t, {}) /\ UNCHANGED result
    BY <1>3 DEF Files!Verify
  <2>2. t \in SUBSET Files!Marks /\ (last = c => t = text)
    BY <1>1 DEF FileInv, FileTypeOK, FileCallTypes, LastInv
  <2>3. /\ fileCall' \in [FileCalls -> FileCallTypes]
        /\ fileCall'[c].pc = "register" /\ fileCall'[c].text = t
        /\ fileCall'[c].op = fileCall[c].op /\ fileCall'[c].path = fileCall[c].path
        /\ \A d \in FileCalls \ {c} : fileCall'[d] = fileCall[d]
    <3> DEFINE v == [fileCall[c] EXCEPT !.pc = "register", !.text = t, !.base = {}]
    <3>1. /\ v \in FileCallTypes /\ v.pc = "register" /\ v.text = t
          /\ v.op = fileCall[c].op /\ v.path = fileCall[c].path
      BY <2>2 DEF FileInv, FileTypeOK, FileCallTypes
    <3>2. fileCall' = [fileCall EXCEPT ![c] = v]
      BY <2>1 DEF Files!Goto
    <3> HIDE DEF v
    <3> QED BY <3>1, <3>2 DEF FileInv, FileTypeOK
  <2>4. FileTypeOK'
    BY <1>1, <2>1, <2>3 DEF FileInv, FileTypeOK, Files!Kept
  <2>5. PathInv' /\ AirKept
    BY <1>1, <2>1, <2>3 DEF FileInv, PathInv, AirKept
  <2>6. BaseInv'
    BY <1>1, <2>3 DEF FileInv, BaseInv, Writing, Files!Held, Files!Kept
  <2>7. LastInv'
    BY <1>1, <2>1, <2>2, <2>3 DEF FileInv, LastInv
  <2>8. \A d \in FileCalls : Files!Succeeded(d)' => Files!Succeeded(d) /\ fileCall'[d].path = fileCall[d].path
    BY <2>1, <2>3 DEF Files!Succeeded
  <2> QED BY <1>1, <2>4, <2>5, <2>6, <2>7, <2>8, QuietFileStep
<1> QED BY <1>2, <1>3

\* Others write into the file, and time passes.
LEMMA WorldStep ==
  ASSUME FileInv, (\E m \in Changes : Files!Change(m)) \/ Files!Tick
  PROVE  FileInv'
<1>1. CASE Files!Tick
  <2>1. /\ now < MaxTime /\ now' = now + 1
        /\ UNCHANGED <<text, noted, backups, fileCall, result, last, placed, excused>>
    BY <1>1 DEF Files!Tick
  <2>2. FileTypeOK'
    <3>1. now' \in 0..MaxTime /\ 0..now \subseteq 0..now'
      BY <2>1, FileAssumption DEF FileInv, FileTypeOK
    <3> HIDE <1>1
    <3>2. Files!Kept(backups)' = Files!Kept(backups)
      BY <2>1 DEF Files!Kept
    <3> QED BY <2>1, <3>1, <3>2 DEF FileInv, FileTypeOK
  <2>3. PathInv' /\ LastInv' /\ AirKept
    BY <2>1 DEF FileInv, PathInv, LastInv, AirKept
  <2>4. BaseInv'
    BY <2>1 DEF FileInv, BaseInv, Writing, Files!Held, Files!Kept
  <2>5. \A d \in FileCalls : Files!Succeeded(d)' => Files!Succeeded(d) /\ fileCall'[d].path = fileCall[d].path
    BY <2>1 DEF Files!Succeeded
  <2> QED BY <2>1, <2>2, <2>3, <2>4, <2>5, QuietFileStep
<1>2. ASSUME NEW m \in Changes, Files!Change(m)
      PROVE  FileInv'
  <2>1. /\ text' = text \cup {m} /\ placed' = placed \cup {m} /\ last' = First
        /\ UNCHANGED <<noted, backups, now, fileCall, result, excused>>
    BY <1>2 DEF Files!Change, Files!NoCall
  <2>2. FileTypeOK'
    BY <2>1 DEF FileInv, FileTypeOK, Files!Kept, Files!Marks
  <2>3. PathInv' /\ LastInv' /\ Files!EditsFollowEdits'
    BY <2>1, FileAssumption DEF FileInv, PathInv, LastInv, Files!EditsFollowEdits
  <2>4. BaseInv'
    BY <2>1 DEF FileInv, BaseInv, Writing, Files!Held, Files!Kept
  <2>5. Files!NothingIsOverwritten'
    BY <2>1 DEF FileInv, Files!NothingIsOverwritten, Files!Held, Files!Kept, Files!InAir, Files!Is
  <2> QED BY <2>2, <2>3, <2>4, <2>5 DEF FileInv
<1> QED BY <1>1, <1>2

\* The process ends.  Every text that a call was writing over is in a backup,
\* or it was diff_edit's, or of a call that was given up.
LEMMA CrashStep == ASSUME FileInv, Files!Crash PROVE FileInv'
<1> DEFINE lost == UNION {fileCall[c].base : c \in {d \in FileCalls : Files!Is(d, "fill") /\ fileCall[d].op \in {"diff", "late"}}}
<1>1. /\ noted' = [s \in Spellings |-> Files!NoText] /\ last' = First
      /\ fileCall' = [c \in FileCalls |-> [Files!Idle EXCEPT !.op = fileCall[c].op]]
      /\ result' = [c \in FileCalls |-> IF fileCall[c].pc = "idle" THEN result[c] ELSE "failed"]
      /\ excused' = excused \cup lost
      /\ UNCHANGED <<text, backups, now, placed>>
  BY DEF Files!Crash, Files!NoCall, Files!Is
<1>2. \A c \in FileCalls : fileCall'[c] \in FileCallTypes /\ fileCall'[c].pc = "idle"
  <2> SUFFICES ASSUME NEW c \in FileCalls
               PROVE  fileCall'[c] \in FileCallTypes /\ fileCall'[c].pc = "idle"
    OBVIOUS
  <2>1. Files!Idle \in FileCallTypes /\ Files!Idle.pc = "idle"
    BY DEF Files!Idle, FileCallTypes
  <2>2. [Files!Idle EXCEPT !.op = fileCall[c].op] \in FileCallTypes
        /\ [Files!Idle EXCEPT !.op = fileCall[c].op].pc = "idle"
    BY <2>1 DEF FileInv, FileTypeOK, FileCallTypes
  <2> QED BY <1>1, <2>2
<1>3. FileTypeOK'
  <2>1. result' \in [FileCalls -> {"none", "done", "failed"}]
    BY <1>1 DEF FileInv, FileTypeOK
  <2>2. fileCall' \in [FileCalls -> FileCallTypes]
    <3>1. fileCall' = [c \in FileCalls |-> fileCall'[c]]
      BY <1>1
    <3> QED BY <1>2, <3>1
  <2>3. noted' \in [Spellings -> FileTexts]
    BY <1>1 DEF FileTexts
  <2>4. Files!Kept(backups)' = Files!Kept(backups)
    BY <1>1 DEF Files!Kept
  <2> HIDE DEF lost
  <2> QED BY <1>1, <2>1, <2>2, <2>3, <2>4 DEF FileInv, FileTypeOK
<1>4. PathInv' /\ BaseInv'
  BY <1>2 DEF PathInv, BaseInv, Writing
<1>5. LastInv' /\ Files!EditsFollowEdits'
  BY <1>1, FileAssumption DEF LastInv, Files!EditsFollowEdits
<1>6. Files!NothingIsOverwritten'
  <2>1. Files!InAir \subseteq Files!Held(backups) \cup excused \cup lost
    <3> SUFFICES ASSUME NEW c \in FileCalls, fileCall[c].pc = "fill"
                 PROVE  fileCall[c].base \subseteq Files!Held(backups) \cup excused \cup lost
      BY DEF Files!InAir, Files!Is
    <3>1. CASE fileCall[c].op \in {"diff", "late"}
      BY <3>1 DEF Files!Is
    <3>2. CASE fileCall[c].op \notin {"diff", "late"}
      BY <3>2 DEF FileInv, BaseInv, Writing
    <3> QED BY <3>1, <3>2
  <2> HIDE DEF lost
  <2>2. Files!Held(backups)' = Files!Held(backups)
    BY <1>1 DEF Files!Held, Files!Kept
  <2> QED BY <1>1, <2>1, <2>2 DEF FileInv, Files!NothingIsOverwritten
<1> QED BY <1>3, <1>4, <1>5, <1>6 DEF FileInv

LEMMA FileStep == FileInv /\ [Files!Next]_(Files!vars) => FileInv'
<1> SUFFICES ASSUME FileInv, [Files!Next]_(Files!vars) PROVE FileInv'
  OBVIOUS
<1>1. ASSUME NEW c \in FileCalls, Files!Step(c) PROVE FileInv'
  <2>1. CASE Files!FileRead(c) \/ Files!FileWrite(c) \/ Files!FileEdit(c) \/ Files!DiffEdit(c)
    BY <2>1, BeginStep
  <2>2. CASE Files!NoteRead(c) \/ Files!UpdateHash(c)
    BY <2>2, NoteStep
  <2>3. CASE Files!BackUpAndWrite(c)
    <3>1. {c} \in SUBSET Files!Marks
      BY DEF Files!Marks
    <3>2. fileCall[c].pc = "begin" /\ fileCall[c].op = "write"
      BY <2>3 DEF FileInv, PathInv, Files!BackUpAndWrite, Files!Is
    <3>3. Files!Backup /\ Files!Goto(c, "truncate", {c}, text)
          /\ UNCHANGED <<text, noted, now, result, last, placed>>
      BY <2>3 DEF Files!BackUpAndWrite
    <3> QED BY <3>1, <3>2, <3>3, BackupStep
  <2>4. CASE Files!CheckEdit(c)
    <3>1. fileCall[c].pc = "check" /\ fileCall[c].op = "edit"
          /\ UNCHANGED <<text, noted, now, last, placed>>
      BY <2>4 DEF FileInv, PathInv, Files!CheckEdit, Files!Is
    <3>2. CASE Files!Return(c, "failed") /\ UNCHANGED <<backups, excused>>
      BY <3>1, <3>2, FailStep
    <3>3. CASE /\ Files!Backup
               /\ \/ Files!Goto(c, "truncate", fileCall[c].text \cup {c}, text) /\ UNCHANGED result
                  \/ Files!Return(c, "failed")
      <4>1. fileCall[c].text \cup {c} \in SUBSET Files!Marks
        BY DEF FileInv, FileTypeOK, FileCallTypes, Files!Marks
      <4> QED BY <3>1, <3>3, <4>1, BackupStep
    <3> QED BY <2>4, <3>2, <3>3 DEF Files!CheckEdit
  <2>5. CASE Files!FileRollback(c)
    BY <2>5, RollbackStep
  <2>6. CASE Files!Truncate(c)
    BY <2>6, TruncateStep
  <2>7. CASE Files!Fill(c)
    BY <2>7, FillStep
  <2>8. CASE Files!Verify(c)
    BY <2>8, VerifyStep
  <2>9. CASE Files!TimesOut(c)
    <3>1. UNCHANGED <<text, noted, backups, now, last, placed, excused>>
      BY <2>9 DEF Files!TimesOut
    <3>2. CASE Writing(c)
      BY <2>9, <3>1, <3>2, LateStep DEF Files!TimesOut, Writing
    <3>3. CASE ~ Writing(c)
      BY <2>9, <3>1, <3>3, FailStep DEF Files!TimesOut, Writing
    <3> QED BY <3>2, <3>3
  <2> QED BY <1>1, <2>1, <2>2, <2>3, <2>4, <2>5, <2>6, <2>7, <2>8, <2>9 DEF Files!Step
<1>2. CASE (\E m \in Changes : Files!Change(m)) \/ Files!Tick
  BY <1>2, WorldStep
<1>3. CASE Files!Crash
  BY <1>3, CrashStep
<1>4. CASE UNCHANGED Files!vars
  <2>1. UNCHANGED <<text, noted, backups, now, fileCall, result, last, placed, excused>>
    BY <1>4 DEF Files!vars
  <2>2. FileTypeOK' /\ PathInv' /\ LastInv' /\ AirKept
    BY <2>1 DEF FileInv, FileTypeOK, Files!Kept, PathInv, LastInv, AirKept
  <2>3. BaseInv'
    BY <2>1 DEF FileInv, BaseInv, Writing, Files!Held, Files!Kept
  <2>4. \A d \in FileCalls : Files!Succeeded(d)' => Files!Succeeded(d) /\ fileCall'[d].path = fileCall[d].path
    BY <2>1 DEF Files!Succeeded
  <2> QED BY <2>1, <2>2, <2>3, <2>4, QuietFileStep
<1> QED BY <1>1, <1>2, <1>3, <1>4 DEF Files!Next

\* Edits are safe, for any calls, spellings and changes: what was in the file
\* is in it, in a backup or in the hands of a call that writes it, or was
\* thrown away on purpose; and the next edit by the path of the last one is
\* not refused.
THEOREM EditsLoseNothing == Files!Spec => []EditsAreSafe
<1>1. FileInv => EditsAreSafe
  BY DEF FileInv, EditsAreSafe, Files!EditsAreSafe
<1> QED BY <1>1, FileInit, FileStep, PTL DEF Files!Spec

-----------------------------------------------------------------------------
(* The browser.  While an agent's snapshot is that of the page, a node it  *)
(* saw is found at the same place: the labels only come behind the page.   *)

Nodes == Elements \cup {Label, None}
ActingPcs == {"resolve", "rect", "press"}
Places == Int
BrowserCalls ==
  [pc : ActingPcs \cup {"idle", "launch", "browser", "page", "labels"},
   ref : Nat, node : Nodes, at : Places]

Overlays == {<<>>, <<Label>>}

BrowserTypeOK ==
  /\ tab \in Seq(Elements) /\ overlay \in Overlays
  /\ shift \in Int /\ same \subseteq Agents
  /\ browserCall \in [Agents -> BrowserCalls]
  /\ seen \in [Agents -> Seq(Nodes)]
  /\ hit \in [Agents -> [want : Nodes, got : Nodes, sure : BOOLEAN]]

SeenInv == \A a \in same : \E o \in Overlays : seen[a] = tab \o o

\* What an agent wants is what it is about to reach.
AimInv ==
  \A a \in Agents :
    LET c == browserCall[a] IN
    IF c.pc \in ActingPcs
    THEN /\ hit[a].got = None
         /\ hit[a].sure /\ a \in same =>
              /\ c.pc = "resolve" => c.ref \in DOMAIN seen[a] /\ seen[a][c.ref] = hit[a].want
              /\ c.pc = "rect"    => c.node = hit[a].want
              /\ c.pc = "press" /\ a \in settled =>
                   c.at + shift \in DOMAIN tab /\ tab[c.at + shift] = hit[a].want
    ELSE hit[a].sure => hit[a].got \in {hit[a].want, None}

BrowserInv == BrowserTypeOK /\ SeenInv /\ AimInv

LEMMA ZeroPlace == 0 \in Places
BY DEF Places

LEMMA BrowserInit == Chrome!Init => BrowserInv
BY ZeroPlace DEF Chrome!Init, Chrome!Idle, BrowserInv, BrowserTypeOK, BrowserCalls, SeenInv,
       AimInv, Nodes, ActingPcs, Overlays

\* The n-th node is the same with labels and without, where there is one in both.
LEMMA LabelsComeLast ==
  ASSUME BrowserTypeOK, NEW o \in Overlays, NEW n,
         n \in DOMAIN (tab \o o), n \in DOMAIN Chrome!Tree
  PROVE  (tab \o o)[n] = Chrome!Tree[n]
BY DEF BrowserTypeOK, Overlays, Chrome!Tree

LEMMA TreeType == BrowserTypeOK => Chrome!Tree \in Seq(Nodes)
<1> SUFFICES ASSUME BrowserTypeOK PROVE Chrome!Tree \in Seq(Nodes)
  OBVIOUS
<1>1. tab \in Seq(Nodes)
  BY SeqMonotonic DEF BrowserTypeOK, Nodes
<1>2. <<>> \in Seq(Nodes) /\ <<Label>> \in Seq(Nodes)
  BY DEF Nodes
<1>3. overlay \in Seq(Nodes)
  BY <1>2 DEF BrowserTypeOK, Overlays
<1> QED BY <1>1, <1>3 DEF Chrome!Tree

\* A new page takes away everybody's certainty.
LEMMA PageChange ==
  ASSUME BrowserInv, BrowserTypeOK', same' = {}, UNCHANGED <<browserCall, hit>> PROVE BrowserInv'
BY DEF BrowserInv, SeenInv, AimInv

\* Whether the view moves or elements come and go, nobody's coordinates count
\* any more; and snapshots are of the page still, or no longer count either.
LEMMA MovesTypes ==
  ASSUME BrowserTypeOK, Chrome!Moves \/ Chrome!Alters
  PROVE  /\ shift' \in Int /\ tab' \in Seq(Elements) /\ settled' = {} /\ UNCHANGED overlay
         /\ UNCHANGED <<tab, same>> \/ same' = {}
<1>1. CASE Chrome!Moves
  BY <1>1, BrowserAssumption DEF Chrome!Moves, BrowserTypeOK
<1>2. CASE Chrome!Alters
  <2>1. tab' \in Seq(Elements)
    <3>1. ASSUME NEW i \in DOMAIN tab, tab' = Chrome!RemoveAt(tab, i) PROVE tab' \in Seq(Elements)
      BY <3>1 DEF Chrome!RemoveAt, BrowserTypeOK
    <3>2. ASSUME NEW i \in 1..(Len(tab) + 1), NEW e \in Elements, tab' = Chrome!InsertAt(tab, i, e)
          PROVE  tab' \in Seq(Elements)
      BY <3>2 DEF Chrome!InsertAt, BrowserTypeOK
    <3> QED BY <1>2, <3>1, <3>2 DEF Chrome!Alters
  <2> QED BY <1>2, <2>1 DEF Chrome!Alters, BrowserTypeOK
<1> QED BY <1>1, <1>2

\* A call that acts on the page is over at once.
LEMMA PageAction ==
  ASSUME BrowserInv, NEW a \in Agents, Chrome!Begin(a, "idle", 0),
         Chrome!Moves \/ Chrome!Alters, UNCHANGED <<seen, hit>>
  PROVE  BrowserInv'
<1>1. browserCall' \in [Agents -> BrowserCalls]
  BY ZeroPlace DEF BrowserInv, Chrome!Begin, Chrome!Idle, BrowserTypeOK, BrowserCalls, Nodes
<1>2. /\ shift' \in Int /\ tab' \in Seq(Elements) /\ settled' = {} /\ UNCHANGED overlay
      /\ UNCHANGED <<tab, same>> \/ same' = {}
  BY MovesTypes, BrowserAssumption DEF BrowserInv
<1>3. BrowserTypeOK'
  BY <1>1, <1>2 DEF BrowserInv, BrowserTypeOK
<1>4. SeenInv'
  BY <1>2 DEF BrowserInv, SeenInv
<1>5. \A b \in Agents : browserCall'[b] = browserCall[b] \/ (browserCall[b].pc = "idle" /\ browserCall'[b].pc = "idle")
  BY DEF BrowserInv, BrowserTypeOK, Chrome!Begin, Chrome!Is, Chrome!Idle
<1>6. AimInv'
  BY <1>2, <1>5 DEF BrowserInv, AimInv, ActingPcs
<1> QED BY <1>3, <1>4, <1>6 DEF BrowserInv

LEMMA ActStep == ASSUME BrowserInv, NEW a \in Agents, Chrome!Act(a) PROVE BrowserInv'
<1> USE DEF BrowserInv
<1>1. CASE Chrome!Navigate(a)
  <2>1. BrowserTypeOK'
    BY <1>1, ZeroPlace DEF Chrome!Navigate, Chrome!Begin, Chrome!Idle, BrowserTypeOK, BrowserCalls, Nodes
  <2> QED BY <1>1, <2>1 DEF Chrome!Navigate, Chrome!Begin, Chrome!Idle, Chrome!Is, BrowserTypeOK, SeenInv, AimInv, ActingPcs
<1>2. CASE Chrome!Launched(a)
  BY <1>2, ZeroPlace DEF Chrome!Launched, Chrome!Is, Chrome!Goto, BrowserTypeOK, BrowserCalls, SeenInv, AimInv, ActingPcs
<1>3. CASE Chrome!NavigateBrowser(a)
  BY <1>3, ZeroPlace DEF Chrome!NavigateBrowser, Chrome!Is, Chrome!Return, Chrome!Idle, BrowserTypeOK, BrowserCalls, Nodes, SeenInv, AimInv, ActingPcs
<1>4. CASE Chrome!NavigatePage(a)
  <2>1. PICK n \in Nat : tab' \in [1..n -> Elements]
    BY <1>4 DEF Chrome!NavigatePage, Chrome!NewPage, Chrome!Pages
  <2>2. BrowserTypeOK'
    BY <1>4, <2>1, ZeroPlace DEF Chrome!NavigatePage, Chrome!NewPage, Chrome!Return, Chrome!Idle, BrowserTypeOK, BrowserCalls,
              Nodes, Overlays
  <2> QED BY <1>4, <2>2 DEF Chrome!NavigatePage, Chrome!NewPage, Chrome!Is, Chrome!Return, Chrome!Idle, BrowserTypeOK, SeenInv, AimInv, ActingPcs
<1>5. CASE Chrome!Snapshot(a) \/ Chrome!ShowLabels(a)
  <2>1. PICK pc1 \in {"idle", "labels"} : Chrome!Begin(a, pc1, 0)
    BY <1>5 DEF Chrome!Snapshot, Chrome!ShowLabels
  <2>2. /\ seen' = [seen EXCEPT ![a] = Chrome!Tree] /\ same' = same \cup {a}
        /\ UNCHANGED <<tab, shift, settled, hit>> /\ overlay' \in {overlay, <<Label>>}
    BY <1>5 DEF Chrome!Snapshot, Chrome!ShowLabels
  <2>3. browserCall' \in [Agents -> BrowserCalls]
    BY <2>1, ZeroPlace DEF Chrome!Begin, Chrome!Idle, BrowserTypeOK, BrowserCalls, Nodes
  <2>4. BrowserTypeOK'
    BY <2>2, <2>3, TreeType DEF BrowserTypeOK, Overlays
  <2>5. SeenInv'
    BY <2>2 DEF BrowserTypeOK, SeenInv, Chrome!Tree
  <2>6. AimInv'
    BY <2>1, <2>2 DEF Chrome!Begin, Chrome!Idle, Chrome!Is, BrowserTypeOK, AimInv, ActingPcs
  <2> QED BY <2>4, <2>5, <2>6
<1>6. CASE Chrome!RemoveLabels(a) \/ Chrome!TimesOut(a)
  <2>1. /\ Chrome!Return(a) /\ UNCHANGED <<tab, shift, seen, same, settled, hit>>
        /\ overlay' \in {overlay, <<>>}
    BY <1>6 DEF Chrome!RemoveLabels, Chrome!TimesOut
  <2>2. BrowserTypeOK'
    BY <2>1, ZeroPlace DEF Chrome!Return, Chrome!Idle, BrowserTypeOK, BrowserCalls, Nodes, Overlays
  <2>3. AimInv'
    BY <2>1 DEF Chrome!Return, Chrome!Idle, BrowserTypeOK, AimInv, ActingPcs
  <2> QED BY <2>1, <2>2, <2>3 DEF SeenInv
<1>7. CASE Chrome!ClickRef(a)
  <2>1. PICK n \in DOMAIN seen[a] :
          /\ Chrome!Begin(a, "resolve", n)
          /\ hit' = [hit EXCEPT ![a] = [want |-> seen[a][n], got |-> None, sure |-> a \in same]]
          /\ UNCHANGED <<chrome, tab, shift, overlay, seen, same, settled>>
    BY <1>7 DEF Chrome!ClickRef
  <2>2. seen[a][n] \in Nodes /\ n \in Nat
    BY DEF BrowserTypeOK
  <2>5. browserCall' \in [Agents -> BrowserCalls]
    BY <2>1, <2>2, ZeroPlace DEF Chrome!Begin, Chrome!Idle, BrowserTypeOK, BrowserCalls, Nodes, ActingPcs
  <2>6. hit' \in [Agents -> [want : Nodes, got : Nodes, sure : BOOLEAN]]
    <3>1. [want |-> seen[a][n], got |-> None, sure |-> a \in same] \in [want : Nodes, got : Nodes, sure : BOOLEAN]
      BY <2>2 DEF Nodes
    <3> QED BY <2>1, <3>1 DEF BrowserTypeOK
  <2>3. BrowserTypeOK'
    BY <2>1, <2>5, <2>6 DEF BrowserTypeOK
  <2>4. AimInv'
    BY <2>1 DEF Chrome!Begin, Chrome!Idle, BrowserTypeOK, AimInv, ActingPcs
  <2> QED BY <2>1, <2>3, <2>4 DEF SeenInv
<1>8. CASE Chrome!LookUp(a)
  <2>1. UNCHANGED <<tab, shift, overlay, seen, same, settled, hit>> /\ Chrome!Is(a, "resolve")
    BY <1>8 DEF Chrome!LookUp
  <2>2. CASE Chrome!Return(a)
    BY <2>1, <2>2, ZeroPlace DEF Chrome!Return, Chrome!Is, Chrome!Idle, BrowserTypeOK, BrowserCalls, Nodes, SeenInv, AimInv, ActingPcs
  <2>3. CASE /\ browserCall[a].ref \in DOMAIN Chrome!Tree
             /\ browserCall' = [browserCall EXCEPT ![a].pc = "rect", ![a].node = Chrome!Tree[browserCall[a].ref]]
    <3>1. Chrome!Tree[browserCall[a].ref] \in Nodes
      BY <2>3, TreeType
    <3>2. BrowserTypeOK'
      <4>1. [browserCall[a] EXCEPT !.pc = "rect", !.node = Chrome!Tree[browserCall[a].ref]] \in BrowserCalls
        BY <3>1, ZeroPlace DEF BrowserTypeOK, BrowserCalls, ActingPcs
      <4>2. browserCall' = [browserCall EXCEPT ![a] =
              [browserCall[a] EXCEPT !.pc = "rect", !.node = Chrome!Tree[browserCall[a].ref]]]
        BY <2>3
      <4> QED BY <2>1, <4>1, <4>2 DEF BrowserTypeOK
    <3>3. hit[a].sure /\ a \in same => Chrome!Tree[browserCall[a].ref] = hit[a].want
      BY <2>1, <2>3, LabelsComeLast DEF Chrome!Is, SeenInv, AimInv, ActingPcs
    <3>4. AimInv'
      BY <2>1, <2>3, <3>3, ZeroPlace DEF BrowserTypeOK, BrowserCalls, Chrome!Is, AimInv, ActingPcs
    <3> QED BY <2>1, <3>2, <3>4 DEF SeenInv
  <2> QED BY <1>8, <2>2, <2>3 DEF Chrome!LookUp
<1>9. CASE Chrome!ResolveRefCoordinates(a)
  <2>1. UNCHANGED <<tab, shift, overlay, seen, same, hit>> /\ Chrome!Is(a, "rect")
    BY <1>9 DEF Chrome!ResolveRefCoordinates
  <2>2. CASE Chrome!Return(a) /\ UNCHANGED settled
    BY <2>1, <2>2, ZeroPlace DEF Chrome!Return, Chrome!Is, Chrome!Idle, BrowserTypeOK, BrowserCalls, Nodes, SeenInv, AimInv, ActingPcs
  <2>3. CASE /\ \E i \in DOMAIN tab : tab[i] = browserCall[a].node
             /\ browserCall' = [browserCall EXCEPT ![a].pc = "press", ![a].at = Chrome!Place(browserCall[a].node)]
             /\ settled' = settled \cup {a}
    <3> DEFINE at == Chrome!Place(browserCall[a].node)
    <3>1. PICK i \in DOMAIN tab : tab[i] = browserCall[a].node /\ at = i - shift
      BY <2>3 DEF Chrome!Place
    <3>2. i \in Int /\ shift \in Int /\ at \in Int /\ at + shift = i
      <4>1. i \in Int /\ shift \in Int
        BY <3>1 DEF BrowserTypeOK
      <4> HIDE DEF at
      <4> QED BY ONLY <3>1, <4>1
    <3> HIDE DEF at
    <3>3. BrowserTypeOK'
      BY <2>1, <2>3, <3>2 DEF BrowserTypeOK, BrowserCalls, ActingPcs, Places, at
    <3>4. AimInv'
      BY <2>1, <2>3, <3>1, <3>2, ZeroPlace DEF BrowserTypeOK, BrowserCalls, Chrome!Is, AimInv, ActingPcs, at
    <3> QED BY <2>1, <3>3, <3>4 DEF SeenInv
  <2> QED BY <1>9, <2>2, <2>3 DEF Chrome!ResolveRefCoordinates
<1>10. CASE Chrome!Press(a) \/ Chrome!FillRef(a)
  <2>1. PICK got \in Nodes, sure \in BOOLEAN :
          /\ hit' = [hit EXCEPT ![a].got = got, ![a].sure = sure]
          /\ sure => got \in {hit[a].want, None}
    <3>1. CASE Chrome!Press(a)
      <4> DEFINE i == browserCall[a].at + shift
                 got == IF chrome = "up" /\ browserCall[a].at > 0 /\ i \in DOMAIN tab THEN tab[i] ELSE None
                 sure == hit[a].sure /\ a \in same \cap settled
      <4>1. got \in Nodes /\ sure \in BOOLEAN
        BY DEF BrowserTypeOK, Nodes
      <4>2. sure => got \in {hit[a].want, None}
        BY <3>1 DEF Chrome!Press, Chrome!Is, AimInv, ActingPcs
      <4>3. hit' = [hit EXCEPT ![a].got = got, ![a].sure = sure]
        BY <3>1 DEF Chrome!Press
      <4> QED BY <4>1, <4>2, <4>3
    <3>2. CASE Chrome!FillRef(a)
      <4> DEFINE got == IF \E i \in DOMAIN tab : tab[i] = browserCall[a].node THEN browserCall[a].node ELSE None
                 sure == hit[a].sure /\ a \in same
      <4>1. got \in Nodes /\ sure \in BOOLEAN
        BY ZeroPlace DEF BrowserTypeOK, BrowserCalls, Nodes
      <4>2. sure => got \in {hit[a].want, None}
        BY <3>2 DEF Chrome!FillRef, Chrome!Is, AimInv, ActingPcs
      <4>3. hit' = [hit EXCEPT ![a].got = got, ![a].sure = sure]
        BY <3>2 DEF Chrome!FillRef
      <4> QED BY <4>1, <4>2, <4>3
    <3> QED BY <1>10, <3>1, <3>2
  <2>2. Chrome!Return(a) /\ UNCHANGED <<tab, shift, overlay, seen, same, settled>>
    BY <1>10 DEF Chrome!Press, Chrome!FillRef
  <2>3. BrowserTypeOK'
    BY <2>1, <2>2, ZeroPlace DEF Chrome!Return, Chrome!Idle, BrowserTypeOK, BrowserCalls, Nodes
  <2>4. AimInv'
    BY <2>1, <2>2 DEF Chrome!Return, Chrome!Idle, BrowserTypeOK, AimInv, ActingPcs
  <2> QED BY <2>2, <2>3, <2>4 DEF SeenInv
<1>11. CASE Chrome!Scroll(a) \/ Chrome!Evaluate(a)
  <2>1. Chrome!Begin(a, "idle", 0) /\ (Chrome!Moves \/ Chrome!Alters) /\ UNCHANGED <<seen, hit>>
    BY <1>11 DEF Chrome!Scroll, Chrome!Evaluate
  <2> QED BY <2>1, PageAction
<1> QED BY <1>1, <1>2, <1>3, <1>4, <1>5, <1>6, <1>7, <1>8, <1>9, <1>10, <1>11 DEF Chrome!Act

LEMMA BrowserStep == ASSUME BrowserInv, [Chrome!Next]_(Chrome!vars) PROVE BrowserInv'
<1> USE DEF BrowserInv
<1>1. CASE Chrome!PageChanges
  <2>1. UNCHANGED <<browserCall, seen, hit>>
    BY <1>1 DEF Chrome!PageChanges
  <2>2. CASE Chrome!Moves \/ Chrome!Alters
    <3>1. /\ shift' \in Int /\ tab' \in Seq(Elements) /\ settled' = {} /\ UNCHANGED overlay
          /\ UNCHANGED <<tab, same>> \/ same' = {}
      BY <2>2, MovesTypes
    <3>2. BrowserTypeOK'
      BY <2>1, <3>1 DEF BrowserTypeOK
    <3>3. SeenInv' /\ AimInv'
      BY <2>1, <3>1 DEF SeenInv, AimInv
    <3> QED BY <3>2, <3>3
  <2>3. CASE \E p \in Chrome!Pages \ {tab} : Chrome!NewPage(p)
    <3>1. tab' \in Seq(Elements) /\ shift' = 0 /\ overlay' = <<>> /\ same' = {} /\ settled' = {}
      BY <2>3 DEF Chrome!NewPage, Chrome!Pages
    <3>2. BrowserTypeOK'
      BY <2>1, <3>1 DEF BrowserTypeOK, Overlays
    <3> QED BY <2>1, <3>1, <3>2, PageChange
  <2> QED BY <1>1, <2>2, <2>3 DEF Chrome!PageChanges
<1>2. CASE Chrome!ChromeStarts \/ Chrome!ChromeEnds
  <2>2. tab' = <<>> /\ shift' = 0 /\ overlay' = <<>> /\ same' = {} /\ settled' = {} /\ UNCHANGED <<browserCall, seen, hit>>
    BY <1>2 DEF Chrome!ChromeStarts, Chrome!ChromeEnds, Chrome!NewPage
  <2>1. BrowserTypeOK'
    BY <2>2 DEF BrowserTypeOK, Overlays
  <2> QED BY <1>2, <2>1, PageChange DEF Chrome!ChromeStarts, Chrome!ChromeEnds, Chrome!NewPage
<1>3. CASE UNCHANGED Chrome!vars
  BY <1>3 DEF Chrome!vars, BrowserTypeOK, SeenInv, AimInv
<1> QED BY ActStep, <1>1, <1>2, <1>3 DEF Chrome!Next

\* An action on a reference reaches what its agent saw under it, or nothing, whatever
\* labels are on the page and whatever other agents do there, as long as no element has
\* come or gone since the snapshot and, for one that presses at coordinates, nothing has
\* moved since it asked for them.
THEOREM ReferencesAreKept == Chrome!Spec => []RefsMeanWhatWasSeen
<1>1. BrowserInv => RefsMeanWhatWasSeen
  BY DEF BrowserInv, AimInv, ActingPcs, Chrome!Is, RefsMeanWhatWasSeen, Chrome!RefsMeanWhatWasSeen
<1> QED BY BrowserInit, BrowserStep, <1>1, PTL DEF Chrome!Spec

-----------------------------------------------------------------------------
(* The programs the app brings along.  A copy of Node.js is in part only   *)
(* while somebody unpacks it, or when an unpacking has been cut off.       *)

RuntimeInv ==
  /\ DOMAIN install = Runtime!Installers /\ DOMAIN said = Runtime!Installers
  /\ node \in Runtime!Copies
  /\ node = "part" => Runtime!Unpacking # {} \/ "node" \in torn
  /\ Runtime!ReportsAreTrue

LEMMA RuntimeInit == Runtime!Init => RuntimeInv
BY DEF Runtime!Init, RuntimeInv, Runtime!ReportsAreTrue, Runtime!Copies

\* A report of an installation is false only when somebody unpacks or has been cut off.
LEMMA InstallStep ==
  ASSUME RuntimeInv, NEW i \in Runtime!Installers, Runtime!Install(i) PROVE RuntimeInv'
<1> USE DEF RuntimeInv, Runtime!ReportsAreTrue, Runtime!Copies, Runtime!Unpacking, Runtime!At,
            Runtime!Goto, Runtime!pythonVars, Runtime!backVars
<1>1. CASE Runtime!Ensure(i)
  BY <1>1 DEF Runtime!Ensure, Runtime!Report, Runtime!Installed
<1>2. CASE Runtime!Download(i)
  BY <1>2 DEF Runtime!Download
<1>3. CASE Runtime!BeginUnpack(i)
  BY <1>3 DEF Runtime!BeginUnpack
<1>4. CASE Runtime!UnpackFails(i)
  BY <1>4 DEF Runtime!UnpackFails, Runtime!Tear
<1>5. CASE Runtime!Unpacked(i)
  <2>1. CASE Runtime!Unpacking = {i}
    BY <1>5, <2>1 DEF Runtime!Unpacked, Runtime!Report, Runtime!Mend
  <2>2. CASE Runtime!Unpacking # {i}
    <3>1. PICK j \in Runtime!Installers : j # i /\ install[j] = "unpack"
      BY <1>5, <2>2 DEF Runtime!Unpacked
    <3> QED BY <1>5, <2>2, <3>1 DEF Runtime!Unpacked, Runtime!Report
  <2> QED BY <2>1, <2>2
<1>6. CASE Runtime!Again(i)
  BY <1>6 DEF Runtime!Again
<1> QED BY <1>1, <1>2, <1>3, <1>4, <1>5, <1>6 DEF Runtime!Install

LEMMA RuntimeStep == ASSUME RuntimeInv, [Runtime!Next]_(Runtime!vars) PROVE RuntimeInv'
<1> USE DEF RuntimeInv, Runtime!ReportsAreTrue, Runtime!Unpacking, Runtime!nodeVars,
            Runtime!pythonVars, Runtime!backVars, Runtime!Tear, Runtime!Mend
<1>1. CASE Runtime!PythonStep
  BY <1>1 DEF Runtime!PythonStep, Runtime!Initialize, Runtime!SetupPython, Runtime!UnpackPython,
              Runtime!FindPython, Runtime!CreateVenv, Runtime!EnsureBasePackages,
              Runtime!InitAt, Runtime!Step
<1>2. CASE Runtime!StartApp \/ Runtime!SpawnBackend \/ Runtime!Listen \/ Runtime!BackendEnds
           \/ Runtime!TakePort \/ Runtime!Leave
  BY <1>2 DEF Runtime!StartApp, Runtime!SpawnBackend, Runtime!Listen, Runtime!BackendEnds,
              Runtime!TakePort, Runtime!Leave
<1>3. CASE Runtime!Started
  BY <1>3 DEF Runtime!Started
<1>4. CASE Runtime!Exit \/ Runtime!Crash
  BY <1>4 DEF Runtime!Exit, Runtime!Crash, Runtime!Cut
<1>5. CASE UNCHANGED Runtime!vars
  BY <1>5 DEF Runtime!vars
<1> QED BY InstallStep, <1>1, <1>2, <1>3, <1>4, <1>5 DEF Runtime!Next, Runtime!BackendStep

\* Whatever installers run at once and wherever the app ends, a copy that is reported as
\* installed is whole, unless an unpacking of Node.js failed, was cut off or goes on; and
\* Python is ready only with an environment that is whole.
THEOREM ReportsTellTheTruth == Runtime!Spec => []ReportsAreTrue
<1>1. RuntimeInv => ReportsAreTrue
  BY DEF RuntimeInv, ReportsAreTrue
<1> QED BY RuntimeInit, RuntimeStep, <1>1, PTL DEF Runtime!Spec

-----------------------------------------------------------------------------
(* The skills.  Whatever is removed from skills/ advances the stamp, so    *)
(* what was seen under the present stamp is still there.                   *)

Shown(fs) ==
  /\ fs \cap {"tool", "prompt"} # {} => dir # Absent
  /\ "single" \in fs => single

SkillJobs ==
  [pc : {"idle", "fetch", "get", "unpack", "check", "make", "copy", "dependencies", "remove",
         "invalidate", "write", "unlink", "row"},
   kind : Skill!Kinds \cup {"none"}, todo : SUBSET Skill!Package]

SkillTypeOK ==
  /\ market \in {Absent} \cup SUBSET Skill!Package /\ dir \in {Absent} \cup SUBSET Skill!Package
  /\ stamp \in Nat
  /\ skillsSeen \in {Nil} \cup [stamp : Nat, seen : SUBSET {"tool", "prompt", "single"}]
  /\ look \in [SkillTurns -> [pc : {"idle", "look", "scan", "store"}, stamp : Nat,
                              seen : SUBSET {"tool", "prompt", "single"}]]
  /\ skillJob \in [SkillCalls -> SkillJobs]
  /\ seeding \in {Nil} \cup SUBSET Skill!Package

\* A call that will copy a package has found one.
PackageInv ==
  \A c \in SkillCalls : skillJob[c].pc \in {"unpack", "check", "make"} => market # Absent

LookInv ==
  \A t \in SkillTurns :
    look[t].pc # "idle" =>
      /\ look[t].stamp <= stamp
      /\ look[t].pc = "store" /\ look[t].stamp = stamp => Shown(look[t].seen)

CacheInv ==
  skillsSeen # Nil =>
    /\ skillsSeen.stamp <= stamp
    /\ skillsSeen.stamp = stamp => Shown(skillsSeen.seen)

SkillInv == SkillTypeOK /\ PackageInv /\ LookInv /\ CacheInv

LEMMA SkillInit == Skill!Init => SkillInv
<1> SUFFICES ASSUME Skill!Init PROVE SkillInv
  OBVIOUS
<1> USE DEF Skill!Init
<1>1. Skill!Idle \in SkillJobs
  BY DEF Skill!Idle, SkillJobs
<1>2. SkillTypeOK
  BY <1>1 DEF SkillTypeOK, Skill!NoLook, Skill!Release
<1>3. PackageInv /\ LookInv /\ CacheInv
  BY DEF PackageInv, LookInv, CacheInv, Skill!Idle, Skill!NoLook
<1> QED BY <1>2, <1>3 DEF SkillInv

\* What a step must do to what turns have seen: keep it shown, or advance the stamp.
KeepsShown ==
  \/ UNCHANGED stamp /\ (dir # Absent => dir' # Absent) /\ (single => single')
  \/ stamp' = stamp + 1

LEMMA ShownIsKept ==
  ASSUME SkillTypeOK, LookInv, CacheInv, KeepsShown, UNCHANGED <<skillsSeen, look>>
  PROVE  LookInv' /\ CacheInv'
BY DEF SkillTypeOK, LookInv, CacheInv, KeepsShown, Shown

\* The steps of the commands of the page and of the tool.
LEMMA SkillCallStep ==
  ASSUME SkillInv, NEW c \in SkillCalls, Skill!Call(c) PROVE SkillInv'
<1> USE SkillAssumption
<1> USE DEF SkillInv, SkillTypeOK, PackageInv, Skill!At, Skill!Goto, Skill!Write,
            Skill!Return, Skill!Idle, Skill!Up, Skill!files, Skill!hist, Skill!Package, SkillJobs
<1>1. ASSUME NEW k \in Skill!Kinds, Skill!Begin(c, k) PROVE SkillInv'
  <2>1. PICK first : /\ skillJob' = [skillJob EXCEPT ![c] =
                            IF first = "idle" THEN Skill!Idle
                            ELSE [pc |-> first, kind |-> k, todo |-> {}]]
                     /\ first \in {"idle", "fetch", "remove", "write", "unlink"}
                          \/ (first = "check" /\ market # Absent)
    BY <1>1 DEF Skill!Begin, Skill!Kinds
  <2> DEFINE job == IF first = "idle" THEN Skill!Idle
                    ELSE [pc |-> first, kind |-> k, todo |-> {}]
  <2>4. job \in SkillJobs /\ (job.pc \in {"unpack", "check", "make"} => market # Absent)
    BY <2>1
  <2>5. skillJob' = [skillJob EXCEPT ![c] = job]
    BY <2>1
  <2> HIDE DEF job, SkillJobs
  <2>2. SkillTypeOK'
    <3>1. skillJob' \in [SkillCalls -> SkillJobs]
      BY <2>4, <2>5
    <3>2. UNCHANGED <<market, dir, stamp, skillsSeen, look, seeding>>
      BY <1>1 DEF Skill!Begin
    <3> QED BY <3>1, <3>2
  <2>3. PackageInv'
    <3> SUFFICES ASSUME NEW d \in SkillCalls, skillJob'[d].pc \in {"unpack", "check", "make"}
                 PROVE  market' # Absent
      OBVIOUS
    <3>1. market' = market
      BY <1>1 DEF Skill!Begin
    <3>2. CASE d = c
      BY <2>4, <2>5, <3>1, <3>2
    <3>3. CASE d # c
      BY <2>5, <3>1, <3>3
    <3> QED BY <3>2, <3>3
  <2> QED BY <1>1, <2>2, <2>3, ShownIsKept DEF Skill!Begin, KeepsShown
<1>2. CASE Skill!Fetch(c) \/ Skill!Check(c)
  <2>1. SkillTypeOK' /\ PackageInv'
    BY <1>2 DEF Skill!Fetch, Skill!Check, Skill!Continue
  <2> QED BY <1>2, <2>1, ShownIsKept DEF Skill!Fetch, Skill!Check, KeepsShown
<1>3. CASE Skill!Get(c)
  <2>1. SkillTypeOK' /\ PackageInv'
    BY <1>3 DEF Skill!Get
  <2> QED BY <1>3, <2>1, ShownIsKept DEF Skill!Get, KeepsShown
<1>4. CASE Skill!Unpack(c)
  <2>1. SkillTypeOK' /\ PackageInv'
    BY <1>4 DEF Skill!Unpack, Skill!Continue
  <2> QED BY <1>4, <2>1, ShownIsKept DEF Skill!Unpack, KeepsShown
<1>5. CASE Skill!MakeDir(c)
  <2>1. market \in SUBSET Skill!Package
    BY <1>5 DEF Skill!MakeDir
  <2>2. skillJob' \in [SkillCalls -> SkillJobs]
    <3>1. [skillJob[c] EXCEPT !.pc = "copy", !.todo = market] \in SkillJobs
      BY <2>1
    <3>2. skillJob' = [skillJob EXCEPT ![c] = [skillJob[c] EXCEPT !.pc = "copy", !.todo = market]]
      BY <1>5 DEF Skill!MakeDir
    <3> QED BY <3>1, <3>2 DEF SkillInv
  <2>4. dir' \in SUBSET Skill!Package \cup {Absent} /\ dir' # Absent /\ stamp' \in Nat
    BY <1>5 DEF Skill!MakeDir, Skill!Touch
  <2>5. SkillTypeOK'
    BY <1>5, <2>2, <2>4 DEF Skill!MakeDir
  <2>3. PackageInv'
    BY <1>5 DEF Skill!MakeDir
  <2> QED BY <1>5, <2>4, <2>5, <2>3, ShownIsKept DEF Skill!MakeDir, Skill!Touch, KeepsShown
<1>6. CASE Skill!Copy(c)
  <2>1. SkillTypeOK' /\ PackageInv' /\ (dir # Absent => dir' # Absent)
    BY <1>6 DEF Skill!Copy
  <2> QED BY <1>6, <2>1, ShownIsKept DEF Skill!Copy, KeepsShown
<1>7. CASE Skill!Copied(c) \/ Skill!InstallDeps(c)
  <2>1. SkillTypeOK' /\ PackageInv'
    BY <1>7 DEF Skill!Copied, Skill!InstallDeps
  <2> QED BY <1>7, <2>1, ShownIsKept DEF Skill!Copied, Skill!InstallDeps, KeepsShown
<1>8. CASE Skill!Remove(c)
  <2>1. SkillTypeOK' /\ PackageInv'
    BY <1>8 DEF Skill!Remove, Skill!Touch
  <2>2. KeepsShown
    BY <1>8 DEF Skill!Remove, Skill!Touch, KeepsShown
  <2> QED BY <1>8, <2>1, <2>2, ShownIsKept DEF Skill!Remove
<1>9. CASE Skill!Invalidate(c)
  <2>1. SkillTypeOK' /\ PackageInv' /\ CacheInv'
    BY <1>9 DEF Skill!Invalidate, CacheInv
  <2>2. LookInv'
    BY <1>9 DEF Skill!Invalidate, LookInv, Shown
  <2> QED BY <2>1, <2>2
<1>10. CASE Skill!WriteSingle(c) \/ Skill!Unlink(c) \/ Skill!PutRow(c)
  <2>1. SkillTypeOK'
    <3>1. CASE Skill!WriteSingle(c)
      BY <3>1 DEF Skill!WriteSingle, Skill!Touch
    <3>2. CASE Skill!Unlink(c)
      BY <3>2 DEF Skill!Unlink, Skill!Touch
    <3>3. CASE Skill!PutRow(c)
      BY <3>3 DEF Skill!PutRow
    <3> QED BY <1>10, <3>1, <3>2, <3>3
  <2>3. PackageInv'
    BY <1>10 DEF Skill!WriteSingle, Skill!Unlink, Skill!PutRow
  <2>2. KeepsShown
    BY <1>10 DEF Skill!WriteSingle, Skill!Unlink, Skill!PutRow, Skill!Touch, KeepsShown
  <2> QED BY <1>10, <2>1, <2>2, <2>3, ShownIsKept DEF Skill!WriteSingle, Skill!Unlink, Skill!PutRow
<1> QED BY <1>1, <1>2, <1>3, <1>4, <1>5, <1>6, <1>7, <1>8, <1>9, <1>10 DEF Skill!Call

\* A turn that stores what it saw stores it under the stamp it read before it looked.
LEMMA SkillLookStep ==
  ASSUME SkillInv, NEW t \in SkillTurns, Skill!Look(t) PROVE SkillInv'
<1> USE DEF SkillInv, SkillTypeOK, PackageInv, Skill!LookAt, Skill!Up, Skill!files, Skill!hist, Skill!NoLook
<1>1. CASE Skill!ReadStamp(t)
  BY <1>1 DEF Skill!ReadStamp, LookInv, CacheInv, Shown
<1>2. CASE Skill!LookUp(t)
  BY <1>2 DEF Skill!LookUp, LookInv, CacheInv, Shown
<1>3. CASE Skill!Scan(t)
  <2>1. Skill!Seen \in SUBSET {"tool", "prompt", "single"} /\ Shown(Skill!Seen)
    BY DEF Skill!Seen, Shown
  <2>2. SkillTypeOK' /\ PackageInv'
    BY <1>3, <2>1 DEF Skill!Scan
  <2>3. LookInv'
    BY <1>3, <2>1 DEF Skill!Scan, LookInv, Shown
  <2> QED BY <1>3, <2>2, <2>3 DEF Skill!Scan, CacheInv, Shown
<1>4. CASE Skill!Store(t)
  BY <1>4 DEF Skill!Store, LookInv, CacheInv, Shown
<1> QED BY <1>1, <1>2, <1>3, <1>4 DEF Skill!Look

LEMMA SkillStep == ASSUME SkillInv, [Skill!Next]_(Skill!vars) PROVE SkillInv'
<1> USE DEF SkillInv, SkillTypeOK, PackageInv, Skill!files, Skill!hist, Skill!Package
<1>1. CASE Skill!Toggle
  BY <1>1 DEF Skill!Toggle, LookInv, CacheInv, Shown
<1>2. CASE Skill!Seed
  <2>1. SkillTypeOK' /\ PackageInv'
    BY <1>2, SkillAssumption DEF Skill!Seed, Skill!Up
  <2> QED BY <1>2, <2>1, ShownIsKept DEF Skill!Seed, KeepsShown
<1>3. CASE Skill!Exit
  <2>1. Skill!Idle \in SkillJobs
    BY DEF Skill!Idle, SkillJobs
  <2>2. SkillTypeOK'
    BY <1>3, <2>1 DEF Skill!Exit, Skill!NoLook, Skill!Release
  <2> QED BY <1>3, <2>2 DEF Skill!Exit, Skill!Idle, Skill!NoLook, LookInv, CacheInv
<1>4. CASE UNCHANGED Skill!vars
  BY <1>4 DEF Skill!vars, LookInv, CacheInv, Shown
<1> QED BY SkillCallStep, SkillLookStep, <1>1, <1>2, <1>3, <1>4 DEF Skill!Next

\* No turn is given a removed skill out of get_skill_manager's cache, though removals by
\* the tool do not drop it and turns store what they saw earlier.
THEOREM RemovedSkillsAreUnseen == Skill!Spec => []UninstalledIsUnseen
<1>1. SkillInv => UninstalledIsUnseen
  BY DEF SkillInv, CacheInv, Shown, UninstalledIsUnseen, Skill!UninstalledIsUnseen
<1> QED BY SkillInit, SkillStep, <1>1, PTL DEF Skill!Spec

-----------------------------------------------------------------------------
(* The bridge.  While the answer to a pull is inserted, what lies between  *)
(* the mark and the time of that answer is in the rows, refused, deleted,  *)
(* or still to be inserted; the mark moves when nothing is left.           *)

Settled == synced \cup refused \cup deleted

BridgeInv ==
  /\ mark \in Nat
  /\ conn \in [pc : {"down", "pull", "insert", "loop"}, answer : SUBSET Nat, time : Nat]
  /\ cloud \in Seq(CloudSessions)
  /\ 1..mark \subseteq Settled
  /\ Cloud!At("insert") => (mark + 1)..conn.time \subseteq Settled \cup conn.answer

LEMMA BridgeInit == Cloud!Init => BridgeInv
BY DEF Cloud!Init, Cloud!Offline, Cloud!At, BridgeInv, Settled

\* Nothing that is settled becomes unsettled: a message whose session is deleted
\* leaves the rows for the deleted ones.
LEMMA BridgeStep == ASSUME BridgeInv, [Cloud!Next]_(Cloud!vars) PROVE BridgeInv'
<1> USE DEF BridgeInv, Settled, Cloud!At, Cloud!Goto, Cloud!data, Cloud!past, Cloud!used
<1>1. ASSUME NEW s \in CloudSessions, Cloud!Arrive(s) PROVE BridgeInv'
  BY <1>1 DEF Cloud!Arrive
<1>2. ASSUME NEW s \in CloudSessions, Cloud!Forward(s) PROVE BridgeInv'
  BY <1>2 DEF Cloud!Forward
<1>3. ASSUME NEW s \in CloudSessions, Cloud!Delete(s) PROVE BridgeInv'
  <2>1. Settled \subseteq Settled'
    BY <1>3 DEF Cloud!Delete
  <2> QED BY <1>3, <2>1 DEF Cloud!Delete
<1>4. CASE Cloud!Connect
  BY <1>4 DEF Cloud!Connect
<1>5. CASE Cloud!Pull
  BY <1>5 DEF Cloud!Pull
<1>6. CASE Cloud!PullRow
  <2> DEFINE i == CHOOSE k \in conn.answer : \A l \in conn.answer : k <= l
  <2>1. PICK n : n = i /\ conn' = [conn EXCEPT !.answer = @ \ {n}] /\ Cloud!Insert(n)
    BY <1>6 DEF Cloud!PullRow
  <2>2. Settled' = Settled \cup {n}
    BY <2>1, <1>6 DEF Cloud!PullRow, Cloud!Insert
  <2> QED BY <1>6, <2>1, <2>2 DEF Cloud!PullRow
<1>7. CASE Cloud!SetMark
  BY <1>7 DEF Cloud!SetMark
<1>8. CASE Cloud!Read
  <2>1. Settled \subseteq Settled'
    BY <1>8 DEF Cloud!Read, Cloud!Insert
  <2> QED BY <1>8, <2>1 DEF Cloud!Read
<1>9. CASE Cloud!Break \/ Cloud!Exit
  BY <1>9 DEF Cloud!Break, Cloud!Exit, Cloud!Offline
<1>10. CASE Cloud!TakeForward \/ Cloud!Answered
  BY <1>10 DEF Cloud!TakeForward, Cloud!Answered
<1>11. CASE UNCHANGED Cloud!vars
  BY <1>11 DEF Cloud!vars
<1> QED BY <1>1, <1>2, <1>3, <1>4, <1>5, <1>6, <1>7, <1>8, <1>9, <1>10, <1>11 DEF Cloud!Next

\* Every message up to the mark from which the bridge will pull is here, was refused or
\* was deleted, in every behaviour of bridge/client.rs, with any number of messages,
\* sessions, pushes, breaks and exits.
THEOREM PullsSkipNothing == Cloud!Spec => []SyncSkipsNothing
<1>1. BridgeInv => SyncSkipsNothing
  BY DEF BridgeInv, Settled, SyncSkipsNothing, Cloud!SyncSkipsNothing
<1> QED BY BridgeInit, BridgeStep, <1>1, PTL DEF Cloud!Spec

-----------------------------------------------------------------------------
(* The sessions of jobs.  Who is about to create a session has found none, *)
(* and another who looked in the meantime has been noted as overlapping.   *)

JobPcs == {"idle", "attempt", "wait", "shell", "find", "create", "turn", "dream", "mcp"}

JobRuns ==
  [pc : JobPcs, kind : {"none", "agent", "shell", "mcp", "dreaming", "heartbeat"},
   agent : {0} \cup People \cup {Job!Max(S) : S \in SUBSET People},
   title : Titles \cup {Heartbeat}, attempt : Nat]

JobTypeOK ==
  /\ people \subseteq People
  /\ run \in [Job!Actors -> JobRuns]
  /\ \A x \in Job!Actors :
       \/ Job!At(x, "attempt") \/ Job!At(x, "wait") \/ (x # Heart /\ ~ Job!At(x, "idle"))
         => run[x].kind \notin {"none", "heartbeat"}

CreatorInv ==
  \A x \in Job!Actors :
    Job!At(x, "create") =>
      /\ Job!SessionsOf(Job!Key(x)) # {} => Job!Key(x) \in overlapped
      /\ \A y \in Job!Actors \ {x} :
           Job!At(y, "create") /\ Job!Key(y) = Job!Key(x) => Job!Key(x) \in overlapped

JobInv == JobTypeOK /\ CreatorInv /\ Job!SessionsAreReused

LEMMA JobInit == Job!Init => JobInv
<1> SUFFICES ASSUME Job!Init PROVE JobInv
  OBVIOUS
<1>1. JobTypeOK
  BY DEF Job!Init, Job!NoRun, JobTypeOK, JobRuns, JobPcs, Job!At
<1>2. CreatorInv /\ Job!SessionsAreReused
  BY DEF Job!Init, Job!NoRun, Job!At, CreatorInv, Job!SessionsAreReused
<1> QED BY <1>1, <1>2 DEF JobInv

\* A step after which nobody is about to create a session who was not before, with no new
\* session, breaks nothing.
Quiet ==
  /\ chats' \subseteq chats /\ overlapped \subseteq overlapped'
  /\ \A x \in Job!Actors :
       Job!At(x, "create")' => Job!At(x, "create") /\ Job!Key(x)' = Job!Key(x)

LEMMA QuietSteps ==
  ASSUME JobInv, JobTypeOK', Quiet PROVE JobInv'
<1> USE DEF JobInv
<1>1. CreatorInv'
  BY DEF CreatorInv, Quiet, Job!SessionsOf
<1>2. Job!SessionsAreReused'
  BY DEF Quiet, Job!SessionsAreReused
<1> QED BY <1>1, <1>2

WithinRun(x) ==
  \/ Job!Attempt(x) \/ Job!Retry(x) \/ Job!TimeOut(x) \/ Job!ShellEnds(x)
  \/ Job!McpEnds(x) \/ Job!EndTurn(x) \/ Job!DreamOfNothing(x)
  \/ \E phase \in Job!Phases : Job!Dream(x, phase)

LEMMA JobStep == ASSUME JobInv, [Job!Next]_(Job!runVars) PROVE JobInv'
<1> USE DEF JobInv, Job!used
<1>1. ASSUME NEW x \in Executions, NEW a \in People, NEW title \in Titles,
             NEW kind \in {"agent", "shell", "mcp", "dreaming"}, Job!Begin(x, kind, a, title)
      PROVE  JobInv'
  <2>1. JobTypeOK'
    BY <1>1 DEF Job!Begin, JobTypeOK, JobRuns, JobPcs, Job!Actors, Job!At
  <2>2. Quiet
    BY <1>1 DEF Job!Begin, Quiet, JobTypeOK, JobRuns, Job!At, Job!Key, Job!Actors
  <2> QED BY <2>1, <2>2, QuietSteps
<1>2. ASSUME NEW x \in Job!Actors, WithinRun(x) PROVE JobInv'
  <2> DEFINE ended == \/ run' = run
                      \/ run' = [run EXCEPT ![x] = Job!NoRun]
                      \/ /\ x # Heart /\ ~ Job!At(x, "idle")
                         /\ run' = [run EXCEPT ![x] = [@ EXCEPT !.pc = "wait"]]
                      \/ /\ Job!At(x, "wait")
                         /\ run' = [run EXCEPT ![x].pc = "attempt", ![x].attempt = @ + 1]
                      \/ /\ Job!At(x, "attempt")
                         /\ \E pc1 \in JobPcs \ {"create"} : run' = [run EXCEPT ![x].pc = pc1]
  <2>1. ended /\ UNCHANGED <<people, chats, overlapped>>
    <3>1. ~ Job!At(x, "idle") /\ (Job!Fails(x) \/ Job!Succeeds(x)) => ended
      BY DEF Job!Fails, Job!Succeeds, JobTypeOK
    <3>2. CASE Job!Attempt(x)
      <4>1. ASSUME NEW pc1 \in {"shell", "find", "dream", "mcp"}, Job!Goto(x, pc1) PROVE ended
        BY <3>2, <4>1 DEF Job!Attempt, Job!Goto, JobRuns, JobPcs
      <4>2. Job!Fails(x) \/ \E pc1 \in {"shell", "find", "dream", "mcp"} : Job!Goto(x, pc1)
        <5>1. run[x].kind \in {"shell", "agent", "dreaming", "mcp"}
          BY <3>2 DEF JobTypeOK, JobRuns, Job!Attempt
        <5> QED BY <5>1, <3>2 DEF Job!Attempt
      <4> QED BY <3>1, <3>2, <4>1, <4>2 DEF Job!Attempt, Job!At
    <3>3. CASE Job!Retry(x)
      BY <3>3 DEF Job!Retry
    <3>4. CASE Job!TimeOut(x) \/ Job!ShellEnds(x) \/ Job!McpEnds(x) \/ Job!EndTurn(x)
               \/ Job!DreamOfNothing(x)
      BY <3>1, <3>4 DEF Job!TimeOut, Job!ShellEnds, Job!McpEnds, Job!EndTurn, Job!DreamOfNothing, Job!At
    <3>5. CASE \E phase \in Job!Phases : Job!Dream(x, phase)
      BY <3>1, <3>5 DEF Job!Dream, Job!At
    <3> QED BY <1>2, <3>2, <3>3, <3>4, <3>5 DEF WithinRun
  <2>2. JobTypeOK'
    BY <2>1 DEF JobTypeOK, JobRuns, JobPcs, Job!NoRun, Job!At
  <2>3. Quiet
    BY <2>1 DEF Quiet, JobTypeOK, JobRuns, JobPcs, Job!At, Job!Key, Job!NoRun
  <2> QED BY <2>2, <2>3, QuietSteps
<1>3. ASSUME NEW x \in Job!Actors, Job!Find(x) PROVE JobInv'
  <2>1. JobTypeOK'
    BY <1>3 DEF Job!Find, Job!Goto, JobTypeOK, JobRuns, JobPcs, Job!At
  <2>2. chats' = chats /\ overlapped \subseteq overlapped'
    BY <1>3 DEF Job!Find
  <2>3. \A y \in Job!Actors : Job!Key(y)' = Job!Key(y) /\ (y # x => run'[y] = run[y])
    BY <1>3 DEF Job!Find, Job!Goto, Job!Key, JobTypeOK, JobRuns
  <2>4. CreatorInv'
    <3> SUFFICES ASSUME NEW y \in Job!Actors, Job!At(y, "create")'
                 PROVE  /\ Job!SessionsOf(Job!Key(y))' # {} => Job!Key(y) \in overlapped'
                        /\ \A z \in Job!Actors \ {y} :
                             Job!At(z, "create")' /\ Job!Key(z) = Job!Key(y) => Job!Key(y) \in overlapped'
      BY <2>3 DEF CreatorInv
    <3>1. CASE y = x
      BY <1>3, <2>2, <2>3, <3>1 DEF Job!Find, Job!Goto, Job!SessionsOf, Job!At, JobTypeOK, JobRuns
    <3>2. CASE y # x
      <4>1. Job!At(y, "create")
        BY <2>3, <3>2 DEF Job!At
      <4>2. Job!SessionsOf(Job!Key(y))' # {} => Job!Key(y) \in overlapped'
        BY <2>2, <2>3, <4>1 DEF CreatorInv, Job!SessionsOf
      <4>3. ASSUME NEW z \in Job!Actors \ {y}, Job!At(z, "create")', Job!Key(z) = Job!Key(y)
            PROVE  Job!Key(y) \in overlapped'
        <5>1. CASE z = x
          BY <1>3, <3>2, <4>1, <4>3, <5>1 DEF Job!Find
        <5>2. CASE z # x
          BY <2>2, <2>3, <4>1, <4>3, <5>2 DEF CreatorInv, Job!At
        <5> QED BY <5>1, <5>2
      <4> QED BY <4>2, <4>3
    <3> QED BY <3>1, <3>2
  <2>5. Job!SessionsAreReused'
    BY <2>2 DEF Job!SessionsAreReused
  <2> QED BY <2>1, <2>4, <2>5
<1>4. ASSUME NEW x \in Job!Actors, Job!Create(x) PROVE JobInv'
  <2>1. CASE Job!Fails(x) /\ UNCHANGED <<people, chats, overlapped>>
    <3>1. JobTypeOK'
      BY <1>4, <2>1 DEF Job!Create, Job!Fails, JobTypeOK, JobRuns, JobPcs, Job!NoRun, Job!At
    <3>2. Quiet
      BY <2>1 DEF Quiet, JobTypeOK, JobRuns, JobPcs, Job!Fails, Job!At, Job!Key, Job!NoRun
    <3> QED BY <3>1, <3>2, QuietSteps
  <2>2. CASE Job!Goto(x, "turn") /\ UNCHANGED <<people, overlapped>>
             /\ chats' = chats \cup {[id |-> created, agent |-> run[x].agent, title |-> run[x].title]}
    <3> DEFINE new == [id |-> created, agent |-> run[x].agent, title |-> run[x].title]
    <3>1. JobTypeOK'
      BY <1>4, <2>2 DEF Job!Create, Job!Goto, JobTypeOK, JobRuns, JobPcs, Job!At
    <3>2. \A y \in Job!Actors : /\ Job!At(y, "create")' => y # x /\ Job!At(y, "create")
                                /\ Job!Key(y)' = Job!Key(y)
      BY <2>2 DEF Job!Goto, JobTypeOK, JobRuns, Job!At, Job!Key
    <3>3. Job!At(x, "create") /\ <<new.agent, new.title>> = Job!Key(x)
      BY <1>4 DEF Job!Create, Job!Key
    <3>4. CreatorInv'
      BY <2>2, <3>2, <3>3 DEF CreatorInv, Job!SessionsOf
    <3>5. \A s \in chats : <<s.agent, s.title>> = Job!Key(x) => Job!Key(x) \in overlapped
      BY <3>3 DEF CreatorInv, Job!SessionsOf
    <3>6. Job!SessionsAreReused'
      BY <2>2, <3>3, <3>5 DEF Job!SessionsAreReused
    <3> QED BY <3>1, <3>4, <3>6
  <2> QED BY <1>4, <2>1, <2>2 DEF Job!Create
<1>5. CASE Job!Beat
  <2>1. \/ run' = run
        \/ run' = [run EXCEPT ![Heart] = [Job!NoRun EXCEPT !.pc = "find", !.kind = "heartbeat",
                                                           !.agent = Job!Max(people)]]
    BY <1>5 DEF Job!Beat
  <2>4. Job!Max(people) \in {Job!Max(S) : S \in SUBSET People}
    BY DEF JobTypeOK
  <2>2. JobTypeOK'
    <3> DEFINE r == [Job!NoRun EXCEPT !.pc = "find", !.kind = "heartbeat", !.agent = Job!Max(people)]
    <3>1. run' = run \/ run' = [run EXCEPT ![Heart] = r]
      BY <2>1
    <3>2. Job!NoRun \in JobRuns
      BY DEF Job!NoRun, JobRuns, JobPcs
    <3>3. r \in JobRuns /\ r.pc = "find"
      BY <2>4, <3>2 DEF JobRuns, JobPcs
    <3> HIDE DEF r
    <3> QED BY <1>5, <3>1, <3>3 DEF Job!Beat, JobTypeOK, JobRuns, Job!At, Job!Actors
  <2>3. Quiet
    BY <1>5, <2>1 DEF Job!Beat, Quiet, JobTypeOK, JobRuns, Job!NoRun, Job!At, Job!Key, Job!Actors
  <2> QED BY <2>2, <2>3, QuietSteps
<1>6. CASE \/ Job!BeginRound \/ Job!Remove \/ UNCHANGED Job!runVars
           \/ \E a \in People :
                \/ Job!CompileWiki(a) \/ Job!BeginCleanup(a) \/ Job!DeleteAgent(a)
                \/ \E phase \in Job!Phases : Job!RunDreaming(a, phase)
  <2>1. /\ run' = run /\ overlapped' = overlapped
        /\ chats' \subseteq chats /\ people' \subseteq people
    BY <1>6 DEF Job!BeginRound, Job!Remove, Job!runVars, Job!CompileWiki, Job!BeginCleanup,
                Job!DeleteAgent, Job!RunDreaming
  <2>2. JobTypeOK' /\ Quiet
    BY <2>1 DEF JobTypeOK, Quiet, Job!At, Job!Key
  <2> QED BY <2>2, QuietSteps
<1> QED BY <1>1, <1>2, <1>3, <1>4, <1>5, <1>6 DEF Job!Next, WithinRun

\* Jobs, heartbeats, retries and clean-ups never give an agent two sessions of one title,
\* unless two runs looked for it at once.
THEOREM JobsReuseSessions == Job!Spec => []SessionsAreReused
<1>1. JobInv => SessionsAreReused
  BY DEF JobInv, SessionsAreReused
<1> QED BY JobInit, JobStep, <1>1, PTL DEF Job!Spec

-----------------------------------------------------------------------------
(* The diffs.  Flattening a sequence of sequences is a recursion, which    *)
(* has one solution; all that is used of it is what one more sequence at   *)
(* its end does.                                                           *)

Gathers(G, ss, n) == G = [i \in 1..n |-> IF i = 1 THEN ss[i] ELSE G[i - 1] \o ss[i]]

LEMMA GatheringExists ==
  ASSUME NEW ss, NEW n \in Nat
  PROVE  \E G : Gathers(G, ss, n)
<1> DEFINE U == {k \in Nat : ~ \E G : Gathers(G, ss, k)}
<1>1. SUFFICES ASSUME U # {} PROVE FALSE
  OBVIOUS
<1>2. PICK m \in U : \A k \in U : m <= k
  BY <1>1, LeastExists
<1>3. m # 0
  <2> DEFINE G == [i \in 1..0 |-> <<>>]
  <2>1. Gathers(G, ss, 0)
    BY DEF Gathers
  <2> QED BY <1>2, <2>1
<1>4. m \in Nat /\ m - 1 \in Nat
  BY <1>3
<1>5. PICK G : Gathers(G, ss, m - 1)
  BY <1>2, <1>4
<1> DEFINE H == [i \in 1..m |-> IF i < m THEN G[i] ELSE IF m = 1 THEN ss[1] ELSE G[m - 1] \o ss[m]]
<1>6. \A i \in 1..(m - 1) : H[i] = G[i]
  BY <1>4
<1>7. \A i \in 1..(m - 1) : G[i] = IF i = 1 THEN ss[i] ELSE G[i - 1] \o ss[i]
  BY <1>4, <1>5 DEF Gathers
<1>8. \A i \in 1..m : H[i] = IF i = 1 THEN ss[i] ELSE H[i - 1] \o ss[i]
  <2> TAKE i \in 1..m
  <2>1. CASE i \in 1..(m - 1)
    <3>1. i # 1 => i - 1 \in 1..(m - 1)
      BY <1>4, <2>1
    <3> HIDE DEF H
    <3> QED BY <1>6, <1>7, <2>1, <3>1
  <2>2. CASE i = m
    <3>1. m # 1 => m - 1 \in 1..(m - 1) /\ H[m - 1] = G[m - 1]
      BY <1>3, <1>4, <1>6
    <3>2. H[m] = IF m = 1 THEN ss[1] ELSE G[m - 1] \o ss[m]
      BY <2>2, <1>4
    <3> HIDE DEF H
    <3> QED BY <2>2, <3>1, <3>2
  <2> QED BY <1>4, <2>1, <2>2
<1>9. Gathers(H, ss, m)
  BY <1>8 DEF Gathers
<1> QED BY <1>2, <1>9

\* The first parts are gathered alike whatever follows them.
LEMMA GatheringAgrees ==
  ASSUME NEW ss, NEW tt, NEW G, NEW H, NEW n \in Nat, NEW m \in Nat, n <= m,
         Gathers(G, ss, n), Gathers(H, tt, m), \A i \in 1..n : ss[i] = tt[i]
  PROVE  \A i \in 1..n : G[i] = H[i]
<1> DEFINE U == {i \in 1..n : G[i] # H[i]}
<1>1. SUFFICES ASSUME U # {} PROVE FALSE
  OBVIOUS
<1>2. PICK k \in U : \A i \in U : k <= i
  <2> U \in SUBSET Nat
    OBVIOUS
  <2> HIDE DEF U
  <2> QED BY <1>1, LeastExists
<1>3. k \in 1..n /\ k \in 1..m /\ G[k] # H[k]
  BY <1>2
<1>4. /\ G[k] = IF k = 1 THEN ss[k] ELSE G[k - 1] \o ss[k]
      /\ H[k] = IF k = 1 THEN tt[k] ELSE H[k - 1] \o tt[k]
  BY <1>3 DEF Gathers
<1>5. k # 1 => G[k - 1] = H[k - 1]
  <2> HAVE k # 1
  <2>1. k - 1 \in 1..n /\ ~ (k <= k - 1)
    BY <1>3
  <2>2. k - 1 \notin U
    <3> HIDE DEF U
    <3> QED BY <1>2, <2>1
  <2> QED BY <2>1, <2>2
<1>6. ss[k] = tt[k]
  BY <1>3
<1> QED BY <1>3, <1>4, <1>5, <1>6

LEMMA GatheredIsSeq ==
  ASSUME NEW S, NEW n \in Nat, NEW ss \in Seq(Seq(S)), Len(ss) = n, NEW G, Gathers(G, ss, n)
  PROVE  \A i \in 1..n : G[i] \in Seq(S)
<1> DEFINE U == {i \in 1..n : G[i] \notin Seq(S)}
<1>1. SUFFICES ASSUME U # {} PROVE FALSE
  OBVIOUS
<1>2. PICK k \in U : \A i \in U : k <= i
  <2> U \in SUBSET Nat
    OBVIOUS
  <2> HIDE DEF U
  <2> QED BY <1>1, LeastExists
<1>3. k \in 1..n /\ G[k] \notin Seq(S) /\ ss[k] \in Seq(S)
  BY <1>2
<1>4. G[k] = IF k = 1 THEN ss[k] ELSE G[k - 1] \o ss[k]
  BY <1>3 DEF Gathers
<1>5. k # 1 => G[k - 1] \in Seq(S)
  <2> HAVE k # 1
  <2>1. k - 1 \in 1..n /\ ~ (k <= k - 1)
    BY <1>3
  <2>2. k - 1 \notin U
    <3> HIDE DEF U
    <3> QED BY <1>2, <2>1
  <2> QED BY <2>1, <2>2
<1> QED BY <1>3, <1>4, <1>5

LEMMA FlatNone == Diff!FlattenSeq(<<>>) = <<>>
BY DEF Diff!FlattenSeq

LEMMA FlatIsSeq ==
  ASSUME NEW S, NEW ss \in Seq(Seq(S))
  PROVE  Diff!FlattenSeq(ss) \in Seq(S)
<1>1. CASE Len(ss) = 0
  <2>1. Diff!FlattenSeq(ss) = ss /\ ss = <<>>
    BY <1>1 DEF Diff!FlattenSeq
  <2> QED BY <2>1
<1>2. CASE Len(ss) # 0
  <2> DEFINE n == Len(ss)
             G == CHOOSE F : Gathers(F, ss, n)
  <2>1. n \in Nat /\ n \in 1..n /\ Diff!FlattenSeq(ss) = G[n]
    BY <1>2 DEF Diff!FlattenSeq, Gathers
  <2>2. Gathers(G, ss, n)
    BY <2>1, GatheringExists
  <2> HIDE DEF G
  <2>3. \A i \in 1..n : G[i] \in Seq(S)
    BY <2>1, <2>2, GatheredIsSeq
  <2> QED BY <2>1, <2>3
<1> QED BY <1>1, <1>2

LEMMA FlatFollows ==
  ASSUME NEW n \in Nat, NEW ss, NEW tt, Len(ss) = n, Len(tt) = n + 1, \A i \in 1..n : ss[i] = tt[i]
  PROVE  /\ n = 0 => Diff!FlattenSeq(tt) = tt[1]
         /\ n # 0 => Diff!FlattenSeq(tt) = Diff!FlattenSeq(ss) \o tt[n + 1]
<1> DEFINE H == CHOOSE F : Gathers(F, tt, n + 1)
<1>1. n + 1 \in Nat /\ n + 1 # 0 /\ n + 1 \in 1..(n + 1)
  OBVIOUS
<1>2. Diff!FlattenSeq(tt) = H[n + 1]
  BY <1>1 DEF Diff!FlattenSeq, Gathers
<1>3. Gathers(H, tt, n + 1)
  BY <1>1, GatheringExists
<1> HIDE DEF H
<1>4. H[n + 1] = IF n + 1 = 1 THEN tt[n + 1] ELSE H[n + 1 - 1] \o tt[n + 1]
  <2>1. \A i \in 1..(n + 1) : H[i] = IF i = 1 THEN tt[i] ELSE H[i - 1] \o tt[i]
    BY <1>3 DEF Gathers
  <2> QED BY <1>1, <2>1
<1>5. CASE n = 0
  BY <1>2, <1>4, <1>5
<1>6. CASE n # 0
  <2> DEFINE G == CHOOSE F : Gathers(F, ss, n)
  <2>1. Diff!FlattenSeq(ss) = G[n]
    BY <1>6 DEF Diff!FlattenSeq, Gathers
  <2>2. Gathers(G, ss, n)
    BY GatheringExists
  <2> HIDE DEF G
  <2>3. \A i \in 1..n : G[i] = H[i]
    <3>1. n <= n + 1
      OBVIOUS
    <3> QED BY <1>1, <1>3, <2>2, <3>1, GatheringAgrees
  <2>4. n \in 1..n /\ n + 1 # 1 /\ n + 1 - 1 = n
    BY <1>6
  <2> QED BY <1>2, <1>4, <1>6, <2>1, <2>3, <2>4
<1> QED BY <1>5, <1>6

\* One more part at the end comes at the end of the whole.
LEMMA FlatOneMore ==
  ASSUME NEW S, NEW ss \in Seq(Seq(S)), NEW s \in Seq(S)
  PROVE  Diff!FlattenSeq(Append(ss, s)) = Diff!FlattenSeq(ss) \o s
<1> DEFINE tt == Append(ss, s)
<1>1. /\ Len(ss) \in Nat /\ Len(tt) = Len(ss) + 1 /\ tt[Len(ss) + 1] = s
      /\ \A i \in 1..Len(ss) : ss[i] = tt[i]
  OBVIOUS
<1>2. /\ Len(ss) = 0 => Diff!FlattenSeq(tt) = tt[1]
      /\ Len(ss) # 0 => Diff!FlattenSeq(tt) = Diff!FlattenSeq(ss) \o tt[Len(ss) + 1]
  <2> HIDE DEF tt
  <2> QED BY <1>1, FlatFollows
<1>3. CASE Len(ss) = 0
  <2>1. ss = <<>> /\ <<>> \o s = s
    BY <1>3
  <2>2. Diff!FlattenSeq(tt) = s
    <3> HIDE DEF tt
    <3> QED BY <1>1, <1>2, <1>3
  <2>3. Diff!FlattenSeq(ss) = <<>>
    BY <2>1, FlatNone
  <2> HIDE DEF tt
  <2>4. Diff!FlattenSeq(tt) = Diff!FlattenSeq(ss) \o s
    BY <2>1, <2>2, <2>3
  <2> QED BY <2>4 DEF tt
<1>4. CASE Len(ss) # 0
  <2> HIDE DEF tt
  <2>1. Diff!FlattenSeq(tt) = Diff!FlattenSeq(ss) \o s
    BY <1>1, <1>2, <1>4
  <2> QED BY <2>1 DEF tt
<1> QED BY <1>3, <1>4

\* What becomes of lines 0 to k, what comes before the place behind line k
\* where a line may be added, and the lines behind line k as they were.
LineOut(i)  == Diff!If(i > 1 /\ i - 1 \notin gone, i - 1) \o Diff!If(i - 1 \in added, Diff!Added(i - 1))
LinesTo(k)  == Diff!FlattenSeq([i \in 1..(k + 1) |-> LineOut(i)])
Upto(k)     == IF k = 0 THEN <<>> ELSE LinesTo(k - 1) \o Diff!If(k \notin gone, k)
RestFrom(k) == [i \in 1..(size - k) |-> k + i]

LEMMA ChangedIsLinesTo == Diff!Changed = LinesTo(size)
BY DEF Diff!Changed, LinesTo, LineOut

LEMMA IfIsSeq ==
  ASSUME NEW S, NEW l \in S, NEW cond \in BOOLEAN
  PROVE  Diff!If(cond, l) \in Seq(S)
BY DEF Diff!If

LEMMA LineOutIsSeq ==
  ASSUME NEW i \in Nat
  PROVE  LineOut(i) \in Seq(Int)
<1>1. i - 1 \in Int /\ Diff!Added(i - 1) \in Int
  BY DEF Diff!Added
<1>2. /\ Diff!If(i > 1 /\ i - 1 \notin gone, i - 1) \in Seq(Int)
      /\ Diff!If(i - 1 \in added, Diff!Added(i - 1)) \in Seq(Int)
  <2> DEFINE p == i > 1 /\ i - 1 \notin gone
             q == i - 1 \in added
             l == Diff!Added(i - 1)
  <2>1. p \in BOOLEAN /\ q \in BOOLEAN
    OBVIOUS
  <2>2. l \in Int
    BY <1>1
  <2> HIDE DEF p, q, l
  <2>3. Diff!If(p, i - 1) \in Seq(Int)
    BY <1>1, <2>1, IfIsSeq
  <2>4. Diff!If(q, l) \in Seq(Int)
    BY <2>1, <2>2, IfIsSeq
  <2> QED BY <2>3, <2>4 DEF p, q, l
<1> QED BY <1>2, ConcatProperties DEF LineOut

LEMMA FlatOfOne ==
  ASSUME NEW tt, Len(tt) = 1
  PROVE  Diff!FlattenSeq(tt) = tt[1]
<1> DEFINE ss == <<>>
<1>1. 0 \in Nat /\ Len(ss) = 0 /\ Len(tt) = 0 + 1 /\ \A i \in 1..0 : ss[i] = tt[i]
  OBVIOUS
<1> HIDE DEF ss
<1> QED BY <1>1, FlatFollows

LEMMA LinesToNext ==
  ASSUME NEW k \in Nat
  PROVE  /\ LinesTo(k) \in Seq(Int)
         /\ LinesTo(0) = LineOut(1)
         /\ LinesTo(k + 1) = LinesTo(k) \o LineOut(k + 2)
<1> DEFINE ss == [i \in 1..(k + 1) |-> LineOut(i)]
           tt == [i \in 1..(k + 1 + 1) |-> LineOut(i)]
           uu == [i \in 1..(0 + 1) |-> LineOut(i)]
<1>1. k + 1 \in Nat /\ k + 1 # 0 /\ k + 1 + 1 = k + 2
  OBVIOUS
<1>2. ss \in Seq(Seq(Int))
  <2>1. \A i \in 1..(k + 1) : LineOut(i) \in Seq(Int)
    BY LineOutIsSeq
  <2> QED BY <2>1
<1>3. Len(ss) = k + 1 /\ Len(tt) = k + 1 + 1 /\ Len(uu) = 0 + 1
      /\ tt[k + 1 + 1] = LineOut(k + 2) /\ \A i \in 1..(k + 1) : ss[i] = tt[i]
  OBVIOUS
<1>4. LinesTo(k) \in Seq(Int)
  <2>1. Diff!FlattenSeq(ss) \in Seq(Int)
    <3> HIDE DEF ss
    <3> QED BY <1>2, FlatIsSeq
  <2> QED BY <2>1 DEF LinesTo
<1>5. LinesTo(k + 1) = LinesTo(k) \o LineOut(k + 2)
  <2>1. Diff!FlattenSeq(tt) = Diff!FlattenSeq(ss) \o tt[k + 1 + 1]
    <3> HIDE DEF ss, tt
    <3> QED BY <1>1, <1>3, FlatFollows
  <2> QED BY <1>3, <2>1 DEF LinesTo
<1>6. LinesTo(0) = LineOut(1)
  <2>1. Len(uu) = 1 /\ uu[1] = LineOut(1)
    OBVIOUS
  <2>2. Diff!FlattenSeq(uu) = uu[1]
    <3> HIDE DEF uu
    <3> QED BY <2>1, FlatOfOne
  <2> QED BY <2>1, <2>2 DEF LinesTo
<1> QED BY <1>4, <1>5, <1>6

\* What becomes of lines 0 to k ends with the line added behind line k.
LEMMA LinesToUpto ==
  ASSUME NEW k \in Nat
  PROVE  /\ LinesTo(k) \in Seq(Int) /\ Upto(k) \in Seq(Int)
         /\ Diff!If(k \in added, Diff!Added(k)) \in Seq(Int)
         /\ Upto(k + 1) = LinesTo(k) \o Diff!If(k + 1 \notin gone, k + 1)
         /\ LinesTo(k) = Upto(k) \o Diff!If(k \in added, Diff!Added(k))
<1> DEFINE q == k \in added
           l == Diff!Added(k)
<1>1. LinesTo(k) \in Seq(Int) /\ Diff!If(k \in added, Diff!Added(k)) \in Seq(Int)
  <2>1. q \in BOOLEAN /\ l \in Int
    BY DEF Diff!Added
  <2> HIDE DEF q, l
  <2>2. Diff!If(q, l) \in Seq(Int)
    BY <2>1, IfIsSeq
  <2> QED BY <2>2, LinesToNext DEF q, l
<1>2. Upto(k + 1) = LinesTo(k) \o Diff!If(k + 1 \notin gone, k + 1)
  <2>1. k + 1 # 0 /\ k + 1 - 1 = k
    OBVIOUS
  <2> QED BY <2>1 DEF Upto
<1>3. CASE k = 0
  <2>1. LinesTo(0) = LineOut(1)
    BY LinesToNext
  <2>2. LineOut(1) = <<>> \o Diff!If(0 \in added, Diff!Added(0))
    <3>1. ~ (1 > 1) /\ 1 - 1 = 0
      OBVIOUS
    <3> QED BY <3>1 DEF LineOut, Diff!If
  <2>3. Upto(0) = <<>>
    BY DEF Upto
  <2>4. Upto(k) = <<>> /\ LinesTo(k) = <<>> \o Diff!If(k \in added, Diff!Added(k))
    BY <1>3, <2>1, <2>2, <2>3
  <2>5. <<>> \in Seq(Int)
    OBVIOUS
  <2> QED BY <1>1, <1>2, <2>4, <2>5
<1>4. CASE k # 0
  <2> DEFINE j == k - 1
             x == Diff!If(k \notin gone, k)
             y == Diff!If(k \in added, Diff!Added(k))
             p == k \notin gone
  <2>1. j \in Nat /\ j + 1 = k /\ j + 2 - 1 = k /\ j + 2 > 1
    BY <1>4
  <2>2. LinesTo(k) = LinesTo(j) \o LineOut(j + 2) /\ LinesTo(j) \in Seq(Int)
    <3> HIDE DEF j
    <3> QED BY <2>1, LinesToNext
  <2>3. LineOut(j + 2) = x \o y
    <3> HIDE DEF j
    <3> QED BY <2>1 DEF LineOut
  <2>4. x \in Seq(Int)
    <3>1. p \in BOOLEAN /\ k \in Int
      OBVIOUS
    <3> HIDE DEF p
    <3>2. Diff!If(p, k) \in Seq(Int)
      BY <3>1, IfIsSeq
    <3> QED BY <3>2 DEF p
  <2>5. Upto(k) = LinesTo(j) \o x
    BY <1>4 DEF Upto
  <2>6. y \in Seq(Int)
    BY <1>1
  <2> HIDE DEF x, y, j
  <2>7. LinesTo(j) \o (x \o y) = (LinesTo(j) \o x) \o y /\ LinesTo(j) \o x \in Seq(Int)
    BY <2>2, <2>4, <2>6
  <2> QED BY <1>1, <1>2, <2>2, <2>3, <2>5, <2>7 DEF y
<1> QED BY <1>3, <1>4

\* A line that stays where it is may count as done or as left.
LEMMA OneMoreStays ==
  ASSUME NEW k \in Nat, size \in Nat, k < size, NEW x \in Seq(Int)
  PROVE  x \o RestFrom(k) = (x \o <<k + 1>>) \o RestFrom(k + 1)
<1>1. size - k \in Nat /\ size - (k + 1) \in Nat
  OBVIOUS
<1>2. /\ RestFrom(k) \in Seq(Int) /\ Len(RestFrom(k)) = size - k
      /\ RestFrom(k + 1) \in Seq(Int) /\ Len(RestFrom(k + 1)) = size - (k + 1)
  BY <1>1 DEF RestFrom
<1>3. RestFrom(k) = <<k + 1>> \o RestFrom(k + 1)
  <2> DEFINE r == <<k + 1>> \o RestFrom(k + 1)
  <2>1. r \in Seq(Int) /\ Len(r) = size - k
    BY <1>2
  <2>2. \A i \in 1..(size - k) : r[i] = RestFrom(k)[i]
    <3> TAKE i \in 1..(size - k)
    <3>1. RestFrom(k)[i] = k + i
      BY DEF RestFrom
    <3>2. CASE i = 1
      BY <1>2, <3>1, <3>2
    <3>3. CASE i # 1
      <4>1. i - 1 \in 1..(size - (k + 1)) /\ (k + 1) + (i - 1) = k + i
        BY <3>3
      <4>2. RestFrom(k + 1)[i - 1] = k + i
        BY <4>1 DEF RestFrom
      <4>3. r[i] = RestFrom(k + 1)[i - 1]
        BY <1>2, <3>3, <4>1
      <4> QED BY <3>1, <4>2, <4>3
    <3> QED BY <3>2, <3>3
  <2> HIDE DEF r
  <2>3. r = RestFrom(k)
    BY <1>2, <2>1, <2>2
  <2> QED BY <2>3 DEF r
<1>4. <<k + 1>> \in Seq(Int)
  OBVIOUS
<1>5. \A y, z \in Seq(Int) : x \o (y \o z) = (x \o y) \o z
  BY ConcatAssociative
<1> QED BY <1>2, <1>3, <1>4, <1>5

\* Lines that the change leaves alone, up to line k, behind line c.
LEMMA GapStays ==
  ASSUME NEW c \in Nat, NEW n \in Nat, size \in Nat, c < n, n <= size,
         \A j \in (c + 1)..n : j \notin gone, \A j \in (c + 1)..(n - 1) : j \notin added
  PROVE  LinesTo(c) \o RestFrom(c) = Upto(n) \o RestFrom(n)
<1> DEFINE Good(k) == LinesTo(c) \o RestFrom(c) = Upto(k) \o RestFrom(k)
           U == {k \in (c + 1)..n : ~ Good(k)}
<1>1. SUFFICES ASSUME U # {} PROVE FALSE
  <2> n \in (c + 1)..n
    OBVIOUS
  <2> QED OBVIOUS
<1>2. PICK k \in U : \A i \in U : k <= i
  <2> U \in SUBSET Nat
    OBVIOUS
  <2> HIDE DEF U
  <2> QED BY <1>1, LeastExists
<1>3. k \in (c + 1)..n /\ k - 1 \in Nat /\ ~ Good(k) /\ k - 1 + 1 = k /\ k - 1 < size
  BY <1>2
<1>4. LinesTo(c) \o RestFrom(c) = LinesTo(k - 1) \o RestFrom(k - 1)
  <2>1. CASE k - 1 = c
    BY <2>1
  <2>2. CASE k - 1 # c
    <3>1. k - 1 \in (c + 1)..n /\ k - 1 \in (c + 1)..(n - 1) /\ ~ (k <= k - 1)
      BY <1>3, <2>2
    <3>2. Good(k - 1)
      <4>1. k - 1 \notin U
        <5> HIDE DEF U
        <5> QED BY <1>2, <3>1
      <4> QED BY <3>1, <4>1
    <3>3. LinesTo(k - 1) = Upto(k - 1)
      <4>1. k - 1 \notin added
        BY <3>1
      <4>2. Diff!If(k - 1 \in added, Diff!Added(k - 1)) = <<>>
        BY <4>1 DEF Diff!If
      <4>3. Upto(k - 1) \in Seq(Int) /\ LinesTo(k - 1) = Upto(k - 1) \o <<>>
        BY <1>3, <4>2, LinesToUpto
      <4> QED BY <4>3
    <3> QED BY <3>2, <3>3
  <2> QED BY <2>1, <2>2
<1>5. Upto(k) = LinesTo(k - 1) \o <<k>> /\ LinesTo(k - 1) \in Seq(Int)
  <2>1. Upto(k - 1 + 1) = LinesTo(k - 1) \o Diff!If(k - 1 + 1 \notin gone, k - 1 + 1)
        /\ LinesTo(k - 1) \in Seq(Int)
    BY <1>3, LinesToUpto
  <2>2. Diff!If(k \notin gone, k) = <<k>>
    BY <1>3 DEF Diff!If
  <2> QED BY <1>3, <2>1, <2>2
<1>6. LinesTo(k - 1) \o RestFrom(k - 1) = (LinesTo(k - 1) \o <<k - 1 + 1>>) \o RestFrom(k - 1 + 1)
  BY <1>3, <1>5, OneMoreStays
<1> QED BY <1>3, <1>4, <1>5, <1>6

\* The lines of a hunk, and the texts of it that are kept.
BodyLine   == [kind : {"-", " ", "+"}, text : Int]
Hunked(k)  == [kind |-> IF k \in gone THEN "-" ELSE " ", text |-> k]
NewLine(k) == [kind |-> "+", text |-> Diff!Added(k)]
BodyTo(a, b)  == Diff!BodyOf(a, b, gone, added)
TextsTo(a, b) == Diff!NewTexts(BodyTo(a, b), {})
LineText(l)  == Diff!If(l.kind # "-" /\ ~ (l.kind = "+" /\ l.text \in {}), l.text)

LEMMA TextsOneMore ==
  ASSUME NEW body \in Seq(BodyLine), NEW l \in BodyLine
  PROVE  /\ Diff!NewTexts(body, {}) \in Seq(Int)
         /\ Diff!NewTexts(Append(body, l), {}) = Diff!NewTexts(body, {}) \o LineText(l)
         /\ Diff!NewTexts(<<>>, {}) = <<>>
<1> DEFINE ss == [i \in DOMAIN body |-> LineText(body[i])]
           more == Append(body, l)
           tt == [i \in DOMAIN more |-> LineText(more[i])]
<1>1. \A m \in BodyLine : LineText(m) \in Seq(Int)
  <2> TAKE m \in BodyLine
  <2> DEFINE p == m.kind # "-" /\ ~ (m.kind = "+" /\ m.text \in {})
  <2>1. p \in BOOLEAN /\ m.text \in Int
    BY DEF BodyLine
  <2> HIDE DEF p
  <2>2. Diff!If(p, m.text) \in Seq(Int)
    BY <2>1, IfIsSeq
  <2> QED BY <2>2 DEF p, LineText
<1>2. /\ DOMAIN body = 1..Len(body) /\ Len(body) \in Nat /\ \A i \in 1..Len(body) : body[i] \in BodyLine
      /\ DOMAIN more = 1..(Len(body) + 1) /\ more[Len(body) + 1] = l
      /\ \A i \in 1..Len(body) : more[i] = body[i]
  OBVIOUS
<1> HIDE DEF more
<1>3. ss \in Seq(Seq(Int)) /\ Len(ss) = Len(body)
  BY <1>1, <1>2
<1>4. tt = Append(ss, LineText(l))
  <2> DEFINE uu == Append(ss, LineText(l))
  <2>1. DOMAIN uu = 1..(Len(body) + 1) /\ uu = [i \in 1..(Len(body) + 1) |-> uu[i]]
    BY <1>1, <1>3
  <2>2. \A i \in 1..(Len(body) + 1) : uu[i] = tt[i]
    <3> TAKE i \in 1..(Len(body) + 1)
    <3>1. CASE i \in 1..Len(body)
      <4>1. uu[i] = ss[i]
        BY <1>3, <3>1
      <4>2. ss[i] = LineText(body[i]) /\ tt[i] = LineText(more[i])
        BY <1>2, <3>1
      <4> HIDE DEF uu, ss, tt
      <4> QED BY <1>2, <3>1, <4>1, <4>2
    <3>2. CASE i = Len(body) + 1
      <4>1. uu[i] = LineText(l)
        BY <1>3, <3>2
      <4>2. tt[i] = LineText(more[i])
        BY <1>2
      <4> HIDE DEF uu, tt
      <4> QED BY <1>2, <3>2, <4>1, <4>2
    <3> QED BY <1>2, <3>1, <3>2
  <2>3. tt = [i \in 1..(Len(body) + 1) |-> tt[i]]
    BY <1>2
  <2> HIDE DEF uu, tt
  <2>4. tt = uu
    BY <2>1, <2>2, <2>3
  <2> QED BY <2>4 DEF uu
<1>5. Diff!FlattenSeq(ss) \in Seq(Int)
  <2> HIDE DEF ss
  <2> QED BY <1>3, FlatIsSeq
<1>6. Diff!FlattenSeq(tt) = Diff!FlattenSeq(ss) \o LineText(l)
  <2> HIDE DEF ss, tt
  <2> QED BY <1>1, <1>3, <1>4, FlatOneMore
<1>7. Diff!NewTexts(body, {}) = Diff!FlattenSeq(ss) /\ Diff!NewTexts(more, {}) = Diff!FlattenSeq(tt)
  BY DEF Diff!NewTexts, LineText
<1>8. Diff!NewTexts(<<>>, {}) = <<>>
  <2> DEFINE ee == [i \in DOMAIN <<>> |-> LineText(<<>>[i])]
  <2>1. ee = <<>>
    OBVIOUS
  <2>2. Diff!NewTexts(<<>>, {}) = Diff!FlattenSeq(ee)
    BY DEF Diff!NewTexts, LineText
  <2> HIDE DEF ee
  <2> QED BY <2>1, <2>2, FlatNone
<1> QED BY <1>5, <1>6, <1>7, <1>8 DEF more

LEMMA BodyLines ==
  ASSUME NEW k \in Int
  PROVE  Hunked(k) \in BodyLine /\ NewLine(k) \in BodyLine
<1>1. Diff!Added(k) \in Int
  BY DEF Diff!Added
<1>2. (IF k \in gone THEN "-" ELSE " ") \in {"-", " ", "+"}
  OBVIOUS
<1> QED BY <1>1, <1>2 DEF Hunked, NewLine, BodyLine

\* A line more of the hunk is that line of the file, and what is added behind it.
LEMMA BodyOneMore ==
  ASSUME NEW a \in Nat, NEW b \in Nat, b + 1 >= a
  PROVE  /\ a # 0 => BodyTo(a, a - 1) = Diff!If(a - 1 \in added, NewLine(a - 1))
         /\ BodyTo(a, b) \in Seq(BodyLine)
         /\ BodyTo(a, b + 1) = BodyTo(a, b) \o (<<Hunked(b + 1)>> \o Diff!If(b + 1 \in added, NewLine(b + 1)))
<1> DEFINE L(i) == Diff!If(i > 1, [kind |-> IF a + i - 2 \in gone THEN "-" ELSE " ", text |-> a + i - 2])
                   \o Diff!If(a + i - 2 \in added, [kind |-> "+", text |-> Diff!Added(a + i - 2)])
           n == b - a + 2
           ss == [i \in 1..n |-> L(i)]
           tt == [i \in 1..(n + 1) |-> L(i)]
<1>1. n \in Nat /\ n # 0 /\ b + 1 - a + 2 = n + 1 /\ a + (n + 1) - 2 = b + 1 /\ n + 1 > 1
  OBVIOUS
<1>2. BodyTo(a, b) = Diff!FlattenSeq(ss)
  BY DEF BodyTo, Diff!BodyOf
<1>3. BodyTo(a, b + 1) = Diff!FlattenSeq(tt)
  <2>1. BodyTo(a, b + 1) = Diff!FlattenSeq([i \in 1..(b + 1 - a + 2) |-> L(i)])
    BY DEF BodyTo, Diff!BodyOf
  <2> HIDE DEF L, n
  <2> QED BY <1>1, <2>1
<1>4. \A i \in Nat : L(i) \in Seq(BodyLine)
  <2> TAKE i \in Nat
  <2> DEFINE p == i > 1
             q == a + i - 2 \in added
             x == [kind |-> IF a + i - 2 \in gone THEN "-" ELSE " ", text |-> a + i - 2]
             y == [kind |-> "+", text |-> Diff!Added(a + i - 2)]
  <2>1. p \in BOOLEAN /\ q \in BOOLEAN
    OBVIOUS
  <2>2. x \in BodyLine /\ y \in BodyLine
    <3>1. a + i - 2 \in Int
      OBVIOUS
    <3>2. Hunked(a + i - 2) \in BodyLine /\ NewLine(a + i - 2) \in BodyLine
      BY <3>1, BodyLines
    <3> QED BY <3>2 DEF Hunked, NewLine
  <2> HIDE DEF p, q, x, y
  <2>3. Diff!If(p, x) \in Seq(BodyLine) /\ Diff!If(q, y) \in Seq(BodyLine)
    BY <2>1, <2>2, IfIsSeq
  <2>4. Diff!If(p, x) \o Diff!If(q, y) \in Seq(BodyLine)
    BY <2>3
  <2> QED BY <2>4 DEF p, q, x, y
<1>5. L(n + 1) = <<Hunked(b + 1)>> \o Diff!If(b + 1 \in added, NewLine(b + 1))
  <2> HIDE DEF n
  <2>1. Diff!If(n + 1 > 1, Hunked(b + 1)) = <<Hunked(b + 1)>>
    BY <1>1 DEF Diff!If
  <2>2. L(n + 1) = Diff!If(n + 1 > 1, Hunked(b + 1)) \o Diff!If(b + 1 \in added, NewLine(b + 1))
    BY <1>1 DEF Hunked, NewLine
  <2> QED BY <2>1, <2>2
<1>6. ss \in Seq(Seq(BodyLine)) /\ Len(ss) = n /\ Len(tt) = n + 1 /\ tt[n + 1] = L(n + 1)
      /\ \A i \in 1..n : ss[i] = tt[i]
  <2> HIDE DEF L, n
  <2>1. \A i \in 1..n : L(i) \in Seq(BodyLine)
    BY <1>1, <1>4
  <2> QED BY <1>1, <2>1
<1>7. Diff!FlattenSeq(ss) \in Seq(BodyLine)
  <2> HIDE DEF ss
  <2> QED BY <1>6, FlatIsSeq
<1>8. Diff!FlattenSeq(tt) = Diff!FlattenSeq(ss) \o tt[n + 1]
  <2> HIDE DEF ss, tt, n
  <2> QED BY <1>1, <1>6, FlatFollows
<1>9. ASSUME a # 0 PROVE BodyTo(a, a - 1) = Diff!If(a - 1 \in added, NewLine(a - 1))
  <2> DEFINE uu == [i \in 1..1 |-> L(i)]
  <2>1. a - 1 - a + 2 = 1 /\ a + 1 - 2 = a - 1 /\ ~ (1 > 1)
    OBVIOUS
  <2>2. BodyTo(a, a - 1) = Diff!FlattenSeq(uu)
    <3>1. BodyTo(a, a - 1) = Diff!FlattenSeq([i \in 1..(a - 1 - a + 2) |-> L(i)])
      BY DEF BodyTo, Diff!BodyOf
    <3> HIDE DEF L
    <3> QED BY <2>1, <3>1
  <2>3. uu[1] = L(1) /\ Len(uu) = 1
    <3> HIDE DEF L
    <3> QED OBVIOUS
  <2>4. L(1) = <<>> \o Diff!If(a - 1 \in added, NewLine(a - 1))
    BY <2>1 DEF Diff!If, NewLine
  <2>5. Diff!If(a - 1 \in added, NewLine(a - 1)) \in Seq(BodyLine)
    <3> DEFINE q == a - 1 \in added
               y == NewLine(a - 1)
    <3>1. q \in BOOLEAN /\ y \in BodyLine
      <4>1. a - 1 \in Int
        OBVIOUS
      <4> QED BY <4>1, BodyLines
    <3> HIDE DEF q, y
    <3>2. Diff!If(q, y) \in Seq(BodyLine)
      BY <3>1, IfIsSeq
    <3> QED BY <3>2 DEF q, y
  <2>6. Diff!FlattenSeq(uu) = uu[1]
    <3> HIDE DEF uu
    <3> QED BY <2>3, FlatOfOne
  <2>7. <<>> \o Diff!If(a - 1 \in added, NewLine(a - 1)) = Diff!If(a - 1 \in added, NewLine(a - 1))
    BY <2>5
  <2> HIDE DEF L, uu
  <2> QED BY <2>2, <2>3, <2>4, <2>6, <2>7
<1> HIDE DEF ss, tt, L, n
<1> QED BY <1>2, <1>3, <1>5, <1>6, <1>7, <1>8, <1>9

LEMMA JoinsAssociate ==
  ASSUME NEW S, NEW seq1 \in Seq(S), NEW seq2 \in Seq(S), NEW seq3 \in Seq(S)
  PROVE  seq1 \o (seq2 \o seq3) = (seq1 \o seq2) \o seq3 /\ seq1 \o seq2 \in Seq(S)
<1>1. \A u, v, w \in Seq(S) : u \o (v \o w) = (u \o v) \o w
  BY ConcatAssociative
<1> QED BY <1>1

Join(u, v) == u \o v

LEMMA IntJoins ==
  ASSUME NEW u \in Seq(Int), NEW v \in Seq(Int), NEW w \in Seq(Int)
  PROVE  (u \o v) \o w = u \o (v \o w)
BY ConcatAssociative, SMT

LEMMA JoinsOfFour ==
  ASSUME NEW seq1 \in Seq(Int), NEW seq2 \in Seq(Int), NEW seq3 \in Seq(Int), NEW seq4 \in Seq(Int)
  PROVE  Join(seq1, Join(Join(seq2, seq3), seq4)) = Join(Join(Join(seq1, seq2), seq3), seq4)
<1>1. PICK mid : mid = seq2 \o seq3
  OBVIOUS
<1>2. mid \in Seq(Int)
  BY <1>1, JoinsAssociate
<1>3. (seq1 \o seq2) \o seq3 = seq1 \o mid
  BY <1>1, IntJoins
<1>4. (seq1 \o mid) \o seq4 = seq1 \o (mid \o seq4)
  BY <1>2, IntJoins
<1> QED BY <1>1, <1>3, <1>4 DEF Join

LEMMA TextsMore ==
  ASSUME NEW body \in Seq(BodyLine), NEW k \in Int
  PROVE  /\ Diff!NewTexts(body \o <<Hunked(k)>>, {}) = Diff!NewTexts(body, {}) \o Diff!If(k \notin gone, k)
         /\ Diff!NewTexts(body \o Diff!If(k \in added, NewLine(k)), {})
            = Diff!NewTexts(body, {}) \o Diff!If(k \in added, Diff!Added(k))
<1>1. Hunked(k) \in BodyLine /\ NewLine(k) \in BodyLine
  BY BodyLines
<1>2. \A l \in BodyLine : body \o <<l>> = Append(body, l)
  OBVIOUS
<1>3. \A l \in BodyLine : Diff!NewTexts(body \o <<l>>, {}) = Diff!NewTexts(body, {}) \o LineText(l)
  BY <1>2, TextsOneMore
<1>4. LineText(Hunked(k)) = Diff!If(k \notin gone, k)
  BY DEF LineText, Hunked, Diff!If
<1>5. LineText(NewLine(k)) = <<Diff!Added(k)>>
  BY DEF LineText, NewLine, Diff!If
<1>6. CASE k \in added
  <2>1. Diff!If(k \in added, NewLine(k)) = <<NewLine(k)>>
        /\ Diff!If(k \in added, Diff!Added(k)) = <<Diff!Added(k)>>
    BY <1>6 DEF Diff!If
  <2> QED BY <1>1, <1>3, <1>4, <1>5, <2>1
<1>7. CASE k \notin added
  <2>1. Diff!If(k \in added, NewLine(k)) = <<>> /\ Diff!If(k \in added, Diff!Added(k)) = <<>>
    BY <1>7 DEF Diff!If
  <2>2. body \o <<>> = body
    OBVIOUS
  <2>3. Diff!NewTexts(body, {}) \in Seq(Int)
    BY <1>1, TextsOneMore
  <2>4. Diff!NewTexts(body, {}) \o <<>> = Diff!NewTexts(body, {})
    BY <2>3
  <2>5. Diff!NewTexts(body \o <<Hunked(k)>>, {}) = Diff!NewTexts(body, {}) \o Diff!If(k \notin gone, k)
    BY <1>1, <1>3, <1>4
  <2> QED BY <2>1, <2>2, <2>4, <2>5
<1> QED BY <1>6, <1>7

\* The texts kept of the hunk about lines a to b are what becomes of them.
LEMMA HunkTexts ==
  ASSUME NEW a \in Nat, a # 0, NEW n \in Nat, n + 1 >= a
  PROVE  /\ BodyTo(a, n) \in Seq(BodyLine)
         /\ TextsTo(a, n) \in Seq(Int)
         /\ Upto(a - 1) \o TextsTo(a, n) = LinesTo(n)
<1>1. \A b \in Nat : b + 1 >= a => BodyTo(a, b) \in Seq(BodyLine) /\ TextsTo(a, b) \in Seq(Int)
  <2> TAKE b \in Nat
  <2> HAVE b + 1 >= a
  <2>1. BodyTo(a, b) \in Seq(BodyLine)
    BY BodyOneMore
  <2>2. Hunked(0) \in BodyLine
    BY BodyLines
  <2> QED BY <2>1, <2>2, TextsOneMore DEF TextsTo
<1> DEFINE Good(b) == Upto(a - 1) \o TextsTo(a, b) = LinesTo(b)
           U == {b \in Nat : b + 1 >= a /\ ~ Good(b)}
<1>2. SUFFICES ASSUME U # {} PROVE FALSE
  BY <1>1
<1>3. PICK b \in U : \A i \in U : b <= i
  <2> U \in SUBSET Nat
    OBVIOUS
  <2> HIDE DEF U
  <2> QED BY <1>2, LeastExists
<1>4. b \in Nat /\ b + 1 >= a /\ ~ Good(b)
  BY <1>3
<1>5. CASE b = a - 1
  <2> DEFINE x == Diff!If(b \in added, NewLine(b))
             y == Diff!If(b \in added, Diff!Added(b))
  <2>1. BodyTo(a, b) = x
    BY <1>4, <1>5, BodyOneMore
  <2>2. <<>> \in Seq(BodyLine) /\ b \in Int
    BY <1>4
  <2>3. Diff!NewTexts(<<>> \o x, {}) = Diff!NewTexts(<<>>, {}) \o y
    BY <2>2, TextsMore
  <2>4. Diff!NewTexts(<<>>, {}) = <<>>
    <3>1. Hunked(0) \in BodyLine
      BY BodyLines
    <3> QED BY <2>2, <3>1, TextsOneMore
  <2>5. LinesTo(b) = Upto(b) \o y /\ y \in Seq(Int)
    BY <1>4, LinesToUpto
  <2>6. x \in Seq(BodyLine)
    BY <1>1, <1>4, <2>1
  <2> HIDE DEF x, y
  <2>7. <<>> \o x = x /\ <<>> \o y = y
    BY <2>5, <2>6
  <2>8. TextsTo(a, b) = y
    BY <2>1, <2>3, <2>4, <2>7 DEF TextsTo
  <2> QED BY <1>4, <1>5, <2>5, <2>8
<1>6. CASE b # a - 1
  <2> DEFINE c == b - 1
             h == <<Hunked(b)>>
             x == Diff!If(b \in added, NewLine(b))
             p == Diff!If(b \notin gone, b)
             y == Diff!If(b \in added, Diff!Added(b))
  <2>1. c \in Nat /\ c + 1 = b /\ c + 1 >= a /\ ~ (b <= c) /\ b \in Int
    BY <1>4, <1>6
  <2>2. Good(c)
    <3>1. c \notin U
      <4> HIDE DEF U, c
      <4> QED BY <1>3, <2>1
    <3> QED BY <2>1, <3>1
  <2>3. BodyTo(a, b) = BodyTo(a, c) \o (h \o x) /\ BodyTo(a, c) \in Seq(BodyLine)
    <3> HIDE DEF c
    <3> QED BY <2>1, BodyOneMore
  <2>4. Hunked(b) \in BodyLine /\ NewLine(b) \in BodyLine
    BY <2>1, BodyLines
  <2>5. x \in Seq(BodyLine)
    <3> DEFINE q == b \in added
    <3>1. q \in BOOLEAN
      OBVIOUS
    <3> HIDE DEF q
    <3>2. Diff!If(q, NewLine(b)) \in Seq(BodyLine)
      BY <2>4, <3>1, IfIsSeq
    <3> QED BY <3>2 DEF q
  <2>6. p \in Seq(Int)
    <3> DEFINE q == b \notin gone
    <3>1. q \in BOOLEAN
      OBVIOUS
    <3> HIDE DEF q
    <3>2. Diff!If(q, b) \in Seq(Int)
      BY <2>1, <3>1, IfIsSeq
    <3> QED BY <3>2 DEF q
  <2>7. LinesTo(b) = Upto(b) \o y /\ y \in Seq(Int) /\ Upto(b) = LinesTo(c) \o p /\ LinesTo(c) \in Seq(Int)
    <3>1. LinesTo(b) = Upto(b) \o y /\ y \in Seq(Int)
      BY <1>4, LinesToUpto
    <3>2. Upto(c + 1) = LinesTo(c) \o Diff!If(c + 1 \notin gone, c + 1) /\ LinesTo(c) \in Seq(Int)
      <4> HIDE DEF c
      <4> QED BY <2>1, LinesToUpto
    <3> HIDE DEF c
    <3> QED BY <2>1, <3>1, <3>2
  <2>8. TextsTo(a, c) \in Seq(Int) /\ Upto(a - 1) \in Seq(Int)
    <3>1. TextsTo(a, c) \in Seq(Int)
      <4> HIDE DEF c
      <4> QED BY <1>1, <2>1
    <3>2. a - 1 \in Nat
      OBVIOUS
    <3> QED BY <3>1, <3>2, LinesToUpto
  <2>9. TextsTo(a, b) = (TextsTo(a, c) \o p) \o y
    <3> DEFINE z == BodyTo(a, c) \o h
    <3>1. h \in Seq(BodyLine)
      BY <2>4
    <3> HIDE DEF c, x, h
    <3>2. BodyTo(a, b) = z \o x /\ z \in Seq(BodyLine)
      BY <2>3, <2>5, <3>1, JoinsAssociate
    <3>3. Diff!NewTexts(z, {}) = Diff!NewTexts(BodyTo(a, c), {}) \o p
      BY <2>1, <2>3, TextsMore DEF h
    <3>4. Diff!NewTexts(z \o x, {}) = Diff!NewTexts(z, {}) \o y
      <4> HIDE DEF z
      <4> QED BY <2>1, <3>2, TextsMore DEF x
    <3> HIDE DEF z, p, y
    <3> QED BY <3>2, <3>3, <3>4 DEF TextsTo
  <2>10. Upto(a - 1) \o TextsTo(a, c) = LinesTo(c)
    BY <2>2
  <2> HIDE DEF c, p, y
  <2>11. Upto(a - 1) \o TextsTo(a, b) = LinesTo(b)
    <3>1. /\ LinesTo(b) = Join(Join(LinesTo(c), p), y)
          /\ TextsTo(a, b) = Join(Join(TextsTo(a, c), p), y)
          /\ LinesTo(c) = Join(Upto(a - 1), TextsTo(a, c))
      BY <2>7, <2>9, <2>10 DEF Join
    <3>2. Join(Upto(a - 1), Join(Join(TextsTo(a, c), p), y))
          = Join(Join(Join(Upto(a - 1), TextsTo(a, c)), p), y)
      BY ONLY <2>6, <2>7, <2>8, JoinsOfFour, SMT
    <3>3. Join(Upto(a - 1), TextsTo(a, b)) = LinesTo(b)
      BY ONLY <3>1, <3>2
    <3> QED BY <3>3 DEF Join
  <2> QED BY <1>4, <2>11
<1> QED BY <1>5, <1>6

DiffTypes ==
  /\ size \in Nat /\ gone \subseteq 1..size /\ added \subseteq 0..size
  /\ applied \in Nat /\ verdict \in {"running", "done", "panic"}

\* Stretches of the file that cover the change and all have a line.
IsCut(cuts) ==
  /\ cuts \in Seq(Diff!Stretches(size)) /\ Len(cuts) # 0
  /\ Diff!Covers(cuts, gone, added)
  /\ \A i \in 1..Len(cuts) : cuts[i][1] <= cuts[i][2]

\* How far a plain diff is applied: up to the line before the next hunk, or
\* all of it.
Applied(cuts) ==
  /\ hunks = Diff!HunksOf(cuts) /\ plus = {} /\ \A i \in DOMAIN hunks : ~ hunks[i].mark
  /\ applied <= Len(cuts) /\ verdict # "panic"
  /\ lines \in Seq(Int) /\ offset = Len(lines) - size
  /\ \A k : applied < Len(cuts) /\ k = cuts[applied + 1][1] - 1 => lines = Upto(k) \o RestFrom(k)
  /\ applied = Len(cuts) => lines = LinesTo(size)
  /\ verdict = "done" => applied = Len(cuts)

DiffInv ==
  /\ DiffTypes
  /\ Diff!Plain => \E cuts : IsCut(cuts) /\ Applied(cuts)
  /\ verdict = "done" => onDisk = Diff!TextOf(lines, "LF", "")

\* The lines of a text are those it was made of.
LEMMA TextHasLines ==
  ASSUME NEW n \in Nat, NEW ls, DOMAIN ls = 1..n, ls = [k \in DOMAIN ls |-> ls[k]], NEW nl, NEW la
  PROVE  Diff!LinesOf(Diff!TextOf(ls, nl, la)) = ls
BY DEF Diff!LinesOf, Diff!TextOf

\* A cut names old lines only, one stretch behind the other.
LEMMA CutTypes ==
  ASSUME size \in Nat, NEW cuts, IsCut(cuts)
  PROVE  /\ Len(cuts) \in Nat /\ DOMAIN cuts = 1..Len(cuts)
         /\ \A i \in 1..Len(cuts) : /\ cuts[i][1] \in Nat /\ cuts[i][2] \in Nat /\ cuts[i][1] # 0
                                   /\ cuts[i][1] <= cuts[i][2] /\ cuts[i][2] <= size
         /\ \A i, j \in 1..Len(cuts) : i < j => cuts[i][2] < cuts[j][1] - 1
<1>1. Len(cuts) \in Nat /\ DOMAIN cuts = 1..Len(cuts)
  BY DEF IsCut
<1>2. \A i \in 1..Len(cuts) : cuts[i] \in (1..(size + 1)) \X (0..size)
  BY DEF IsCut, Diff!Stretches
<1>3. \A i \in 1..Len(cuts) : cuts[i][1] \in 1..(size + 1) /\ cuts[i][2] \in 0..size
  BY <1>2
<1>4. \A i \in 1..Len(cuts) : cuts[i][1] <= cuts[i][2]
  BY DEF IsCut
<1>5. \A i, j \in 1..Len(cuts) : i < j => cuts[i][2] < cuts[j][1] - 1
  BY <1>1 DEF IsCut, Diff!Covers
<1>6. \A i \in 1..Len(cuts) : /\ cuts[i][1] \in Nat /\ cuts[i][2] \in Nat /\ cuts[i][1] # 0
                              /\ cuts[i][1] <= cuts[i][2] /\ cuts[i][2] <= size
  <2> TAKE i \in 1..Len(cuts)
  <2>1. cuts[i][1] \in 1..(size + 1) /\ cuts[i][2] \in 0..size /\ cuts[i][1] <= cuts[i][2]
    BY <1>3, <1>4
  <2> QED BY <2>1
<1> QED BY <1>1, <1>5, <1>6

\* What lies between two stretches, before the first or behind the last, stays.
LEMMA BetweenHunks ==
  ASSUME DiffTypes, NEW cuts, IsCut(cuts), NEW n \in 0..Len(cuts)
  PROVE  LET lo == IF n = 0 THEN 0 ELSE cuts[n][2]
             hi == IF n = Len(cuts) THEN size + 2 ELSE cuts[n + 1][1]
         IN  /\ \A j \in (lo + 1)..(hi - 1) : j \notin gone
             /\ \A j \in (lo + 1)..(hi - 2) : j \notin added
             /\ n = 0 /\ hi > 1 => 0 \notin added
<1> DEFINE lo == IF n = 0 THEN 0 ELSE cuts[n][2]
           hi == IF n = Len(cuts) THEN size + 2 ELSE cuts[n + 1][1]
<1>1. /\ size \in Nat /\ Len(cuts) \in Nat /\ n \in Nat /\ n <= Len(cuts) /\ DOMAIN cuts = 1..Len(cuts) /\ Len(cuts) # 0
      /\ \A i \in 1..Len(cuts) : /\ cuts[i][1] \in Nat /\ cuts[i][2] \in Nat /\ cuts[i][1] # 0
                                /\ cuts[i][1] <= cuts[i][2] /\ cuts[i][2] <= size
      /\ \A i, j \in 1..Len(cuts) : i < j => cuts[i][2] < cuts[j][1] - 1
  BY CutTypes DEF DiffTypes, IsCut
<1>2. \A i \in 1..Len(cuts) : i <= n => cuts[i][2] <= lo
  <2> TAKE i \in 1..Len(cuts)
  <2> HAVE i <= n
  <2>1. n \in 1..Len(cuts) /\ lo = cuts[n][2]
    BY <1>1
  <2>2. CASE i = n
    BY <1>1, <2>1, <2>2
  <2>3. CASE i < n
    <3> HIDE DEF lo
    <3>1. cuts[i][2] < cuts[n][1] - 1 /\ cuts[n][1] <= cuts[n][2]
      BY <1>1, <2>1, <2>3
    <3> QED BY <1>1, <2>1, <3>1
  <2> QED BY <1>1, <2>2, <2>3
<1>3. \A i \in 1..Len(cuts) : n < i => hi <= cuts[i][1]
  <2> TAKE i \in 1..Len(cuts)
  <2> HAVE n < i
  <2>1. n + 1 \in 1..Len(cuts) /\ hi = cuts[n + 1][1]
    <3>1. n \in Nat /\ Len(cuts) \in Nat
      BY <1>1
    <3>2. n + 1 \in 1..Len(cuts) /\ n # Len(cuts)
      BY ONLY <3>1, i \in 1..Len(cuts), n < i
    <3> QED BY <3>2
  <2>2. CASE i = n + 1
    <3> HIDE DEF hi
    <3> QED BY <1>1, <2>1, <2>2
  <2>3. CASE n + 1 < i
    <3> HIDE DEF hi
    <3>1. cuts[n + 1][2] < cuts[i][1] - 1 /\ cuts[n + 1][1] <= cuts[n + 1][2]
      BY <1>1, <2>1, <2>3
    <3> QED BY <1>1, <2>1, <3>1
  <2>4. i = n + 1 \/ n + 1 < i
    BY <1>1
  <2> HIDE DEF hi
  <2> QED BY <2>2, <2>3, <2>4
<1>4. lo \in Nat /\ hi \in Nat
  <2>1. size \in Nat /\ n \in Nat /\ Len(cuts) \in Nat /\ n <= Len(cuts)
    BY <1>1
  <2>2. \A i \in 1..Len(cuts) : cuts[i][1] \in Nat /\ cuts[i][2] \in Nat
    BY <1>1
  <2>3. n # 0 => n \in 1..Len(cuts)
    BY ONLY <2>1
  <2>4. n # Len(cuts) => n + 1 \in 1..Len(cuts)
    BY ONLY <2>1
  <2>5. lo \in Nat
    BY ONLY <2>2, <2>3
  <2>6. hi \in Nat
    BY ONLY <2>1, <2>2, <2>4
  <2> QED BY <2>5, <2>6
<1> HIDE DEF lo, hi
<1>5. \A j \in gone : \E i \in 1..Len(cuts) : cuts[i][1] <= j /\ j <= cuts[i][2]
  <2> TAKE j \in gone
  <2>1. PICK i \in 1..Len(cuts) : j \in cuts[i][1]..cuts[i][2]
    BY <1>1 DEF IsCut, Diff!Covers
  <2> QED BY <1>1, <2>1
<1>6. \A j \in added : \E i \in 1..Len(cuts) : cuts[i][1] - 1 <= j /\ j <= cuts[i][2]
  <2> TAKE j \in added
  <2>1. PICK i \in 1..Len(cuts) : j \in (cuts[i][1] - 1)..cuts[i][2]
    BY <1>1 DEF IsCut, Diff!Covers
  <2> QED BY <1>1, <2>1
<1>7. ASSUME NEW j \in (lo + 1)..(hi - 1), j \in gone PROVE FALSE
  <2>1. PICK i \in 1..Len(cuts) : cuts[i][1] <= j /\ j <= cuts[i][2]
    BY <1>5, <1>7
  <2>2. i <= n \/ n < i
    BY <1>1
  <2> QED BY <1>1, <1>2, <1>3, <1>4, <2>1, <2>2
<1>8. ASSUME NEW j \in (lo + 1)..(hi - 2), j \in added PROVE FALSE
  <2>1. PICK i \in 1..Len(cuts) : cuts[i][1] - 1 <= j /\ j <= cuts[i][2]
    BY <1>6, <1>8
  <2>2. i <= n \/ n < i
    BY <1>1
  <2> QED BY <1>1, <1>2, <1>3, <1>4, <2>1, <2>2
<1>9. ASSUME n = 0, hi > 1, 0 \in added PROVE FALSE
  <2>1. PICK i \in 1..Len(cuts) : cuts[i][1] - 1 <= 0 /\ 0 <= cuts[i][2]
    BY <1>6, <1>9
  <2>2. hi <= cuts[i][1]
    BY <1>1, <1>3, <1>9
  <2> QED BY <1>1, <1>4, <1>9, <2>1, <2>2
<1>10. /\ \A j \in (lo + 1)..(hi - 1) : j \notin gone
       /\ \A j \in (lo + 1)..(hi - 2) : j \notin added
       /\ n = 0 /\ hi > 1 => 0 \notin added
  BY <1>7, <1>8, <1>9
<1> QED BY <1>10 DEF lo, hi

LEMMA RestTypes ==
  ASSUME size \in Nat, NEW k \in Nat, k <= size
  PROVE  /\ RestFrom(k) \in Seq(Int) /\ Len(RestFrom(k)) = size - k
         /\ \A i \in 1..(size - k) : RestFrom(k)[i] = k + i
<1>1. size - k \in Nat /\ size - size = 0
  OBVIOUS
<1>2. RestFrom(k) \in Seq(Int) /\ Len(RestFrom(k)) = size - k
      /\ \A i \in 1..(size - k) : RestFrom(k)[i] = k + i
  BY <1>1 DEF RestFrom
<1> QED BY <1>2

LEMMA RestNone ==
  ASSUME size \in Nat
  PROVE  RestFrom(size) = <<>>
<1>1. size - size = 0
  OBVIOUS
<1>2. RestFrom(size) = [i \in 1..0 |-> size + i]
  BY <1>1 DEF RestFrom
<1> QED BY <1>2

\* When the file is done up to a hunk, it is so up to the next.
LEMMA NextHunk ==
  ASSUME DiffTypes, NEW cuts, IsCut(cuts), NEW n \in 0..Len(cuts), NEW x,
         n = 0 => x = RestFrom(0),
         n # 0 => x = LinesTo(cuts[n][2]) \o RestFrom(cuts[n][2])
  PROVE  /\ n < Len(cuts) => LET k == cuts[n + 1][1] - 1 IN x = Upto(k) \o RestFrom(k)
         /\ n = Len(cuts) => x = LinesTo(size)
<1>1. /\ size \in Nat /\ Len(cuts) \in Nat /\ n \in Nat /\ n <= Len(cuts) /\ Len(cuts) # 0
      /\ \A i \in 1..Len(cuts) : /\ cuts[i][1] \in Nat /\ cuts[i][2] \in Nat /\ cuts[i][1] # 0
                                /\ cuts[i][1] <= cuts[i][2] /\ cuts[i][2] <= size
      /\ \A i, j \in 1..Len(cuts) : i < j => cuts[i][2] < cuts[j][1] - 1
  BY CutTypes DEF DiffTypes, IsCut
<1>2. \A k \in Nat : LinesTo(k) \in Seq(Int) /\ Upto(k) \in Seq(Int)
                     /\ (k \notin added => LinesTo(k) = Upto(k))
  <2> TAKE k \in Nat
  <2>1. LinesTo(k) \in Seq(Int) /\ Upto(k) \in Seq(Int)
        /\ LinesTo(k) = Upto(k) \o Diff!If(k \in added, Diff!Added(k))
    BY LinesToUpto
  <2>2. k \notin added => Diff!If(k \in added, Diff!Added(k)) = <<>>
    BY DEF Diff!If
  <2>3. Upto(k) \o <<>> = Upto(k)
    BY <2>1
  <2> QED BY <2>1, <2>2, <2>3
<1>3. RestFrom(0) \in Seq(Int) /\ <<>> \o RestFrom(0) = RestFrom(0) /\ Upto(0) = <<>>
  <2>1. RestFrom(0) \in Seq(Int)
    BY <1>1, RestTypes
  <2> QED BY <2>1 DEF Upto
<1>4. CASE n < Len(cuts)
  <2> DEFINE hi == cuts[n + 1][1]
             k == hi - 1
  <2>1. n + 1 \in 1..Len(cuts)
    BY <1>1, <1>4
  <2>2. hi \in Nat /\ k \in Nat /\ k <= size /\ hi - 2 = k - 1
    BY <1>1, <2>1
  <2>3. ASSUME n = 0 PROVE x = Upto(k) \o RestFrom(k)
    <3>1. /\ \A j \in (0 + 1)..(hi - 1) : j \notin gone
          /\ \A j \in (0 + 1)..(hi - 2) : j \notin added
          /\ hi > 1 => 0 \notin added
      BY <1>4, <2>3, BetweenHunks
    <3>2. x = <<>> \o RestFrom(0)
      BY <1>3, <2>3
    <3>3. \A j \in (0 + 1)..k : j \notin gone
      BY <3>1
    <3>4. \A j \in (0 + 1)..(k - 1) : j \notin added
      BY <2>2, <3>1
    <3> HIDE DEF k
    <3>5. CASE k = 0
      BY <1>3, <3>2, <3>5
    <3>6. CASE k # 0
      <4>1. 0 < k /\ hi > 1
        BY <2>2, <3>6 DEF k
      <4>2. LinesTo(0) = <<>>
        BY <1>2, <1>3, <3>1, <4>1
      <4>3. LinesTo(0) \o RestFrom(0) = Upto(k) \o RestFrom(k)
        BY <1>1, <2>2, <4>1, <3>3, <3>4, GapStays
      <4> QED BY <3>2, <4>2, <4>3
    <3> QED BY <3>5, <3>6
  <2>4. ASSUME n # 0 PROVE x = Upto(k) \o RestFrom(k)
    <3> DEFINE lo == cuts[n][2]
    <3>1. /\ \A j \in (lo + 1)..(hi - 1) : j \notin gone
          /\ \A j \in (lo + 1)..(hi - 2) : j \notin added
      BY <1>4, <2>4, BetweenHunks
    <3>2. n \in 1..Len(cuts) /\ n < n + 1
      BY <1>1, <2>4
    <3>3. lo \in Nat /\ lo < k
      BY <1>1, <2>1, <3>2
    <3>4. LinesTo(lo) \o RestFrom(lo) = Upto(k) \o RestFrom(k)
      <4>1. \A j \in (lo + 1)..k : j \notin gone
        BY <3>1
      <4>2. \A j \in (lo + 1)..(k - 1) : j \notin added
        BY <2>2, <3>1
      <4> HIDE DEF k, lo
      <4> QED BY <1>1, <2>2, <3>3, <4>1, <4>2, GapStays
    <3> QED BY <2>4, <3>4
  <2> QED BY <1>4, <2>3, <2>4
<1>5. CASE n = Len(cuts)
  <2> DEFINE lo == cuts[n][2]
  <2>1. n # 0 /\ n \in 1..Len(cuts) /\ x = LinesTo(lo) \o RestFrom(lo) /\ lo \in Nat /\ lo <= size
    BY <1>1, <1>5
  <2>2. /\ \A j \in (lo + 1)..(size + 2 - 1) : j \notin gone
        /\ \A j \in (lo + 1)..(size + 2 - 2) : j \notin added
    <3>1. PICK from, to :
            /\ from = IF n = 0 THEN 0 ELSE cuts[n][2]
            /\ to = IF n = Len(cuts) THEN size + 2 ELSE cuts[n + 1][1]
            /\ \A j \in (from + 1)..(to - 1) : j \notin gone
            /\ \A j \in (from + 1)..(to - 2) : j \notin added
      BY BetweenHunks
    <3>2. from = lo /\ to = size + 2 /\ size \in Nat
      BY <1>1, <1>5, <2>1, <3>1
    <3> HIDE DEF lo
    <3>3. \A j \in (lo + 1)..(size + 2 - 1) : j \notin gone
      BY ONLY <3>1, <3>2
    <3>4. \A j \in (lo + 1)..(size + 2 - 2) : j \notin added
      BY ONLY <3>1, <3>2
    <3> QED BY <3>3, <3>4
  <2> HIDE DEF lo
  <2>3. RestFrom(size) = <<>> /\ LinesTo(size) \o <<>> = LinesTo(size)
        /\ Upto(size) \o <<>> = Upto(size)
    <3>1. LinesTo(size) \in Seq(Int) /\ Upto(size) \in Seq(Int) /\ RestFrom(size) = <<>>
      BY <1>1, <1>2, RestNone
    <3> QED BY <3>1
  <2>4. ASSUME lo = size PROVE x = LinesTo(size)
    BY <2>1, <2>3, <2>4
  <2>5. ASSUME lo # size PROVE x = LinesTo(size)
    <3>1. lo < size /\ size \in (lo + 1)..(size + 2 - 2)
      BY <1>1, <2>1, <2>5
    <3>2. LinesTo(size) = Upto(size)
      BY <1>1, <1>2, <2>2, <3>1
    <3>3. /\ \A j \in (lo + 1)..size : j \notin gone
          /\ \A j \in (lo + 1)..(size - 1) : j \notin added
      BY <1>1, <2>1, <2>2
    <3>4. \A m \in Nat : lo < m /\ m <= size /\ (\A j \in (lo + 1)..m : j \notin gone)
                          /\ (\A j \in (lo + 1)..(m - 1) : j \notin added)
            => LinesTo(lo) \o RestFrom(lo) = Upto(m) \o RestFrom(m)
      BY <1>1, <2>1, GapStays
    <3>5. LinesTo(lo) \o RestFrom(lo) = Upto(size) \o RestFrom(size)
      BY <1>1, <3>1, <3>3, <3>4
    <3> QED BY <2>1, <2>3, <3>2, <3>5
  <2>6. x = LinesTo(size)
    BY <2>4, <2>5
  <2> QED BY <1>5, <2>6
<1> QED BY <1>1, <1>4, <1>5

LEMMA PartOf ==
  ASSUME NEW s \in Seq(Int), NEW m \in Nat, NEW n \in Nat, 1 <= m, m <= n + 1, n <= Len(s)
  PROVE  /\ SubSeq(s, m, n) \in Seq(Int)
         /\ Len(SubSeq(s, m, n)) = n - m + 1
         /\ \A i \in 1..(n - m + 1) : SubSeq(s, m, n)[i] = s[m + i - 1]
OBVIOUS

\* A front and what is behind it, cut apart.
LEMMA CutApart ==
  ASSUME NEW x \in Seq(Int), NEW r \in Seq(Int), NEW d \in Nat, d <= Len(r), NEW all, all = x \o r
  PROVE  /\ all \in Seq(Int) /\ Len(all) = Len(x) + Len(r)
         /\ SubSeq(all, 1, Len(x)) = x
         /\ SubSeq(all, Len(x) + d + 1, Len(all)) \in Seq(Int)
         /\ Len(SubSeq(all, Len(x) + d + 1, Len(all))) = Len(r) - d
         /\ \A i \in 1..(Len(r) - d) : SubSeq(all, Len(x) + d + 1, Len(all))[i] = r[d + i]
<1>1. PICK m, n \in Nat : m = Len(x) /\ n = Len(r)
  OBVIOUS
<1>2. /\ all \in Seq(Int) /\ Len(all) = m + n
      /\ \A i \in 1..(m + n) : all[i] = IF i <= m THEN x[i] ELSE r[i - m]
  <2>1. /\ x \o r \in Seq(Int) /\ Len(x \o r) = Len(x) + Len(r)
        /\ \A i \in 1..(Len(x) + Len(r)) : (x \o r)[i] = IF i <= Len(x) THEN x[i] ELSE r[i - Len(x)]
    BY ConcatProperties
  <2> QED BY <1>1, <2>1
<1>4. SubSeq(all, 1, m) = x
  <2>1. \A i \in 1..m : all[i] = x[i]
    BY <1>1, <1>2
  <2>2. /\ SubSeq(all, 1, m) \in Seq(Int)
        /\ Len(SubSeq(all, 1, m)) = m - 1 + 1
        /\ \A i \in 1..(m - 1 + 1) : SubSeq(all, 1, m)[i] = all[1 + i - 1]
    <3>1. 1 \in Nat /\ 1 <= 1 /\ 1 <= m + 1 /\ m <= Len(all)
      BY <1>1, <1>2
    <3> QED BY <1>2, <3>1, PartOf
  <2>3. Len(SubSeq(all, 1, m)) = m /\ m - 1 + 1 = m /\ \A i \in 1..m : 1 + i - 1 = i
    BY <1>1, <2>2
  <2>4. \A i \in 1..m : SubSeq(all, 1, m)[i] = x[i]
    BY <2>1, <2>2, <2>3
  <2> QED BY <1>1, <2>2, <2>3, <2>4
<1>5. PICK from \in Nat : from = m + d + 1
  BY <1>1
<1>6. /\ SubSeq(all, from, m + n) \in Seq(Int)
      /\ Len(SubSeq(all, from, m + n)) = n - d
      /\ \A i \in 1..(n - d) : SubSeq(all, from, m + n)[i] = r[d + i]
  <2>2. /\ SubSeq(all, from, m + n) \in Seq(Int)
        /\ Len(SubSeq(all, from, m + n)) = m + n - from + 1
        /\ \A i \in 1..(m + n - from + 1) : SubSeq(all, from, m + n)[i] = all[from + i - 1]
    <3>1. m + n \in Nat /\ 1 <= from /\ from <= m + n + 1 /\ m + n <= Len(all)
      BY <1>1, <1>2, <1>5
    <3> QED BY <1>2, <3>1, PartOf
  <2>3. m + n - from + 1 = n - d /\ n - d \in Nat
    BY <1>1, <1>5
  <2>4. \A i \in 1..(n - d) : all[from + i - 1] = r[d + i]
    <3> TAKE i \in 1..(n - d)
    <3>1. PICK j \in Nat : j = from + i - 1
      BY <1>5
    <3>2. j \in 1..(m + n) /\ ~ (j <= m) /\ j - m = d + i
      BY <1>1, <1>5, <3>1
    <3>3. all[j] = r[j - m]
      BY <1>2, <3>2
    <3> QED BY <3>1, <3>2, <3>3
  <2>5. Len(SubSeq(all, from, m + n)) = n - d
    BY <1>1, <1>5, <2>2, <2>3
  <2> QED BY <2>2, <2>3, <2>4, <2>5
<1> QED BY <1>1, <1>2, <1>4, <1>5, <1>6

LEMMA SameSeq ==
  ASSUME NEW u \in Seq(Int), NEW v \in Seq(Int), Len(u) = Len(v), \A i \in 1..Len(u) : u[i] = v[i]
  PROVE  u = v
OBVIOUS

\* A front and the lines behind it, cut apart.
LEMMA CutOut ==
  ASSUME size \in Nat, NEW x \in Seq(Int), NEW k \in Nat, NEW b \in Nat, k <= b, b <= size
  PROVE  \E all \in Seq(Int) :
           /\ all = x \o RestFrom(k) /\ Len(all) = Len(x) + (size - k)
           /\ SubSeq(all, 1, Len(x)) = x
           /\ SubSeq(all, Len(x) + (b - k) + 1, Len(all)) = RestFrom(b)
<1> DEFINE all == x \o RestFrom(k)
<1> HIDE DEF all
<1>1. /\ RestFrom(k) \in Seq(Int) /\ Len(RestFrom(k)) = size - k
      /\ \A i \in 1..(size - k) : RestFrom(k)[i] = k + i
      /\ RestFrom(b) \in Seq(Int) /\ Len(RestFrom(b)) = size - b
      /\ \A i \in 1..(size - b) : RestFrom(b)[i] = b + i
  <2>1. k <= size
    OBVIOUS
  <2> QED BY <2>1, RestTypes
<1>2. PICK d \in Nat : d = b - k
  OBVIOUS
<1>3. PICK t : t = SubSeq(all, Len(x) + d + 1, Len(all))
  OBVIOUS
<1>4. d <= Len(RestFrom(k)) /\ Len(RestFrom(k)) - d = size - b
  BY <1>1, <1>2
<1>5. /\ all \in Seq(Int) /\ Len(all) = Len(x) + (size - k) /\ SubSeq(all, 1, Len(x)) = x
      /\ t \in Seq(Int) /\ Len(t) = size - b
      /\ \A i \in 1..(size - b) : t[i] = RestFrom(k)[d + i]
  <2>1. PICK r \in Seq(Int) : r = RestFrom(k)
    BY <1>1
  <2>2. d <= Len(r) /\ all = x \o r
    BY <1>4, <2>1 DEF all
  <2>3. /\ all \in Seq(Int) /\ Len(all) = Len(x) + Len(r)
        /\ SubSeq(all, 1, Len(x)) = x
        /\ SubSeq(all, Len(x) + d + 1, Len(all)) \in Seq(Int)
        /\ Len(SubSeq(all, Len(x) + d + 1, Len(all))) = Len(r) - d
        /\ \A i \in 1..(Len(r) - d) : SubSeq(all, Len(x) + d + 1, Len(all))[i] = r[d + i]
    BY <2>2, CutApart
  <2> QED BY <1>1, <1>3, <1>4, <2>1, <2>3
<1>6. \A i \in 1..(size - b) : t[i] = RestFrom(b)[i]
  <2> TAKE i \in 1..(size - b)
  <2>1. d + i \in 1..(size - k) /\ k + (d + i) = b + i
    BY <1>2
  <2> QED BY <1>1, <1>5, <2>1
<1>7. t = RestFrom(b)
  BY <1>1, <1>5, <1>6, SameSeq
<1>8. all = x \o RestFrom(k)
  BY DEF all
<1> QED BY <1>2, <1>3, <1>5, <1>7, <1>8

\* What parse_hunks makes of a hunk that names old lines and has no mark.
LEMMA HunkIs ==
  ASSUME NEW a \in Nat, a # 0, NEW b \in Nat, a <= b, NEW marked, ~ marked, plus = {}
  PROVE  LET h == Diff!HunkOf(a, b, gone, added, marked)
         IN  h.start = a /\ h.old = b - a + 1 /\ h.new = Len(TextsTo(a, b)) /\ Diff!NewLines(h) = TextsTo(a, b)
<1> DEFINE h == Diff!HunkOf(a, b, gone, added, marked)
           body == BodyTo(a, b)
<1>1. body \in Seq(BodyLine)
  BY HunkTexts
<1>2. ~ (b < a)
  OBVIOUS
<1>3. h.start = a /\ h.old = b - a + 1 /\ h.new = Len(TextsTo(a, b))
  BY <1>2 DEF Diff!HunkOf, TextsTo, BodyTo
<1>4. h.body = body /\ h.mark = marked
  BY DEF Diff!HunkOf, BodyTo
<1>5. TextsTo(a, b) \in Seq(Int)
  BY HunkTexts
<1>6. TextsTo(a, b) \o <<>> = TextsTo(a, b)
  BY ONLY <1>5
<1>7. Diff!NewLines(h) = TextsTo(a, b) \o <<>>
  <2> HIDE DEF h
  <2> QED BY <1>4 DEF Diff!NewLines, TextsTo, Diff!If
<1>8. Diff!NewLines(h) = TextsTo(a, b)
  <2> HIDE DEF h
  <2> QED BY <1>6, <1>7
<1> QED BY <1>3, <1>8

LEMMA LeastIsFirst ==
  ASSUME NEW p \in Int, NEW q \in Int, p <= q
  PROVE  Diff!Least(p, q) = p
BY DEF Diff!Least

LEMMA JoinTypes ==
  ASSUME NEW u \in Seq(Int), NEW v \in Seq(Int)
  PROVE  u \o v \in Seq(Int) /\ Len(u \o v) = Len(u) + Len(v)
OBVIOUS

\* Lines to remove that begin where the offset says, and others in their place.
LEMMA Landing ==
  ASSUME size \in Nat, NEW x \in Seq(Int), NEW t \in Seq(Int), NEW k \in Nat, NEW b \in Nat, k <= b, b <= size,
         lines = x \o RestFrom(k), x \o t = LinesTo(b), offset = Len(lines) - size
  PROVE  \E start, end, more :
           /\ start = k + offset /\ end = Diff!Least(start + (b - k), Len(lines))
           /\ more = SubSeq(lines, 1, start) \o t \o SubSeq(lines, end + 1, Len(lines))
           /\ ~ (start < 0 \/ start > end)
           /\ more \in Seq(Int) /\ more = LinesTo(b) \o RestFrom(b)
           /\ offset + Len(t) - (b - k) = Len(more) - size
<1>1. /\ Len(lines) = Len(x) + (size - k) /\ Len(x) \in Nat
      /\ SubSeq(lines, 1, Len(x)) = x
      /\ SubSeq(lines, Len(x) + (b - k) + 1, Len(lines)) = RestFrom(b)
  <2>1. PICK all \in Seq(Int) :
           /\ all = x \o RestFrom(k) /\ Len(all) = Len(x) + (size - k)
           /\ SubSeq(all, 1, Len(x)) = x
           /\ SubSeq(all, Len(x) + (b - k) + 1, Len(all)) = RestFrom(b)
    BY CutOut
  <2>2. all = lines
    BY <2>1
  <2> QED BY <2>1, <2>2
<1>2. PICK m, n, l \in Nat : m = Len(x) /\ n = Len(t) /\ l = Len(lines)
  <2>1. Len(x) \in Nat /\ Len(t) \in Nat /\ Len(x) + (size - k) \in Nat
    OBVIOUS
  <2> QED BY <1>1, <2>1
<1>3. l = m + (size - k) /\ k + offset = m
  BY <1>1, <1>2
<1>4. Diff!Least(m + (b - k), l) = m + (b - k) /\ ~ (m < 0 \/ m > m + (b - k))
  <2>1. m + (b - k) \in Int /\ m + (b - k) <= l /\ ~ (m < 0 \/ m > m + (b - k))
    BY <1>2, <1>3
  <2>2. PICK p \in Int : p = m + (b - k)
    BY <2>1
  <2>3. Diff!Least(p, l) = p
    BY <1>2, <2>1, <2>2, LeastIsFirst
  <2> QED BY <2>1, <2>2, <2>3
<1>5. PICK r \in Seq(Int) : r = RestFrom(b) /\ Len(r) = size - b
  BY RestTypes
<1>6. PICK w \in Seq(Int) : w = x \o t /\ Len(w) = m + n
  <2>1. x \o t \in Seq(Int) /\ Len(x \o t) = Len(x) + Len(t)
    BY JoinTypes
  <2> QED BY <1>2, <2>1
<1>7. w \o r \in Seq(Int) /\ Len(w \o r) = m + n + (size - b)
  <2>1. w \o r \in Seq(Int) /\ Len(w \o r) = Len(w) + Len(r)
    OBVIOUS
  <2> QED BY <1>5, <1>6, <2>1
<1>8. SubSeq(lines, 1, m) \o t \o SubSeq(lines, m + (b - k) + 1, l) = w \o r
  BY <1>1, <1>2, <1>5, <1>6
<1>9. offset + n - (b - k) = Len(w \o r) - size
  BY <1>2, <1>3, <1>7
<1>10. w \o r = LinesTo(b) \o RestFrom(b)
  BY ONLY <1>5, <1>6, x \o t = LinesTo(b)
<1> QED BY <1>2, <1>3, <1>4, <1>7, <1>8, <1>9, <1>10

\* One hunk more: it lands where its lines are.
LEMMA HunkLands ==
  ASSUME DiffTypes, NEW cuts, IsCut(cuts), Applied(cuts), Diff!ApplyHunk
  PROVE  /\ verdict' = verdict /\ applied' = applied + 1 /\ applied + 1 <= Len(cuts)
         /\ lines' \in Seq(Int) /\ offset' = Len(lines') - size
         /\ lines' = LinesTo(cuts[applied + 1][2]) \o RestFrom(cuts[applied + 1][2])
<1>a. PICK n, a, b, k :
        n = applied + 1 /\ a = cuts[n][1] /\ b = cuts[n][2] /\ k = a - 1
  OBVIOUS
<1>b. PICK marked, h : marked = (noEnd /\ n = Len(cuts) /\ b = size) /\ h = hunks[n]
  OBVIOUS
<1>1. hunks = Diff!HunksOf(cuts) /\ plus = {} /\ (\A i \in DOMAIN hunks : ~ hunks[i].mark) /\ offset = Len(lines) - size
      /\ lines \in Seq(Int) /\ (n - 1 < Len(cuts) => lines = Upto(k) \o RestFrom(k))
      /\ size \in Nat /\ applied \in Nat
  BY <1>a DEF Applied, DiffTypes
<1>2. Len(cuts) \in Nat /\ DOMAIN cuts = 1..Len(cuts) /\ Len(hunks) = Len(cuts)
  <2>1. Len(cuts) \in Nat /\ DOMAIN cuts = 1..Len(cuts)
    BY <1>1, CutTypes
  <2> QED BY <1>1, <2>1 DEF Diff!HunksOf
<1>3. n \in 1..Len(cuts) /\ applied < Len(cuts)
  BY <1>1, <1>2, <1>a DEF Diff!ApplyHunk
<1>4. a \in Nat /\ b \in Nat /\ a # 0 /\ a <= b /\ b <= size
  BY <1>1, <1>3, <1>a, CutTypes
<1>5. k \in Nat /\ k <= b /\ b - k = b - a + 1
  BY ONLY <1>4, <1>a
<1>6. h = Diff!HunkOf(a, b, gone, added, marked) /\ ~ marked
  <2>1. h = Diff!HunkOf(a, b, gone, added, marked)
    BY <1>1, <1>2, <1>3, <1>a, <1>b, Zenon DEF Diff!HunksOf
  <2>2. h.mark = marked
    BY <2>1 DEF Diff!HunkOf
  <2>3. n \in DOMAIN hunks
    BY <1>1, <1>2, <1>3 DEF Diff!HunksOf
  <2>4. ~ h.mark
    BY <1>1, <1>b, <2>3
  <2> QED BY ONLY <2>1, <2>2, <2>4, Zenon
<1>7. h.start = a /\ h.old = b - a + 1 /\ h.new = Len(TextsTo(a, b))
      /\ Diff!NewLines(h) = TextsTo(a, b)
  BY <1>1, <1>4, <1>6, HunkIs
<1>8. PICK x, t \in Seq(Int) : x = Upto(k) /\ t = TextsTo(a, b) /\ x \o t = LinesTo(b)
  <2>1. Upto(k) \in Seq(Int)
    BY <1>5, LinesToUpto
  <2>2. b + 1 >= a
    BY <1>4
  <2>3. TextsTo(a, b) \in Seq(Int) /\ Upto(a - 1) \o TextsTo(a, b) = LinesTo(b)
    BY <1>4, <2>2, HunkTexts
  <2> QED BY <1>a, <2>1, <2>3
<1>9. lines = x \o RestFrom(k)
  BY <1>1, <1>3, <1>8
<1>10. PICK start, end, more :
         /\ start = k + offset /\ end = Diff!Least(start + (b - k), Len(lines))
         /\ more = SubSeq(lines, 1, start) \o t \o SubSeq(lines, end + 1, Len(lines))
         /\ ~ (start < 0 \/ start > end)
         /\ more \in Seq(Int) /\ more = LinesTo(b) \o RestFrom(b)
         /\ offset + Len(t) - (b - k) = Len(more) - size
  <2>1. /\ size \in Nat /\ x \in Seq(Int) /\ t \in Seq(Int) /\ k \in Nat /\ b \in Nat /\ k <= b /\ b <= size
        /\ lines = x \o RestFrom(k) /\ x \o t = LinesTo(b) /\ offset = Len(lines) - size
    BY <1>1, <1>4, <1>5, <1>8, <1>9
  <2> QED BY ONLY <2>1, Landing, Zenon
<1>11. start = h.start - 1 + offset /\ b - k = h.old /\ t = Diff!NewLines(h) /\ h.new = Len(t)
  <2>1. start = k + offset
    BY <1>10
  <2> QED BY <1>1, <1>4, <1>5, <1>7, <1>8, <2>1, <1>a
<1>12. /\ lines' = more
       /\ offset' = offset + h.new - h.old /\ applied' = applied + 1 /\ verdict' = verdict
  BY <1>10, <1>11, <1>a, <1>b, Zenon DEF Diff!ApplyHunk
<1>13. offset' = offset + Len(t) - (b - k)
  BY <1>11, <1>12
<1>14. applied + 1 <= Len(cuts)
  BY <1>1, <1>2, <1>3, <1>a
<1> QED BY <1>10, <1>12, <1>13, <1>14, <1>a, Zenon

\* Hunks that all name old lines come from stretches that do.
LEMMA PlainCut ==
  ASSUME size \in Nat, gone \subseteq 1..size, added \subseteq 0..size, gone \cup added # {},
         NEW cuts \in Diff!Cuts(size, gone, added), hunks = Diff!HunksOf(cuts), Diff!Plain
  PROVE  IsCut(cuts)
<1>1. /\ Diff!Covers(cuts, gone, added)
      /\ cuts \in UNION {[1..m -> Diff!Stretches(size)] : m \in 0..MaxHunks}
  BY DEF Diff!Cuts, Diff!BoundedSeq, Diff!SeqOf
<1>2. cuts \in Seq(Diff!Stretches(size))
  <2>1. PICK m \in 0..MaxHunks : cuts \in [1..m -> Diff!Stretches(size)]
    BY <1>1
  <2>2. m \in Nat
    BY DiffAssumption
  <2> QED BY <2>1, <2>2
<1>3. DOMAIN cuts = 1..Len(cuts) /\ Len(cuts) \in Nat
  BY <1>2
<1>4. Len(cuts) # 0
  <2>1. PICK j : j \in gone \/ j \in added
    OBVIOUS
  <2>2. \E i \in DOMAIN cuts : TRUE
    <3>1. CASE j \in gone
      <4>1. j \in UNION {cuts[i][1]..cuts[i][2] : i \in DOMAIN cuts}
        BY <1>1, <3>1 DEF Diff!Covers
      <4> QED BY <4>1
    <3>2. CASE j \in added
      <4>1. j \in UNION {(cuts[i][1] - 1)..cuts[i][2] : i \in DOMAIN cuts}
        BY <1>1, <3>2 DEF Diff!Covers
      <4> QED BY <4>1
    <3> QED BY <2>1, <3>1, <3>2
  <2> QED BY <1>3, <2>2
<1>5. \A i \in 1..Len(cuts) : cuts[i][1] <= cuts[i][2]
  <2> TAKE i \in 1..Len(cuts)
  <2>1. cuts[i] \in (1..(size + 1)) \X (0..size)
    BY <1>2 DEF Diff!Stretches
  <2>2. cuts[i][1] \in Nat /\ cuts[i][2] \in Nat
    BY ONLY size \in Nat, <2>1
  <2>3. hunks[i].old = cuts[i][2] - cuts[i][1] + 1
    BY <1>3, Zenon DEF Diff!HunksOf, Diff!HunkOf
  <2>4. i \in DOMAIN hunks
    BY <1>3 DEF Diff!HunksOf
  <2>5. hunks[i].old > 0
    BY <2>4 DEF Diff!Plain
  <2> QED BY <2>2, <2>3, <2>5
<1> QED BY <1>1, <1>2, <1>4, <1>5 DEF IsCut

LEMMA DiffInitial == Diff!Init => DiffInv
<1> SUFFICES ASSUME Diff!Init PROVE DiffInv
  OBVIOUS
<1>1. DiffTypes
  BY DiffAssumption DEF Diff!Init, DiffTypes
<1>2. ASSUME Diff!Plain PROVE \E cuts : IsCut(cuts) /\ Applied(cuts)
  <2>1. PICK cuts \in Diff!Cuts(size, gone, added) : hunks = Diff!HunksOf(cuts)
    BY DEF Diff!Init
  <2>2. IsCut(cuts)
    BY <1>1, <1>2, <2>1, PlainCut DEF Diff!Init, DiffTypes
  <2>3. size \in Nat /\ Len(cuts) \in Nat /\ Len(cuts) # 0 /\ applied = 0 /\ offset = 0 /\ verdict = "running"
    BY <1>1, <2>2, CutTypes DEF Diff!Init, DiffTypes, IsCut
  <2>4. lines = RestFrom(0)
    <3>1. size - 0 = size /\ \A i \in 1..size : 0 + i = i
      BY <2>3
    <3>2. lines = [i \in 1..size |-> i]
      BY <2>3, TextHasLines DEF Diff!Init
    <3> QED BY <3>1, <3>2 DEF RestFrom
  <2>5. lines \in Seq(Int) /\ Len(lines) = size
    <3>1. 0 \in Nat /\ 0 <= size
      BY <2>3
    <3>2. RestFrom(0) \in Seq(Int) /\ Len(RestFrom(0)) = size - 0
      BY <2>3, <3>1, RestTypes
    <3> QED BY <2>3, <2>4, <3>2
  <2>6. lines = Upto(cuts[applied + 1][1] - 1) \o RestFrom(cuts[applied + 1][1] - 1)
    <3>1. 0 \in 0..Len(cuts) /\ 0 < Len(cuts)
      BY <2>3
    <3>2. lines = Upto(cuts[0 + 1][1] - 1) \o RestFrom(cuts[0 + 1][1] - 1)
      BY <1>1, <2>2, <2>4, <3>1, NextHunk
    <3> QED BY <2>3, <3>2
  <2>7. Applied(cuts)
    <3>1. hunks = Diff!HunksOf(cuts) /\ plus = {} /\ \A i \in DOMAIN hunks : ~ hunks[i].mark
      BY <1>2, <2>1 DEF Diff!Plain
    <3>2. /\ applied < Len(cuts) /\ applied # Len(cuts) /\ applied <= Len(cuts)
          /\ verdict # "panic" /\ verdict # "done" /\ offset = Len(lines) - size
      BY <2>3, <2>5
    <3> QED BY <2>5, <2>6, <3>1, <3>2, Zenon DEF Applied
  <2> QED BY <2>2, <2>7
<1>3. verdict # "done"
  BY DEF Diff!Init
<1> QED BY <1>1, <1>2, <1>3 DEF DiffInv

\* None of this moves with the file.
LEMMA ChangeStays ==
  ASSUME UNCHANGED Diff!input
  PROVE  /\ \A cuts : IsCut(cuts)' <=> IsCut(cuts)
         /\ \A cuts : Diff!HunksOf(cuts)' = Diff!HunksOf(cuts)
         /\ \A k : LinesTo(k)' = LinesTo(k) /\ Upto(k)' = Upto(k) /\ RestFrom(k)' = RestFrom(k)
         /\ UNCHANGED <<size, gone, added, plus, crlf, noEnd, hunks>>
         /\ Diff!Plain' <=> Diff!Plain
         /\ LinesTo(size)' = LinesTo(size)
BY DEF Diff!input, IsCut, Diff!HunksOf, LinesTo, LineOut, Upto, RestFrom, Diff!Plain

LEMMA DiffStep == DiffInv /\ [Diff!Next]_(Diff!vars) => DiffInv'
<1> SUFFICES ASSUME DiffInv, [Diff!Next]_(Diff!vars) PROVE DiffInv'
  OBVIOUS
<1>1. CASE Diff!ApplyHunk
  <2>1. UNCHANGED Diff!input
    BY <1>1 DEF Diff!ApplyHunk
  <2>2. DiffTypes'
    BY <1>1, <2>1 DEF DiffInv, DiffTypes, Diff!ApplyHunk, Diff!input
  <2>3. ASSUME Diff!Plain PROVE \E cuts : IsCut(cuts)' /\ Applied(cuts)'
    <3>1. PICK cuts : IsCut(cuts) /\ Applied(cuts)
      BY <2>3 DEF DiffInv
    <3>2. PICK n : n = applied + 1
      OBVIOUS
    <3>3. /\ verdict' = verdict /\ applied' = n /\ n <= Len(cuts)
          /\ lines' \in Seq(Int) /\ offset' = Len(lines') - size
          /\ lines' = LinesTo(cuts[n][2]) \o RestFrom(cuts[n][2])
      BY <1>1, <3>1, <3>2, HunkLands DEF DiffInv
    <3>4. Len(cuts) \in Nat /\ n \in Nat /\ n # 0 /\ n \in 0..Len(cuts)
      <4>1. size \in Nat /\ applied \in Nat
        BY DEF DiffInv, DiffTypes
      <4>2. Len(cuts) \in Nat
        BY <3>1, <4>1, CutTypes
      <4> QED BY ONLY <3>2, <3>3, <4>1, <4>2
    <3>5. PICK x : x = LinesTo(cuts[n][2]) \o RestFrom(cuts[n][2])
      OBVIOUS
    <3>6. /\ n < Len(cuts) => x = Upto(cuts[n + 1][1] - 1) \o RestFrom(cuts[n + 1][1] - 1)
          /\ n = Len(cuts) => x = LinesTo(size)
      <4>1. /\ DiffTypes /\ IsCut(cuts) /\ n \in 0..Len(cuts)
            /\ (n = 0 => x = RestFrom(0)) /\ (n # 0 => x = LinesTo(cuts[n][2]) \o RestFrom(cuts[n][2]))
        BY <3>1, <3>4, <3>5 DEF DiffInv
      <4> QED BY ONLY <4>1, NextHunk, Zenon
    <3>7. /\ hunks' = Diff!HunksOf(cuts)' /\ plus' = {} /\ IsCut(cuts)' /\ size' = size
          /\ \A i \in DOMAIN hunks' : ~ hunks'[i].mark
      <4>1. hunks' = hunks /\ \A i \in DOMAIN hunks : ~ hunks[i].mark
        BY <2>1, <3>1 DEF Applied, Diff!input
      <4>2. hunks' = Diff!HunksOf(cuts)' /\ plus' = {} /\ IsCut(cuts)' /\ size' = size
        BY <2>1, <3>1, ChangeStays DEF Applied
      <4> QED BY ONLY <4>1, <4>2
    <3>8. verdict' = "running"
      BY <1>1, <3>3 DEF Diff!ApplyHunk
    <3>9. lines' = x
      BY <3>3, <3>5
    <3>10. ASSUME NEW k, n < Len(cuts), k = cuts[n + 1][1] - 1 PROVE lines' = Upto(k)' \o RestFrom(k)'
      <4>1. lines' = Upto(k) \o RestFrom(k)
        BY <3>6, <3>9, <3>10
      <4> QED BY <2>1, <4>1, ChangeStays
    <3>11. n = Len(cuts) => lines' = LinesTo(size)'
      BY <2>1, <3>6, <3>9, ChangeStays
    <3> QED BY <3>3, <3>7, <3>8, <3>10, <3>11 DEF Applied
  <2>4. verdict' # "done"
    BY <1>1 DEF Diff!ApplyHunk
  <2> QED BY <2>1, <2>2, <2>3, <2>4, ChangeStays DEF DiffInv
<1>2. CASE Diff!Write
  <2>1. UNCHANGED <<Diff!input, applied, lines, offset>> /\ verdict = "running" /\ verdict' = "done"
        /\ applied = Len(hunks)
    BY <1>2 DEF Diff!Write
  <2>2. DiffTypes'
    BY <2>1 DEF DiffInv, DiffTypes, Diff!input
  <2>3. ASSUME Diff!Plain PROVE \E cuts : IsCut(cuts)' /\ Applied(cuts)'
    <3>1. PICK cuts : IsCut(cuts) /\ Applied(cuts)
      BY <2>3 DEF DiffInv
    <3>2. Len(hunks) = Len(cuts)
      <4>1. size \in Nat
        BY DEF DiffInv, DiffTypes
      <4>2. Len(cuts) \in Nat /\ DOMAIN cuts = 1..Len(cuts)
        BY <3>1, <4>1, CutTypes
      <4> QED BY <3>1, <4>2 DEF Applied, Diff!HunksOf
    <3> QED BY <2>1, <3>1, <3>2, ChangeStays DEF Applied
  <2>4. onDisk' = Diff!TextOf(lines', "LF", "")
    BY <1>2, <2>1 DEF Diff!Write
  <2>5. onDisk' = Diff!TextOf(lines, "LF", "")'
    BY <2>4 DEF Diff!TextOf
  <2> QED BY <2>1, <2>2, <2>3, <2>5, ChangeStays DEF DiffInv
<1>3. CASE UNCHANGED Diff!vars
  <2>1. UNCHANGED <<Diff!input, onDisk, applied, lines, offset, verdict>>
    BY <1>3 DEF Diff!vars
  <2>2. DiffTypes'
    BY <2>1 DEF DiffInv, DiffTypes, Diff!input
  <2>3. ASSUME Diff!Plain PROVE \E cuts : IsCut(cuts)' /\ Applied(cuts)'
    <3>1. PICK cuts : IsCut(cuts) /\ Applied(cuts)
      BY <2>3 DEF DiffInv
    <3>2. \A k : lines = Upto(k) \o RestFrom(k) => lines' = Upto(k)' \o RestFrom(k)'
      BY <2>1, ChangeStays
    <3>3. lines = LinesTo(size) => lines' = LinesTo(size)'
      BY <2>1, ChangeStays
    <3>4. /\ IsCut(cuts)' /\ hunks' = Diff!HunksOf(cuts)' /\ plus' = {} /\ size' = size
          /\ \A i \in DOMAIN hunks' : ~ hunks'[i].mark
      <4>1. hunks' = hunks /\ \A i \in DOMAIN hunks : ~ hunks[i].mark
        BY <2>1, <3>1 DEF Applied, Diff!input
      <4>2. IsCut(cuts)' /\ hunks' = Diff!HunksOf(cuts)' /\ plus' = {} /\ size' = size
        BY <2>1, <3>1, ChangeStays DEF Applied
      <4> QED BY ONLY <4>1, <4>2
    <3> QED BY <2>1, <3>1, <3>2, <3>3, <3>4 DEF Applied
  <2>4. verdict' = "done" => onDisk' = Diff!TextOf(lines, "LF", "")'
    BY <2>1 DEF DiffInv, Diff!TextOf
  <2> QED BY <2>1, <2>2, <2>3, <2>4, ChangeStays DEF DiffInv
<1> QED BY <1>1, <1>2, <1>3 DEF Diff!Next

\* However a change is cut into hunks, apply_unified_diff leaves the lines that
\* the diff says, when the diff is plain: the offset it carries along brings
\* each hunk to where its lines are then, and no hunk is out of range.  The text
\* it writes is that of a file with LFs and without a newline at the end, so it
\* is all that the diff says for such files and for no others.
THEOREM PlainDiffsTurnOut == Diff!Spec => []PlainDiffsAreApplied
<1>1. DiffInv => PlainDiffsAreApplied
  <2> SUFFICES ASSUME DiffInv, Diff!Plain
               PROVE  /\ verdict # "panic"
                      /\ verdict = "done" => /\ Diff!LinesOf(onDisk) = Diff!Changed
                                             /\ noEnd /\ ~ crlf => onDisk = Diff!Promised
    BY DEF PlainDiffsAreApplied, Diff!PlainDiffsAreApplied
  <2>1. PICK cuts : IsCut(cuts) /\ Applied(cuts)
    BY DEF DiffInv
  <2>2. verdict # "panic"
    BY <2>1 DEF Applied
  <2>3. ASSUME verdict = "done" PROVE Diff!LinesOf(onDisk) = Diff!Changed /\ (noEnd /\ ~ crlf => onDisk = Diff!Promised)
    <3>1. lines = Diff!Changed /\ lines \in Seq(Int)
      BY <2>1, <2>3, ChangedIsLinesTo DEF Applied
    <3>2. Len(lines) \in Nat /\ DOMAIN lines = 1..Len(lines) /\ lines = [k \in DOMAIN lines |-> lines[k]]
      BY <3>1
    <3>3. onDisk = Diff!TextOf(lines, "LF", "")
      BY <2>3 DEF DiffInv
    <3>4. Diff!LinesOf(onDisk) = lines
      BY <3>2, <3>3, TextHasLines
    <3>5. noEnd /\ ~ crlf => Diff!Newline = "LF" /\ Diff!LastNewline = ""
      BY DEF Diff!Newline, Diff!LastNewline
    <3> QED BY <3>1, <3>3, <3>4, <3>5 DEF Diff!Promised
  <2> QED BY <2>2, <2>3
<1> QED BY <1>1, DiffInitial, DiffStep, PTL DEF Diff!Spec
=============================================================================
