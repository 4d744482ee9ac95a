-------------------------- MODULE MessagePipeline --------------------------
(***************************************************************************)
(* What becomes of a conversation on its way to the provider.  A turn      *)
(* loads the session's rows (memory/conversation.rs), the messages are cut *)
(* to the context window (agent/context_guard.rs), calls and results are   *)
(* paired (agent/tool_call_sanitizer.rs), and the request is written in    *)
(* the provider's format (agent/llm.rs).  The next turn may use a model of *)
(* another provider.  A turn may end, be cancelled or die with the app in  *)
(* the middle of its tools.                                                *)
(*                                                                         *)
(* A message keeps its role, its calls and which call its text is the      *)
(* result of.  How many tokens it has is not modelled: wherever the code   *)
(* counts them, any amount may be over the limit.  Call ids have no        *)
(* characters that the sanitizers would remove.                            *)
(***************************************************************************)
EXTENDS Integers, FiniteSets, SequencesExt

CONSTANTS
  Models,        \* the models in use, of the kinds below
  FreshIds,      \* every call has an id of its own (not so in Gemini's format)
  HistoryTurns,  \* MAX_HISTORY_TURNS (10 in the code)
  RecentTurns,   \* min_recent_turns (3)
  HeadKept, TailKept,  \* messages a summary leaves (protect_first 3, protect_last 4)
  KeepTail,      \* rows a compaction keeps (10)
  MaxTurns,      \* bound: turns
  MaxRequests,   \* bound: requests of one turn
  MaxCalls,      \* bound: calls in one reply
  MaxAsked       \* bound: calls in the session

\* Of OpenAI or of Anthropic; qwen gets its results as XML text (is_xml_model),
\* and of kimi (moonshot, deepseek) the turns are ordered as for Anthropic.
AllModels == {"gpt", "claude", "qwen", "kimi"}

VARIABLES
  pc,       \* "idle", or what the turn does next: "send", "reply", "tools"
  model,    \* the model of the current or last turn
  rows,     \* the session's rows in chat_messages, as they are loaded
  boundary, \* compact_boundary: rows up to there are only in the summary
  messages, \* the turn's messages
  request,  \* the last request, in the provider's format
  left,     \* the calls of the reply that are still to be executed
  turns, requests, asked   \* how many there have been

vars == <<pc, model, rows, boundary, messages, request, left, turns, requests,
          asked>>

Anthropic == model = "claude"
Strict    == model \in {"claude", "kimi"}   \* is_strict_provider

-----------------------------------------------------------------------------
(* messages                                                                *)

\* A text is the result of a call, by its number, or one of these.
Blank            == 0
Said             == -1
Unavailable      == -2   \* "[error: result unavailable]", of the sanitizer
Compacted        == -3   \* "[compacted]", of the guard
ContextCompacted == -4   \* "[context compacted]", of the guard
NotProvided      == -5   \* "No result provided", of the Anthropic format
Hint             == -6   \* the loop's own, marked _internal

NoId == <<>>

\* The provider's id of a call, or one made of the time and the call's place.
Id(call, place) == IF FreshIds THEN <<call>> ELSE <<place>>

\* calls: tool_calls.  blocks: content as an array, a text being apart.
Says(role, text) ==
  [role |-> role, text |-> text, calls |-> <<>>, blocks |-> <<>>, answers |-> NoId]
ToolResult(id, text) == [Says("tool", text) EXCEPT !.answers = id]
Block(kind, id, text) == [kind |-> kind, id |-> id, text |-> text]

Has(seq, P(_)) == \E i \in DOMAIN seq : P(seq[i])
Tools(ms)  == {i \in DOMAIN ms : ms[i].role = "tool"}
Users(ms)  == {i \in DOMAIN ms : ms[i].role = "user"}
Flat(ms, Part(_)) == FlattenSeq([i \in DOMAIN ms |-> Part(i)])
Keep(ms, places) == Flat(ms, LAMBDA i : IF i \in places THEN <<ms[i]>> ELSE <<>>)
Drop(ms, places) == Keep(ms, DOMAIN ms \ places)

\* The message whose results end at i, 0 if there is none.
AskedBy(ms, i) ==
  IF i < Len(ms) /\ ms[i + 1].role = "tool" THEN 0
  ELSE Max({0} \cup {a \in 1..i : ms[a].role # "tool"})

\* append_assistant_message, and the row saved for it.
AssistantCalls(text, calls) ==
  IF Anthropic
  THEN [Says("assistant", text) EXCEPT
          !.blocks = [k \in DOMAIN calls |-> Block("use", calls[k].id, calls[k].call)]]
  ELSE [Says("assistant", text) EXCEPT !.calls = calls]

AssistantRow(text, calls) == [Says("assistant", text) EXCEPT !.calls = calls]

\* format_tool_result of the two dispatchers.
Result(c) ==
  IF Anthropic
  THEN [Says("user", Blank) EXCEPT !.blocks = <<Block("result", c.id, c.call)>>]
  ELSE IF model = "qwen" THEN Says("user", c.call)
  ELSE ToolResult(c.id, c.call)

\* save_chat_message and the load of the row: of an array only the text is
\* saved, so a result in Anthropic's format comes back without its content.
Stored(m) ==
  [m EXCEPT !.blocks = [k \in DOMAIN m.blocks |-> [m.blocks[k] EXCEPT !.text = Blank]]]

-----------------------------------------------------------------------------
(* context_guard.rs                                                        *)

\* rebuild_info: the last assistant message that makes the call, 0 if none.
Owner(ms, id) == SelectLastInSeq(ms, LAMBDA m : Has(m.calls, LAMBDA c : c.id = id))

\* find_insert_pos: after the results that follow the assistant.
EndOfResults(ms, a) ==
  Min({i \in a..Len(ms) : i = Len(ms) \/ ms[i + 1].role # "tool"})

InsertAfterResults(ms, a, m) == InsertAt(ms, EndOfResults(ms, a) + 1, m)

Adjacent(ms, i, a) == a < i /\ \A j \in a + 1 .. i - 1 : ms[j].role = "tool"

\* Results elsewhere are moved behind the last assistant that makes the call.
\* The places are those before the first of them is moved.
Relocated(ms) ==
  LET stray == {i \in Tools(ms) : LET a == Owner(ms, ms[i].answers)
                                  IN  a > 0 /\ ~Adjacent(ms, i, a)}
      rest  == Drop(ms, stray)
      moved == Keep(ms, stray)
      put[n \in 0..Len(moved)] ==
        IF n = 0 THEN rest
        ELSE InsertAfterResults(put[n - 1], Owner(rest, moved[n].answers), moved[n])
  IN  put[Len(moved)]

\* The first result of each id, and of those only the ones that were asked for.
WithoutOrphans(ms) ==
  Drop(ms, {i \in Tools(ms) : \/ Owner(ms, ms[i].answers) = 0
                              \/ \E j \in Tools(ms) : j < i /\ ms[j].answers = ms[i].answers})

\* Made-up results behind the others of the last assistant that makes the
\* call; they come in any order, which the sanitizer undoes.
Completed(ms) ==
  LET missing(i) ==
        LET a == AskedBy(ms, i)
            calls == ms[a].calls
        IN  IF a = 0 THEN <<>>
            ELSE Keep(calls, {k \in DOMAIN calls : /\ Owner(ms, calls[k].id) = a
                                                  /\ ~Has(ms, LAMBDA m : m.answers = calls[k].id)})
  IN  Flat(ms, LAMBDA i : LET made == missing(i) IN
        <<ms[i]>> \o [k \in DOMAIN made |-> ToolResult(made[k].id, ContextCompacted)])

\* repair_tool_pairing; the safety net at the end of enforce finds no more.
Repaired(ms) == Completed(WithoutOrphans(Relocated(ms)))

\* find_protected_indices: system messages, and all since the RecentTurns-th
\* user message from the end.
Protected(ms) ==
  LET recent == {i \in Users(ms) : Cardinality({j \in Users(ms) : j >= i}) >= RecentTurns}
  IN  {i \in DOMAIN ms : ms[i].role = "system" \/ recent = {} \/ i >= Max(recent)}

\* build_atomic_groups: an assistant's calls go with the results behind it.
GroupStarts(ms) ==
  LET free == DOMAIN ms \ Protected(ms)
  IN  {i \in free : ~ \E a \in free : a < i /\ ms[a].calls # <<>>
                                      /\ \A j \in a + 1 .. i : j \in free \cap Tools(ms)}

\* Steps 3 and 4 of enforce: the content of old results, oldest first, and if
\* that is not enough the oldest groups.
Shrunk(ms) ==
  LET free == DOMAIN ms \ Protected(ms)
      compacted(to) == [i \in DOMAIN ms |-> IF i \in free \cap Tools(ms) /\ i < to
                                           THEN [ms[i] EXCEPT !.text = Compacted] ELSE ms[i]]
  IN  {compacted(to) : to \in {1} \cup {i + 1 : i \in free \cap Tools(ms)}}
      \cup {Drop(compacted(Len(ms) + 1), {i \in free : i < to}) :
              to \in GroupStarts(ms) \cup {Len(ms) + 1}}

Enforced(ms) == {Repaired(s) : s \in Shrunk(ms)}

\* compress_with_summary: the middle becomes an assistant's summary.
Summarised(ms) ==
  IF Len(ms) <= HeadKept + TailKept + 2 THEN {ms}
  ELSE {ms, Repaired(SubSeq(ms, 1, HeadKept) \o <<Says("assistant", Said)>>
                     \o SubSeq(ms, Len(ms) - TailKept + 1, Len(ms)))}

-----------------------------------------------------------------------------
(* tool_call_sanitizer.rs                                                  *)

\* extract_tool_calls: of either format.
CallsOf(m) ==
  [k \in DOMAIN m.calls |-> m.calls[k].id] \o
  [k \in DOMAIN m.blocks |-> m.blocks[k].id]

MakesCalls(m) == m.role = "assistant" /\ CallsOf(m) # <<>>

\* Mutant: only the results that follow the calls without a gap are used.
ResultNearby(ms, id) ==
  LET i == SelectInSeq(ms, LAMBDA m : m.role = "tool" /\ m.answers = id)
  IN  IF i = 0 \/ ~Adjacent(ms, i, Owner(ms, id)) THEN ToolResult(id, Unavailable)
      ELSE ms[i]

\* The first message of role "tool" that answers the call.
ResultFor(ms, id) ==
  LET i == SelectInSeq(ms, LAMBDA m : m.role = "tool" /\ m.answers = id)
  IN  IF i = 0 THEN ToolResult(id, Unavailable) ELSE ms[i]

\* repair_tool_pairing: every call is followed by its result.
Paired(ms) ==
  Flat(ms, LAMBDA i :
    IF ms[i].role = "tool" THEN <<>>
    ELSE IF ~MakesCalls(ms[i]) THEN <<ms[i]>>
    ELSE <<ms[i]>> \o [k \in DOMAIN CallsOf(ms[i]) |-> ResultFor(ms, CallsOf(ms[i])[k])])

\* dedup_tool_results: over the whole conversation.
Deduplicated(ms) ==
  Drop(ms, {i \in Tools(ms) : \E j \in Tools(ms) : j < i /\ ms[j].answers = ms[i].answers})

\* validate_turn_ordering, for strict providers: begin with a user message,
\* make up results that the deduplication has removed.
Ordered(ms) ==
  LET start == SelectInSeq(ms, LAMBDA m : m.role # "system")
      missing(i) ==    \* at the end of the results of ms[a]
        LET a == AskedBy(ms, i)
            ids == CallsOf(ms[a])
        IN  IF a = 0 \/ ~MakesCalls(ms[a]) \/ i - a >= Len(ids) THEN <<>>
            ELSE Keep(ids, {k \in DOMAIN ids : \A j \in a + 1 .. i : ms[j].answers # ids[k]})
  IN  Flat(ms, LAMBDA i :
        LET made == missing(i) IN
        (IF i = start /\ ms[i].role # "user" THEN <<Says("user", Blank)>> ELSE <<>>)
        \o <<ms[i]>>
        \o [k \in DOMAIN made |-> ToolResult(made[k], Unavailable)])

Sanitized(ms) ==
  LET paired == Deduplicated(Paired(ms)) IN IF Strict THEN Ordered(paired) ELSE paired

-----------------------------------------------------------------------------
(* llm.rs                                                                  *)

Unreadable == {Blank, ContextCompacted}

\* sanitize_messages_for_openai: arrays lose their calls and results, results
\* without a call become user messages, blank messages go.
OpenAi(ms) ==
  LET asked_before(i) ==
        \E a \in 1 .. i - 1 : Has(ms[a].calls, LAMBDA c : c.id = ms[i].answers)
  IN  Flat(ms, LAMBDA i : LET m == ms[i] IN
        IF m.role = "tool"
        THEN IF asked_before(i) THEN <<m>>
             ELSE IF m.text \in Unreadable THEN <<>> ELSE <<Says("user", m.text)>>
        ELSE IF m.calls # <<>> THEN <<m>>
        ELSE IF m.text = Blank THEN <<>> ELSE <<[m EXCEPT !.blocks = <<>>]>>)

\* The first step of sanitize_messages_for_anthropic: the content of a
\* message as blocks.  An assistant without text is skipped, calls or not,
\* unless its content is an array.
TextBlock(text) == IF text = Blank THEN <<>> ELSE <<Block("text", NoId, text)>>

Content(m) ==
  CASE m.role = "system" -> <<>>
    [] m.role = "tool"   -> <<Block("result", m.answers, m.text)>>
    [] m.role = "user"   -> IF m.blocks # <<>> THEN m.blocks
                            ELSE <<Block("text", NoId, m.text)>>
    [] m.role = "assistant" ->
         IF m.text = Blank /\ m.blocks = <<>> THEN <<>>
         ELSE TextBlock(m.text) \o m.blocks \o
              [k \in DOMAIN m.calls |-> Block("use", m.calls[k].id, m.calls[k].call)]

\* deduplicate_tool_results: results without content go.  It looks for
\* duplicates within one message, where there is one result at most.
Filled(content) ==
  Drop(content, {k \in DOMAIN content : content[k].kind = "result" /\ content[k].text \in Unreadable})

Speaker(m) == IF m.role = "assistant" THEN "assistant" ELSE "user"

Blocks(ms) ==
  Flat(ms, LAMBDA i : LET content == Filled(Content(ms[i])) IN
    IF content = <<>> THEN <<>> ELSE <<[role |-> Speaker(ms[i]), content |-> content]>>)

OfKind(m, kind) == {b.id : b \in {m.content[k] : k \in {k \in DOMAIN m.content :
                                                         m.content[k].kind = kind}}}

\* ensure_tool_use_result_pairing: what is not answered before the next
\* assistant message is answered behind the calls.
Answered(ms) ==
  LET until(i) == Min({j \in i + 1 .. Len(ms) + 1 : j = Len(ms) + 1 \/ ms[j].role = "assistant"})
      found(i) == UNION {OfKind(ms[j], "result") : j \in i + 1 .. until(i) - 1}
      missing(i) == Keep(ms[i].content, {k \in DOMAIN ms[i].content :
                           ms[i].content[k].kind = "use" /\ ms[i].content[k].id \notin found(i)})
      made(i) == [k \in DOMAIN missing(i) |-> Block("result", missing(i)[k].id, NotProvided)]
  IN  Flat(ms, LAMBDA i :
        IF ms[i].role = "assistant" /\ missing(i) # <<>>
        THEN <<ms[i], [role |-> "user", content |-> made(i)]>> ELSE <<ms[i]>>)

\* merge_consecutive_roles
Merged(ms) ==
  LET merged[n \in 0..Len(ms)] ==
        IF n = 0 THEN <<>>
        ELSE LET acc == merged[n - 1] IN
             IF acc # <<>> /\ Last(acc).role = ms[n].role
             THEN [acc EXCEPT ![Len(acc)].content = @ \o ms[n].content]
             ELSE Append(acc, ms[n])
  IN  merged[Len(ms)]

ForAnthropic(ms) ==
  LET merged == Merged(Answered(Blocks(ms))) IN
  IF merged # <<>> /\ Head(merged).role # "user"
  THEN <<[role |-> "user", content |-> <<Block("text", NoId, Said)>>]>> \o merged
  ELSE merged

-----------------------------------------------------------------------------
Init ==
  /\ pc = "idle" /\ model \in Models
  /\ rows = <<>> /\ boundary = 0
  /\ messages = <<>> /\ request = [api |-> "none", messages |-> <<>>]
  /\ left = <<>>
  /\ turns = 0 /\ requests = 0 /\ asked = 0

Goto(from, to) == pc = from /\ pc' = to

\* load_chat_messages_by_turns: from the row of the HistoryTurns-th latest
\* message of the user; results in Anthropic's format are not his.
Recent ==
  LET his   == {i \in Users(rows) : rows[i].blocks = <<>>}
      since == {i \in his : Cardinality({j \in his : j >= i}) = HistoryTurns}
  IN  SubSeq(rows, Max({1} \cup since), Len(rows))

\* The summary stands for the rows up to the boundary.
History ==
  IF boundary = 0 THEN Recent
  ELSE <<Says("assistant", Said)>> \o SubSeq(rows, boundary + 1, Len(rows))

\* The system prompt is a message only for OpenAI; after three user messages
\* comes a reminder.  The user's row is saved once the history is loaded.
BeginTurn(m) ==
  /\ Goto("idle", "send") /\ turns < MaxTurns
  /\ LET prompt   == IF m = "claude" THEN <<>> ELSE <<Says("system", Said)>>
         reminder == IF Cardinality(Users(History)) < 3 THEN <<>>
                     ELSE <<Says(IF m = "claude" THEN "user" ELSE "system", Said)>>
     IN  messages' = prompt \o History \o reminder \o <<Says("user", Said)>>
  /\ model' = m
  /\ rows' = Append(rows, Says("user", Said))
  /\ turns' = turns + 1 /\ requests' = 0
  /\ UNCHANGED <<boundary, request, left, asked>>

\* What is sent in the first round, and in the later ones.
\* The orchestrator prepares the first request of a turn, the loop the others.
Opened == Enforced(Sanitized(messages))

Prepared ==
  IF requests = 0 THEN Opened
  ELSE UNION {Enforced(ms) : ms \in Summarised(messages)}

Send ==
  /\ Goto("send", "reply") /\ requests < MaxRequests
  /\ \E ms \in Prepared :
       /\ messages' = Sanitized(ms)
       /\ request' = IF Anthropic
                     THEN [api |-> "anthropic", messages |-> ForAnthropic(Sanitized(ms))]
                     ELSE [api |-> "openai", messages |-> OpenAi(Sanitized(ms))]
  /\ requests' = requests + 1
  /\ UNCHANGED <<model, rows, boundary, left, turns, asked>>

\* The turn is over, or lost: its messages are gone, its rows are not.
Over(from) ==
  /\ Goto(from, "idle")
  /\ messages' = <<>> /\ left' = <<>>
  /\ UNCHANGED <<model, boundary, request, turns, requests, asked>>

Answer    == Over("reply") /\ rows' = Append(rows, Says("assistant", Said))
Fail      == Over("reply") /\ UNCHANGED rows
Cancel    == Over("tools") /\ left # <<>> /\ UNCHANGED rows
UseUpRounds == Over("send") /\ requests = MaxRequests /\ UNCHANGED rows

\* The model announces a call instead of making it, or answers nothing after
\* its tools: it is asked again.
AskAgain ==
  /\ Goto("reply", "send")
  /\ LET text == IF requests = 1 THEN Said ELSE Blank
     IN  messages' = messages \o <<Says("assistant", text), Says("user", Hint)>>
  /\ UNCHANGED <<model, rows, boundary, request, left, turns, requests, asked>>

\* The refusals among the results come first.
CallTools ==
  /\ Goto("reply", "tools")
  /\ \E n \in 1..MaxCalls, text \in {Blank, Said} : \E denied \in SUBSET (1..n) :
       LET calls == [k \in 1..n |-> [id |-> Id(asked + k, k), call |-> asked + k]] IN
       /\ asked + n <= MaxAsked /\ asked' = asked + n
       /\ messages' = Append(messages, AssistantCalls(text, calls))
       /\ rows' = Append(rows, AssistantRow(text, calls))
       /\ left' = Keep(calls, denied) \o Drop(calls, denied)
  /\ UNCHANGED <<model, boundary, request, turns, requests>>

\* A failure is followed by a hint, a bad file by a warning, which is saved.
RunTool ==
  /\ pc = "tools" /\ left # <<>>
  /\ \E after \in {<<>>, <<Says("user", Hint)>>, <<Says("user", Said)>>} :
       messages' = messages \o <<Result(Head(left))>> \o after
  /\ left' = Tail(left)
  /\ UNCHANGED <<pc, model, rows, boundary, request, turns, requests, asked>>

\* All since the last assistant message, but for hints.
Unsaved ==
  LET since == SelectLastInSeq(messages, LAMBDA m : m.role = "assistant") + 1
      late  == SubSeq(messages, since, Len(messages))
  IN  Drop(late, {k \in DOMAIN late : late[k].text = Hint})

EndBatch ==
  /\ Goto("tools", "send") /\ left = <<>>
  /\ rows' = rows \o [k \in DOMAIN Unsaved |-> Stored(Unsaved[k])]
  /\ UNCHANGED <<model, boundary, messages, request, left, turns, requests, asked>>

Compact ==
  /\ pc = "idle" /\ Len(rows) > KeepTail
  /\ boundary' = Len(rows) - KeepTail
  /\ UNCHANGED <<pc, model, rows, messages, request, left, turns, requests, asked>>

Next ==
  \/ \E m \in Models : BeginTurn(m)
  \/ Send \/ Answer \/ Fail \/ AskAgain \/ CallTools \/ RunTool \/ Cancel
  \/ EndBatch \/ UseUpRounds \/ Compact

Spec == Init /\ [][Next]_vars

-----------------------------------------------------------------------------
TypeOK ==
  /\ pc \in {"idle", "send", "reply", "tools"} /\ model \in Models
  /\ request.api \in {"none", "openai", "anthropic"}
  /\ boundary \in 0..Len(rows)
  /\ turns \in 0..MaxTurns /\ requests \in 0..MaxRequests /\ asked \in 0..MaxAsked

\* What a request says of calls, whatever the history has been through: calls
\* whose turn was lost, results cut off from their calls by a compaction or the
\* guard, hints between results, turns in the other format.
\* To OpenAI, the calls of a message are followed by their results, in order,
\* and there are no other results (tool_call_sanitizer.rs:228).
PairedForOpenAi ==
  request.api = "openai" =>
    LET ms == request.messages IN
    \A i \in DOMAIN ms :
      /\ ms[i].role = "tool" => \E a \in 1..i - 1 : MakesCalls(ms[a]) /\ Adjacent(ms, i, a)
      /\ MakesCalls(ms[i]) =>
           /\ EndOfResults(ms, i) = i + Len(ms[i].calls)
           /\ \A k \in DOMAIN ms[i].calls : ms[i + k].answers = ms[i].calls[k].id

\* To Anthropic, no call is left without a result in the message behind it
\* (ensure_tool_use_result_pairing, llm.rs:255), and speakers alternate,
\* beginning with the user.  Of calls and their results this is one direction
\* only.  That a result has its call in the message before it does not hold: an
\* assistant without text is skipped with its calls (llm.rs:70), their results
\* are not, and the guard and the summary may cut off calls from results in
\* Anthropic's own format, which they take for messages of the user.
AnsweredForAnthropic ==
  request.api = "anthropic" =>
    LET ms == request.messages IN
    \A i \in DOMAIN ms :
      /\ ms[i].role = IF i % 2 = 1 THEN "user" ELSE "assistant"
      /\ OfKind(ms[i], "use") # {} =>
           i < Len(ms) /\ OfKind(ms[i], "use") \subseteq OfKind(ms[i + 1], "result")

\* A request shows each call its own result, or says that it was compacted;
\* that there is none it says only of a call whose result was never saved.
ResultsAreOwn ==
  request.api = "openai" =>
    LET ms == request.messages IN
    \A i \in DOMAIN ms : \A k \in DOMAIN ms[i].calls :
      LET text == ms[i + k].text
          call == ms[i].calls[k].call
      IN  \/ text \in {call, Compacted, ContextCompacted}
          \/ text = Unavailable /\ ~Has(rows, LAMBDA r : r.role = "tool" /\ r.text = call)

RequestsArePaired == PairedForOpenAi /\ AnsweredForAnthropic /\ ResultsAreOwn
=============================================================================
