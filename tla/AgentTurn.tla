----------------------------- MODULE AgentTurn -----------------------------
(***************************************************************************)
(* One message turn of the agent: run_agent_loop                           *)
(* (src/local-app/src/agent/agent_loop.rs), called by the orchestrator for *)
(* the user's message and, when the changed files fail verification, once  *)
(* more to repair them.  Both calls share one ExecutionBudget and one      *)
(* cancellation token; the user may cancel and the awaited subagent may    *)
(* end between any two steps.                                              *)
(*                                                                         *)
(* The conversation is the native (OpenAI) format with the provider's own, *)
(* unique call ids, and fits the context window.  A message keeps its      *)
(* role, the calls it makes or answers, and what the loop reads in its     *)
(* text.  What the model and the tools answer is chosen freely.            *)
(***************************************************************************)
EXTENDS Integers, SequencesExt

CONSTANTS
  MaxRounds,      \* MAX_TOOL_ROUNDS (15 in the code)
  MaxLlmCalls,    \* budget.max_llm_calls
  MaxToolCalls,   \* budget.max_tool_calls
  CallKinds,      \* bound: the kinds of tool calls the model makes
  MaxCalls,       \* bound: tool calls in one reply
  MaxAsked        \* bound: tool calls the model makes in one turn

\* What becomes of a call in the first pass over a reply (denied: by policy or
\* as a duplicate; serial: Sandboxed or Approval; the others may run in
\* parallel), and what sessions_yield returns: an end, or a run to wait for.
AllKinds == {"denied", "serial", "safe", "end", "wait"}

ASSUME ConstantsOK ==
  /\ MaxRounds \in Nat \ {0}
  /\ MaxLlmCalls \in Nat
  /\ MaxToolCalls \in Nat
  /\ CallKinds \subseteq AllKinds
  /\ MaxCalls \in Nat
  /\ MaxAsked \in Nat

VARIABLES
  pc,         \* where the turn is
  loop,       \* 1: the user's message, 2: the repair after verification
  round,      \* the for loop's counter
  empties,    \* empty_retries
  hasText,    \* full_content is not blank
  messages,   \* what the next request will be made of
  chat,       \* the rows this turn has added to chat_messages
  reply,      \* the calls of the reply being handled
  batch,      \* those still to be executed
  asked,      \* calls the model has made so far
  budget,     \* the counters of the ExecutionBudget
  cancelled,  \* the cancellation token
  subagent,   \* the run that sessions_yield waits for
  sent,       \* requests made: by the rounds, and to force a final answer
  late        \* requests made and batches started after the cancellation

position == <<pc, loop, round>>
talk     == <<messages, chat>>
work     == <<reply, batch, asked>>
effects  == <<sent, late>>
vars == <<position, empties, hasText, talk, work, budget, cancelled, subagent,
          effects>>

PC == {"round", "preparing", "calling", "batch", "running", "settling",
       "waiting", "finale", "forced", "returned", "done"}

-----------------------------------------------------------------------------
(* messages                                                                *)

NoId == <<>>
CallId(k) == <<loop, round, k>>

\* The text of a tool result or user message, as far as the loop looks at it.
Texts == {"plain", "end", "wait", "unavailable", "internal"}

UserSays(text) ==
  [role |-> "user", calls |-> <<>>, answers |-> NoId, text |-> text]
AssistantSays(ids) ==
  [role |-> "assistant", calls |-> ids, answers |-> NoId, text |-> "plain"]
ToolResult(id, text) ==
  [role |-> "tool", calls |-> <<>>, answers |-> id, text |-> text]

ResultText(kind) == IF kind \in {"end", "wait"} THEN kind ELSE "plain"

\* The elements of s at the given places, in their order: SelectSeq, in a form
\* that the provers can unfold.
Chosen(s, places) ==
  LET chosen[i \in 0..Len(s)] ==
        IF i = 0 THEN <<>>
        ELSE IF i \in places THEN Append(chosen[i - 1], s[i]) ELSE chosen[i - 1]
  IN  chosen[Len(s)]

\* repair_tool_pairing, per message: an assistant is followed by the first
\* result of each of its calls, a made-up one where there is none.
ResultFor(ms, id) ==
  LET found == {i \in DOMAIN ms : ms[i].role = "tool" /\ ms[i].answers = id}
  IN  IF found = {} THEN ToolResult(id, "unavailable") ELSE ms[Min(found)]

WithResults(ms, m) ==
  IF m.role = "tool" THEN <<>>
  ELSE <<m>> \o [k \in 1..Len(m.calls) |-> ResultFor(ms, m.calls[k])]

\* sanitize_messages_for_llm; the _internal marks are stripped at its end.
Sanitized(ms) ==
  LET unmarked(m) == IF m.text = "internal" THEN [m EXCEPT !.text = "plain"] ELSE m
  IN  FlattenSeq([i \in 1..Len(ms) |-> WithResults(ms, unmarked(ms[i]))])

LastAssistant(ms) == SelectLastInSeq(ms, LAMBDA m : m.role = "assistant")

\* Mutant: the scan for the last assistant finds none, save_start stays 0.
SaveAll(ms) == Chosen(ms, {i \in DOMAIN ms : ms[i].text # "internal"})

\* What is saved once a batch is over: all since the last assistant, except
\* the loop's own hints.
Unsaved(ms) ==
  LET new == SubSeq(ms, LastAssistant(ms) + 1, Len(ms))
  IN  Chosen(new, {i \in DOMAIN new : new[i].text # "internal"})
-----------------------------------------------------------------------------
(* the rounds                                                              *)

FreshSent == [rounds |-> 0, final |-> 0]

\* The orchestrator has saved the user's message and made the budget.
Init ==
  /\ pc = "round" /\ loop = 1 /\ round = 0
  /\ empties = 0 /\ hasText = FALSE
  /\ messages = <<UserSays("plain")>> /\ chat = <<>>
  /\ reply = <<>> /\ batch = <<>> /\ asked = 0
  /\ budget = [llm |-> 0, tools |-> 0, spent |-> FALSE]
  /\ cancelled = FALSE
  /\ subagent = "running"
  /\ sent = FreshSent
  /\ late = [requests |-> 0, batches |-> 0]

At(from, to) == pc = from /\ pc' = to /\ UNCHANGED loop

\* The loop only moves on.
Move(from, to) ==
  /\ At(from, to)
  /\ UNCHANGED <<round, empties, hasText, talk, work, budget, cancelled,
                 subagent, effects>>

GoOn(from) == At(from, "round") /\ round' = round + 1

LateRequest == late' = [late EXCEPT !.requests = @ + (IF cancelled THEN 1 ELSE 0)]

\* Cancellation, then try_llm_call, then the tokens: all pass.
StartRound ==
  /\ At("round", "preparing")
  /\ round < MaxRounds /\ ~cancelled
  /\ budget.llm < MaxLlmCalls /\ ~budget.spent
  /\ budget' = [budget EXCEPT !.llm = @ + 1]
  /\ UNCHANGED <<round, empties, hasText, talk, work, cancelled, subagent, effects>>

\* One of them does not, or the rounds are used up.  The tokens are looked at
\* after the call has been deducted.
StopRounds ==
  /\ At("round", "finale")
  /\ \/ /\ round = MaxRounds \/ cancelled \/ budget.llm >= MaxLlmCalls
        /\ UNCHANGED budget
     \/ /\ round < MaxRounds /\ ~cancelled
        /\ budget.llm < MaxLlmCalls /\ budget.spent
        /\ budget' = [budget EXCEPT !.llm = @ + 1]
  /\ UNCHANGED <<round, empties, hasText, talk, work, cancelled, subagent, effects>>

\* Between the checks and the request lie the context guard and the hooks.
SendRequest ==
  /\ At("preparing", "calling")
  /\ messages' = Sanitized(messages)
  /\ sent' = [sent EXCEPT !.rounds = @ + 1]
  /\ LateRequest
  /\ UNCHANGED <<round, empties, hasText, chat, work, budget, cancelled,
                 subagent>>

\* should_retry && round == 0: the retry is the next round.
RetryCall ==
  /\ GoOn("calling") /\ round = 0
  /\ UNCHANGED <<empties, hasText, talk, work, budget, cancelled, subagent, effects>>

\* Any other error ends the turn; the orchestrator returns it, or, from the
\* repair, drops it.
FailCall == Move("calling", "done")

\* The reply's tokens may use up budget.max_tokens, where that is lower.
CountTokens ==
  \E spent \in {budget.spent, TRUE} : budget' = [budget EXCEPT !.spent = spent]

\* The tokens of this loop are over DEFAULT_TOKEN_BUDGET: its reply is dropped.
ExceedTokens ==
  /\ At("calling", "finale")
  /\ CountTokens
  /\ UNCHANGED <<round, empties, hasText, talk, work, cancelled, subagent, effects>>

\* detect_tool_intent: the model says what it would do instead of doing it.
Nudge ==
  /\ GoOn("calling") /\ round = 0
  /\ CountTokens
  /\ hasText' = TRUE
  /\ messages' = messages \o <<AssistantSays(<<>>), UserSays("internal")>>
  /\ UNCHANGED <<empties, chat, work, cancelled, subagent, effects>>

\* A blank reply is asked for again, twice at most.
RetryEmpty ==
  /\ GoOn("calling") /\ empties < 2
  /\ CountTokens
  /\ empties' = empties + 1
  /\ messages' = IF round = 0 THEN messages
                 ELSE messages \o <<AssistantSays(<<>>), UserSays("internal")>>
  /\ UNCHANGED <<hasText, chat, work, cancelled, subagent, effects>>

FinalAnswer ==
  /\ At("calling", "finale")
  /\ CountTokens
  /\ \/ hasText' = TRUE
     \/ empties = 2 /\ UNCHANGED hasText       \* the third empty reply
  /\ chat' = Append(chat, AssistantSays(<<>>))
  /\ UNCHANGED <<round, empties, messages, work, cancelled, subagent, effects>>

-----------------------------------------------------------------------------
(* the tool calls of a reply                                               *)

Replies == UNION {[1..n -> CallKinds] : n \in 1..MaxCalls}

Positions(calls) == [k \in 1..Len(calls) |-> k]

Denied(calls)  == Chosen(Positions(calls), {k \in DOMAIN calls : calls[k] = "denied"})
Allowed(calls) == Chosen(Positions(calls), {k \in DOMAIN calls : calls[k] # "denied"})

\* The assistant is appended and saved, then the refusals are appended.
CallTools ==
  /\ At("calling", "batch")
  /\ CountTokens
  /\ \E calls \in Replies, text \in BOOLEAN :
       LET ids == [k \in 1..Len(calls) |-> CallId(k)] IN
       /\ asked + Len(calls) <= MaxAsked
       /\ asked' = asked + Len(calls)
       /\ hasText' = (hasText \/ text)
       /\ reply' = calls
       /\ batch' = Allowed(calls)
       /\ chat' = Append(chat, AssistantSays(ids))
       /\ messages' = Append(messages, AssistantSays(ids)) \o
            [n \in 1..Len(Denied(calls)) |-> ToolResult(ids[Denied(calls)[n]], "plain")]
  /\ UNCHANGED <<round, empties, cancelled, subagent, effects>>

\* Decided once, for the whole batch.
AllParallel(calls) ==
  /\ Len(Allowed(calls)) > 1
  /\ \A k \in Range(Allowed(calls)) : calls[k] # "serial"

Parallel == AllParallel(reply)

ResultOfCall(k) == ToolResult(CallId(k), ResultText(reply[k]))

LateBatch == late' = [late EXCEPT !.batches = @ + (IF cancelled THEN 1 ELSE 0)]

\* join_all: nothing is checked or deducted in between.
RunParallel ==
  /\ At("batch", "settling") /\ Parallel
  /\ messages' = messages \o [n \in 1..Len(batch) |-> ResultOfCall(batch[n])]
  /\ batch' = <<>>
  /\ LateBatch
  /\ UNCHANGED <<round, empties, hasText, chat, reply, asked, budget, cancelled,
                 subagent, sent>>

\* Mutant: the token is not looked at between the tools of a batch.
BeginToolUnchecked == Move("batch", "running") /\ ~Parallel /\ batch # <<>>

BeginTool ==
  /\ Move("batch", "running") /\ ~Parallel /\ batch # <<>>
  /\ ~cancelled

\* cancelled_mid_tools: both loops are left, the results are not saved.
AbandonBatch ==
  /\ Move("batch", "finale") /\ ~Parallel /\ batch # <<>>
  /\ cancelled

EndBatch == Move("batch", "settling") /\ batch = <<>>

\* The BeforeToolCall hook refuses: no execution, nothing deducted.
RejectTool ==
  /\ At("running", "batch")
  /\ messages' = Append(messages, ToolResult(CallId(Head(batch)), "plain"))
  /\ batch' = Tail(batch)
  /\ UNCHANGED <<round, empties, hasText, chat, reply, asked, budget, cancelled,
                 subagent, effects>>

\* The tool has run; hints are what the loop adds after its result.
RunTool(hints) ==
  /\ At("running", "batch")
  /\ messages' = Append(messages, ResultOfCall(Head(batch))) \o hints
  /\ LateBatch
  /\ UNCHANGED <<round, empties, hasText, chat, reply, asked, cancelled,
                 subagent, sent>>

\* A missing Python package was installed: `continue`, before the deduction.
InstallPackage ==
  /\ pc = "running" /\ reply[Head(batch)] = "serial"
  /\ RunTool(<<UserSays("internal")>>)
  /\ batch' = Tail(batch)
  /\ UNCHANGED budget

\* After a failure possibly the hint to reflect or to stop; sessions_yield
\* does not fail.
Hints(kind) ==
  IF kind \in {"end", "wait"} THEN {<<>>} ELSE {<<>>, <<UserSays("internal")>>}

\* After writing a file possibly a warning about its syntax.
Warnings(kind) ==
  IF kind \in {"end", "wait"} THEN {} ELSE {<<UserSays("plain")>>}

FinishTool ==
  /\ pc = "running" /\ budget.tools < MaxToolCalls
  /\ \E hints \in Hints(reply[Head(batch)]) \cup Warnings(reply[Head(batch)]) :
       RunTool(hints)
  /\ budget' = [budget EXCEPT !.tools = @ + 1]
  /\ batch' = Tail(batch)

\* try_tool_call fails after the tool has run: the rest of the batch is
\* dropped, the syntax is not checked.
ExhaustTools ==
  /\ pc = "running" /\ budget.tools >= MaxToolCalls
  /\ \E hints \in Hints(reply[Head(batch)]) : RunTool(hints)
  /\ batch' = <<>>
  /\ UNCHANGED budget

-----------------------------------------------------------------------------
(* yielding and the end of a round                                         *)

\* iter().rev().take(total_tools + denied_results.len())
Window(ms) ==
  LET n == Len(reply) + Len(Denied(reply))
  IN  SubSeq(ms, IF n >= Len(ms) THEN 1 ELSE Len(ms) - n + 1, Len(ms))

Yields(m) == m.text \in {"end", "wait"}

\* The text the loop finds: "no" where it finds none.
YieldText ==
  LET last == SelectLastInSeq(Window(messages), Yields)
  IN  IF last = 0 THEN "no" ELSE Window(messages)[last].text

\* The rows are saved first, whether the turn yields or not.
Settle(text, next) ==
  /\ At("settling", next)
  /\ YieldText = text
  /\ chat' = chat \o Unsaved(messages)
  /\ UNCHANGED <<empties, hasText, messages, work, budget, cancelled, subagent,
                 effects>>

NextRound  == Settle("no", "round") /\ round' = round + 1
YieldEnd   == Settle("end", "returned") /\ UNCHANGED round
YieldWait  == Settle("wait", "waiting") /\ UNCHANGED round

\* The run's result, or word that it failed or did not end within 120 s, is
\* injected and saved.  The token is not looked at while waiting.
Resume ==
  /\ GoOn("waiting")
  /\ messages' = Append(messages, UserSays("plain"))
  /\ chat' = Append(chat, UserSays("plain"))
  /\ UNCHANGED <<empties, hasText, work, budget, cancelled, subagent, effects>>

\* Mutant: no timeout ends the waiting.
NoTimeout == FALSE

SubagentAnswered == subagent = "answered" /\ Resume
WaitTimesOut     == subagent = "running" /\ Resume

\* Success with an empty result counts as no result: the turn ends.
SubagentSilent ==
  /\ Move("waiting", "returned")
  /\ subagent = "silent"

-----------------------------------------------------------------------------
(* after the rounds                                                        *)

HasAnswer == Move("finale", "returned") /\ hasText

\* One more request, without tools and outside the budget.
ForceAnswer ==
  /\ At("finale", "forced") /\ ~hasText
  /\ messages' = Sanitized(Append(messages, UserSays("internal")))
  /\ sent' = [sent EXCEPT !.final = @ + 1]
  /\ LateRequest
  /\ UNCHANGED <<round, empties, hasText, chat, work, budget, cancelled,
                 subagent>>

TakeForced ==
  /\ At("forced", "returned")
  /\ \/ chat' = Append(chat, AssistantSays(<<>>))
     \/ UNCHANGED chat                                \* the request failed
  /\ UNCHANGED <<round, empties, hasText, messages, work, budget, cancelled,
                 subagent, effects>>

\* Verification passes, or has nothing to verify; or the repair is over.
EndTurn == Move("returned", "done")

\* Mutant: the repair gets a budget of its own.
RepairFreshBudget ==
  /\ pc = "returned" /\ loop = 1
  /\ pc' = "round" /\ loop' = 2 /\ round' = 0
  /\ empties' = 0 /\ hasText' = FALSE
  /\ messages' = <<UserSays("plain")>>
  /\ budget' = [llm |-> 0, tools |-> 0, spent |-> FALSE]
  /\ UNCHANGED <<chat, work, cancelled, subagent, effects>>

\* Verify-Fix: a second loop, with nothing but the errors, on what is left of
\* the budget.
Repair ==
  /\ pc = "returned" /\ loop = 1
  /\ pc' = "round" /\ loop' = 2 /\ round' = 0
  /\ empties' = 0 /\ hasText' = FALSE
  /\ messages' = <<UserSays("plain")>>
  /\ UNCHANGED <<chat, work, budget, cancelled, subagent, effects>>

-----------------------------------------------------------------------------
(* the others                                                              *)

Cancel ==
  /\ pc # "done" /\ ~cancelled
  /\ cancelled' = TRUE
  /\ UNCHANGED <<position, empties, hasText, talk, work, budget, subagent, effects>>

SubagentEnds ==
  /\ pc # "done" /\ subagent = "running"
  /\ subagent' \in {"answered", "silent"}
  /\ UNCHANGED <<position, empties, hasText, talk, work, budget, cancelled, effects>>

Waiting == SubagentAnswered \/ WaitTimesOut \/ SubagentSilent

Turn ==
  \/ StartRound \/ StopRounds \/ SendRequest
  \/ RetryCall \/ FailCall \/ ExceedTokens
  \/ Nudge \/ RetryEmpty \/ FinalAnswer \/ CallTools
  \/ RunParallel \/ BeginTool \/ AbandonBatch \/ EndBatch
  \/ RejectTool \/ InstallPackage \/ FinishTool \/ ExhaustTools
  \/ NextRound \/ YieldEnd \/ YieldWait \/ Waiting
  \/ HasAnswer \/ ForceAnswer \/ TakeForced \/ EndTurn \/ Repair

Next == Turn \/ Cancel \/ SubagentEnds

\* Requests, tools and the waiting all have timeouts in the code, so every
\* step of the turn is taken; nobody need cancel and no subagent need end.
Spec == Init /\ [][Next]_vars /\ WF_vars(Turn)

-----------------------------------------------------------------------------
(* properties                                                              *)

Ids == {1, 2} \X (0..MaxRounds) \X (1..MaxCalls)

Message == [role : {"user", "assistant", "tool"}, calls : Seq(Ids),
            answers : Ids \cup {NoId}, text : Texts]

\* The variables range over the values the code gives them.
TypeOK ==
  /\ pc \in PC /\ loop \in {1, 2} /\ round \in 0..MaxRounds
  /\ empties \in 0..2 /\ hasText \in BOOLEAN
  /\ messages \in Seq(Message) /\ chat \in Seq(Message)
  /\ reply \in Seq(CallKinds) /\ batch \in Seq(1..MaxCalls) /\ asked \in Nat
  /\ budget \in [llm : 0..MaxLlmCalls, tools : 0..MaxToolCalls, spent : BOOLEAN]
  /\ cancelled \in BOOLEAN
  /\ subagent \in {"running", "answered", "silent"}
  /\ sent \in [rounds : Nat, final : Nat]
  /\ late \in [requests : Nat, batches : Nat]

\* One budget for both loops (execution_budget.rs): whatever is retried,
\* nudged or repaired, the rounds make at most max_llm_calls requests, and
\* only the forced answer of each loop comes on top of them.
OneBudget ==
  /\ sent.rounds <= budget.llm
  /\ sent.rounds <= MaxLlmCalls
  /\ sent.final <= loop

\* A cancelled turn winds up (the checks at agent_loop.rs:132 and 603): at
\* most the request being prepared still goes out, besides the forced answer
\* of each loop, and at most the tool in flight or one parallel batch is run.
CancelWindsUp ==
  /\ late.requests <= 3
  /\ late.batches <= 1

\* The rows of chat_messages follow the turn, at any moment, hence also wherever
\* the process dies: every row of a tool result stands after the row of the
\* assistant that made the call, no call has two such rows, and what a round's
\* request shows the model of its tools is there too, so that the next turn's
\* history tells the same story.
RowsInOrder ==
  \A i \in 1..Len(chat) : chat[i].role = "tool" =>
    /\ \E h \in 1..(i - 1) : chat[i].answers \in Range(chat[h].calls)
    /\ \A h \in 1..(i - 1) : chat[h].answers # chat[i].answers

SeenIsSaved ==
  pc = "calling" =>
    \A i \in 1..Len(messages) :
      messages[i].role = "tool" /\ messages[i].text # "unavailable"
        => messages[i] \in Range(chat)

RowsFollowTurn == RowsInOrder /\ SeenIsSaved

\* Whatever the model, the tools and the subagent do, the turn ends.
TurnEnds == <>(pc = "done")
=============================================================================
