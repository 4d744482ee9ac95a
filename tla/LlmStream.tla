----------------------------- MODULE LlmStream -----------------------------
(***************************************************************************)
(* One answer of a model, streamed (agent/llm.rs: call_stream and the      *)
(* parsers of the three providers), as the agent loop asks for it          *)
(* (agent/agent_loop.rs) and the chat page shows it (ChatTab.tsx).         *)
(* call_stream tries up to three times; before every further try it tells  *)
(* the page to clear what it shows and forgets what it has received.  If   *)
(* it fails in the loop's first round, the loop calls it once more.        *)
(*                                                                         *)
(* An answer is a sequence of items: pieces of text, the halves of a       *)
(* <think> or </think> tag, a lone "<", the beginning of a tool call and   *)
(* pieces of its arguments, or, from Gemini, a whole call.  A piece of     *)
(* arguments ends where their braces close, or earlier.  What is kept of   *)
(* an item is the try it came with and its place.  Bytes, lines, the text  *)
(* of the JSON and the ids of calls are left out, and so is the check      *)
(* whether the receiver of the tokens is gone: every caller holds it until *)
(* the call returns.                                                       *)
(***************************************************************************)
EXTENDS Naturals, Sequences, FiniteSets

CONSTANTS
  Sessions,
  Watched,      \* the session the page shows
  Providers,    \* of openai, anthropic, gemini
  Scripts,      \* for each provider, the answers its server may send
  MaxTries      \* MAX_RETRIES

VARIABLES
  call,     \* the call of each session: its provider, round, try, and what it received
  server,   \* the answer that each session's server sends, and how much it has sent
  page,     \* what the page shows of the answer in progress
  cleared   \* whether another session's call has cleared it

vars == <<call, server, page, cleared>>

\* A call begins with "name" or "noname"; "arg" is a piece within an object, "end" the
\* last piece of one, "vague" too, if no tool is known by its keys, and after "brace" the
\* braces are closed by one that stands in a string.  A call in one item is "whole", or
\* "torn" if such a brace is in it.
Naming    == {"name", "whole", "torn"}
Arguing   == {"arg", "end", "vague", "brace", "whole", "torn"}
Closing   == {"end", "vague", "whole"}
Breaking  == {"brace", "torn"}
ToolKinds == Naming \cup Arguing \cup {"noname"}

Nothing == [content |-> <<>>, tools |-> <<>>, think |-> FALSE, held |-> <<>>]
NoCall  == [name |-> <<>>, args |-> <<>>]

At(s, pc) == call[s].pc = pc

-----------------------------------------------------------------------------
(* the page                                                                *)

\* A token is shown if it is of the session the page shows.
Shows(s, pieces) == page' = IF s = Watched THEN page \o pieces ELSE page

\* The marker of a retry is obeyed before the session is looked at.
Clear(s) ==
  /\ page' = <<>>
  /\ cleared' = (cleared \/ s # Watched)

-----------------------------------------------------------------------------
(* receiving an item                                                       *)

Piece(s, n) == [try |-> call[s].try, round |-> call[s].round, at |-> n]
Kind(s, n)  == server[s].script[n].kind

HeldKind(s) == IF call[s].held = <<>> THEN "none" ELSE Kind(s, Head(call[s].held).at)

\* filter_think_tags: what an openai server's text, of the n-th item, makes visible,
\* what is held back in case it begins a tag, and whether the model thinks.
Filter(s, n) ==
  LET kind == Kind(s, n)
      held == call[s].held
      here == <<Piece(s, n)>> IN
  IF call[s].think
    THEN [shown |-> <<>>,
          held  |-> IF kind \in {"close1", "lt"} THEN here ELSE <<>>,
          think |-> ~(HeldKind(s) = "close1" /\ kind = "close2")]
    ELSE IF HeldKind(s) = "open1" /\ kind = "open2"
      THEN [shown |-> <<>>, held |-> <<>>, think |-> TRUE]
    ELSE IF kind \in {"open1", "lt"}
      THEN [shown |-> held, held |-> here, think |-> FALSE]
    ELSE [shown |-> held \o here, held |-> <<>>, think |-> FALSE]

Unfiltered(s, n) ==
  [shown |-> <<Piece(s, n)>>, held |-> call[s].held, think |-> call[s].think]

ReceiveText(s, n) ==
  LET f == IF call[s].provider = "openai" THEN Filter(s, n) ELSE Unfiltered(s, n) IN
  /\ call' = [call EXCEPT ![s].content = @ \o f.shown, ![s].held = f.held, ![s].think = f.think]
  /\ Shows(s, f.shown)

\* openai sends the pieces of a call with its index; the others in order.
Index(s, n) ==
  LET new == Kind(s, n) \in Naming \cup {"noname"} IN
  CASE call[s].provider = "openai" -> server[s].script[n].call
    [] OTHER -> Len(call[s].tools) + IF new THEN 1 ELSE 0

ReceiveTool(s, n) ==
  LET i == Index(s, n)
      tools == call[s].tools \o [k \in 1..(i - Len(call[s].tools)) |-> NoCall]
      named == Kind(s, n) \in Naming
      added == Kind(s, n) \in Arguing IN
  /\ call' = [call EXCEPT ![s].tools =
       [tools EXCEPT ![i] = [name |-> IF named THEN Append(@.name, Piece(s, n)) ELSE @.name,
                             args |-> IF added THEN Append(@.args, Piece(s, n)) ELSE @.args]]]
  /\ UNCHANGED page

Receive(s) ==
  LET n == server[s].sent + 1 IN
  /\ At(s, "streaming") /\ n <= Len(server[s].script)
  /\ server' = [server EXCEPT ![s].sent = n]
  /\ IF Kind(s, n) \in ToolKinds THEN ReceiveTool(s, n) ELSE ReceiveText(s, n)
  /\ UNCHANGED cleared

-----------------------------------------------------------------------------
(* the tries                                                               *)

\* send_message; the page begins with an empty answer.
Send(s) ==
  /\ At(s, "idle")
  /\ call' = [call EXCEPT ![s].pc = "request"]
  /\ page' = IF s = Watched THEN <<>> ELSE page
  /\ UNCHANGED <<server, cleared>>

Respond(s) ==
  /\ At(s, "request")
  /\ call' = [call EXCEPT ![s].pc = "streaming"]
  /\ \E script \in Scripts[call[s].provider] :
       server' = [server EXCEPT ![s] = [script |-> script, sent |-> 0]]
  /\ UNCHANGED <<page, cleared>>

\* Mutant: the calls received before stay.
ForgetAllButCalls(s) == [Nothing EXCEPT !.tools = call[s].tools]

\* What is left, before a new try, of what was received.
Forget(s) == Nothing

Retried(s, received) ==
  [call[s] EXCEPT !.pc = "request", !.try = @ + 1, !.content = received.content,
                  !.tools = received.tools, !.think = received.think, !.held = received.held]

Retry(s) ==
  /\ call[s].try < MaxTries
  /\ call' = [call EXCEPT ![s] = Retried(s, Forget(s))]
  /\ Clear(s)

Fail(s) ==
  /\ call' = [call EXCEPT ![s].pc = "failed"]
  /\ UNCHANGED <<page, cleared>>

\* No connection, a status of 429 or 5xx, a token that is refreshed; or another
\* status, or the last try.
RequestFails(s) ==
  /\ At(s, "request")
  /\ Retry(s) \/ Fail(s)
  /\ UNCHANGED server

\* No data for 60 seconds, a broken connection, or an event that is an error: tried
\* again if its text speaks of a timeout or a connection.
StreamFails(s) ==
  /\ At(s, "streaming")
  /\ Retry(s) \/ Fail(s)
  /\ UNCHANGED server

Empty(s) ==
  call[s].tools = <<>> /\ \A i \in DOMAIN call[s].content : Kind(s, call[s].content[i].at) = "blank"

\* The stream ends, wherever the server has got to.  An answer without text and
\* calls is asked for again, the last time it is returned.
EmptyAnswer(s) ==
  /\ At(s, "streaming") /\ Empty(s)
  /\ Retry(s)
  /\ UNCHANGED server

\* split_merged_json: arguments are cut wherever the braces are closed and something
\* follows, until a brace in a string has put their count out.  Anthropic's are not.
Cuts(provider, script, args) ==
  {k \in DOMAIN args :
     /\ provider # "anthropic"
     /\ \/ script[args[k].at].kind \in Closing \cup Breaking /\ k < Len(args)
        \/ script[args[k].at].kind = "torn"
     /\ \A j \in 1..(k - 1) : script[args[j].at].kind \notin Breaking}

\* The pairs of where a part begins, after that piece, and where it ends.
Parts(provider, script, args) ==
  LET cuts == Cuts(provider, script, args) IN
  {p \in ({0} \cup cuts) \X (cuts \cup {Len(args)}) :
     /\ p[1] < p[2] \/ (p[1] = Len(args) /\ p[2] = Len(args))
     /\ \A k \in cuts : k <= p[1] \/ p[2] <= k}

\* A part that is no JSON object becomes the empty one.
Parsed(script, args, p) ==
  LET part == SubSeq(args, p[1] + 1, p[2]) IN
  IF /\ {k \in DOMAIN part : script[part[k].at].kind \in Closing} = {Len(part)}
     /\ p[1] = 0 \/ script[args[p[1]].at].kind \in Closing
    THEN part ELSE <<>>

\* infer_tool_name
Told(script, part) == part # <<>> /\ script[part[Len(part)].at].kind # "vague"

\* The calls that are returned: a part is a call of its own.  A call without a name is
\* left out unless a tool is told by its arguments; of Anthropic's, the last one only.
Returned(provider, script, tools) ==
  {a \in UNION {{[call |-> i, part |-> p, name |-> tools[i].name,
                  args |-> Parsed(script, tools[i].args, p)] :
                    p \in Parts(provider, script, tools[i].args)} : i \in DOMAIN tools} :
     \/ a.name # <<>>
     \/ IF provider = "anthropic" THEN a.call < Len(tools) ELSE Told(script, a.args)}

\* The apology, if nothing else would be returned, but for what is still held back.
Fallback(s, calls) ==
  IF /\ call[s].provider # "anthropic" /\ call[s].tools # <<>>
     /\ calls = {} /\ call[s].content = <<>>
    THEN <<Piece(s, 0)>> ELSE <<>>

\* Outside a thought what was held back belongs to the text.
EndOfStream(s) ==
  LET calls == Returned(call[s].provider, server[s].script, call[s].tools)
      rest  == Fallback(s, calls) \o IF call[s].think THEN <<>> ELSE call[s].held IN
  /\ At(s, "streaming") /\ (Empty(s) => call[s].try = MaxTries)
  /\ call' = [call EXCEPT ![s].pc = "done", ![s].content = @ \o rest, ![s].held = <<>>,
                          ![s].calls = calls]
  /\ Shows(s, rest)
  /\ UNCHANGED <<server, cleared>>

\* The agent loop calls once more; the page is not told.
NextRound(s) ==
  /\ At(s, "failed") /\ call[s].round = 0
  /\ call' = [call EXCEPT ![s] =
       [Retried(s, Nothing) EXCEPT !.try = 1, !.round = 1]]
  /\ UNCHANGED <<server, page, cleared>>

-----------------------------------------------------------------------------
(* the specification                                                       *)

Init ==
  /\ \E provider \in [Sessions -> Providers] :
       call = [s \in Sessions |->
                [pc |-> "idle", provider |-> provider[s], round |-> 0, try |-> 1,
                 content |-> <<>>, tools |-> <<>>, think |-> FALSE, held |-> <<>>, calls |-> {}]]
  /\ server = [s \in Sessions |-> [script |-> <<>>, sent |-> 0]]
  /\ page = <<>>
  /\ cleared = FALSE

Next ==
  \E s \in Sessions :
    \/ Send(s) \/ Respond(s) \/ Receive(s) \/ EndOfStream(s) \/ NextRound(s)
    \/ RequestFails(s) \/ StreamFails(s) \/ EmptyAnswer(s)

\* A request has 120 seconds, and there are MaxTries of them in each of two rounds.
Spec == Init /\ [][Next]_vars /\ \A s \in Sessions :
          WF_vars(Respond(s) \/ RequestFails(s)) /\ WF_vars(StreamFails(s) \/ EndOfStream(s))

-----------------------------------------------------------------------------
(* properties                                                              *)

\* The text of an answer by its definition: what stands in no thought and is not the
\* tag that begins or ends one.
Pair(script, n, first, second) ==
  n + 1 \in DOMAIN script /\ script[n].kind = first /\ script[n + 1].kind = second

InThought(script, n) ==
  \E k \in 1..n : /\ Pair(script, k, "open1", "open2") /\ k + 1 < n
                  /\ \A m \in (k + 2)..n : Pair(script, m, "close1", "close2") => m + 1 >= n

InTag(script, n) ==
  \E k \in {n - 1, n} \cap DOMAIN script :
    \/ Pair(script, k, "open1", "open2")
    \/ Pair(script, k, "close1", "close2") /\ InThought(script, k)

Text(provider, script) ==
  {n \in DOMAIN script : /\ script[n].kind \notin ToolKinds
                         /\ provider = "openai" => ~InThought(script, n) /\ ~InTag(script, n)}

\* The k-th call of an answer, by the same token.
Names(script, k)     == {n \in DOMAIN script : script[n].call = k /\ script[n].kind \in Naming}
Arguments(script, k) == {n \in DOMAIN script : script[n].call = k /\ script[n].kind \in Arguing}
CallsIn(script)      == {script[n].call : n \in {m \in DOMAIN script : script[m].kind \in ToolKinds}}

\* What a server that keeps to its own format sends: a new call comes after those
\* before it, openai adds to any call it has begun and the others to the last one;
\* no piece of a call stands between the halves of a tag.
Orderly(provider, script) ==
  /\ script \in Seq([kind : STRING, call : Nat])
  /\ \A n \in DOMAIN script : script[n].kind \in ToolKinds =>
       \E c \in 0..n :
         /\ CallsIn(SubSeq(script, 1, n - 1)) = 1..c
         /\ script[n].call \in CASE provider = "openai" -> 1..(c + 1)
                                [] provider # "openai" /\ script[n].kind \notin Naming \cup {"noname"}
                                     -> {c} \ {0}
                                [] OTHER -> {c + 1}
         /\ provider = "openai" /\ n > 1 => script[n - 1].kind \notin {"open1", "close1"}

Received(s) == SubSeq(server[s].script, 1, server[s].sent)

\* A sequence has exactly the given places of the last try's answer, in order.
IsOf(s, pieces, places) ==
  /\ Len(pieces) = Cardinality(places)
  /\ {pieces[i] : i \in DOMAIN pieces} = {Piece(s, n) : n \in places}
  /\ \A i, j \in DOMAIN pieces : i < j => pieces[i].at < pieces[j].at

\* The pieces of a call from after the a-th to the b-th are an object.
IsObject(script, args, a, b) ==
  /\ a < b
  /\ a = 0 \/ script[args[a].at].kind \in Closing
  /\ script[args[b].at].kind \in Closing
  /\ \A k \in (a + 1)..(b - 1) : script[args[k].at].kind \notin Closing

\* The b-th piece is not of those that the way calls are cut spoils: after a brace in a
\* string, or, as Anthropic's are not cut, one of several objects or with something after it.
Unspoilt(provider, script, args, b) ==
  IF provider = "anthropic"
    THEN b = Len(args) /\ \A k \in 1..(b - 1) : script[args[k].at].kind \notin Closing
    ELSE \A k \in 1..b : script[args[k].at].kind \notin Breaking

\* However often it was tried and wherever each try broke off, what call_stream has at
\* the end is of its last try, and all that was received then: each call with its own
\* name and arguments, and the text outside the thoughts.  That text is returned, and an
\* apology besides only if there are calls and none of them is.
LastTryIsTaken ==
  \A s \in Sessions :
    At(s, "done") =>
      /\ Len(call[s].tools) = Cardinality(CallsIn(Received(s)))
      /\ \A i \in DOMAIN call[s].tools :
           /\ IsOf(s, call[s].tools[i].name, Names(Received(s), i))
           /\ IsOf(s, call[s].tools[i].args, Arguments(Received(s), i))
      /\ \/ IsOf(s, call[s].content, Text(call[s].provider, Received(s)))
         \/ /\ IsOf(s, call[s].content, {0} \cup Text(call[s].provider, Received(s)))
            /\ call[s].calls = {} /\ call[s].tools # <<>>

\* Whatever is done to the calls at the end - merged arguments are cut, those that are no
\* object replaced by {}, calls without a name given one or left out: a call returned has
\* the name of one that was received and one object of its arguments, or {}, no object
\* twice; every unspoilt object of a call that has a name, or is told by the object, is
\* returned; {} stands for no call that consists of unspoilt objects; and unless the
\* provider is Anthropic, a try that received calls does not return nothing at all.
CallsAreSound ==
  \A s \in Sessions :
    LET c == call[s]
        script == server[s].script IN
    At(s, "done") =>
      /\ \A x \in c.calls :
           LET args == c.tools[x.call].args IN
           /\ x.call \in DOMAIN c.tools /\ x.name = c.tools[x.call].name
           /\ x.args # <<>> => \E b \in DOMAIN args : \E a \in 0..b :
                IsObject(script, args, a, b) /\ x.args = SubSeq(args, a + 1, b)
           /\ x.args = <<>> => ~ (/\ args # <<>> /\ script[args[Len(args)].at].kind \in Closing
                                 /\ Unspoilt(c.provider, script, args, Len(args)))
           /\ \A y \in c.calls : x.call = y.call /\ x.args = y.args /\ x.args # <<>> => x = y
      /\ \A i \in DOMAIN c.tools : \A b \in DOMAIN c.tools[i].args : \A a \in 0..b :
           LET args == c.tools[i].args IN
           /\ IsObject(script, args, a, b) /\ Unspoilt(c.provider, script, args, b)
           /\ \/ c.tools[i].name # <<>>
              \/ c.provider # "anthropic" /\ script[args[b].at].kind # "vague"
           => \E x \in c.calls : x.call = i /\ x.args = SubSeq(args, a + 1, b)
      /\ c.provider # "anthropic" /\ c.tools # <<>> => c.content # <<>> \/ c.calls # {}

\* The page shows the text that is returned, if the loop's first round has not failed and
\* no other session's call has cleared the page.
PageShowsAnswer ==
  At(Watched, "done") /\ call[Watched].round = 0 /\ ~cleared => page = call[Watched].content

AnswerIsLastTry == LastTryIsTaken /\ CallsAreSound /\ PageShowsAnswer
=============================================================================
