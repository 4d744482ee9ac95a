---------------------------- MODULE MCProviders ----------------------------
(* Finite instances of what concerns the model providers: the list of them   *)
(* (Google and OpenAI logins, one provider with a key in the environment)    *)
(* and the requests sent to them.  The two share no state: a behaviour is    *)
(* one of the one or of the other.                                           *)
EXTENDS Providers

CONSTANTS Models, FreshIds, HistoryTurns, RecentTurns, HeadKept, TailKept, KeepTail,
          MaxTurns, MaxRequests, MaxCalls, MaxAsked

VARIABLES part, pc, model, chatRows, boundary, messages, request, left, turns, requests, asked

pipelineVars ==
  <<pc, model, chatRows, boundary, messages, request, left, turns, requests, asked>>

Pipeline == INSTANCE MessagePipeline WITH rows <- chatRows
ASSUME PipelineAssumption == {HeadKept, TailKept, KeepTail} \subseteq Nat

Runs(p) == part = p

-----------------------------------------------------------------------------
partVars == <<part, vars, pipelineVars>>

PartsInit ==
  /\ part \in {"list", "requests"}
  /\ Init /\ Pipeline!Init
  /\ Runs("requests") \/ model = "gpt"

\* Once two actors have overlapped, the properties of the list say nothing any
\* more: what would follow need not be looked at.
PartsNext ==
  /\ UNCHANGED part
  /\ IF Runs("list") /\ ~ overlapped THEN Next ELSE UNCHANGED vars
  /\ IF Runs("requests") THEN Pipeline!Next ELSE UNCHANGED pipelineVars

PartsSpec == PartsInit /\ [][PartsNext]_partVars

-----------------------------------------------------------------------------
\* Each call in a request has its result where the provider looks for it, for the
\* format of OpenAI there are no other results, and a result is the call's own.
RequestsArePaired == Pipeline!RequestsArePaired
=============================================================================
