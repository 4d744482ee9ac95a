------------------------------ MODULE MCParts ------------------------------
(* Finite instances of the parts whose properties need no fairness: the     *)
(* streamed answers of a model, the memories, the files and diffs of the    *)
(* tools, the browser, the programs the app brings along, the skills, the   *)
(* bridge and the runs of jobs.  They share no state: a behaviour is one of *)
(* one of them, the others staying in an initial state.                     *)
EXTENDS MemoryStore, TLC

VARIABLE part
Runs(p) == part = p

-----------------------------------------------------------------------------
CONSTANTS Sessions, Watched, Providers, Scripts, MaxTries, s1, s2
VARIABLES streamCall, server, page, cleared

ASSUME StreamAssumption == Watched \in Sessions /\ MaxTries \in Nat \ {0}

streamVars == <<streamCall, server, page, cleared>>
Stream == INSTANCE LlmStream WITH call <- streamCall

\* Servers keep to their formats.
ASSUME ScriptsAssumption == \A p \in Providers : \A script \in Scripts[p] : Stream!Orderly(p, script)

Item(kind, k) == [kind |-> kind, call |-> k]
Part(kind)    == Item(kind, 0)

Plain   == <<Part("text"), Part("blank")>>
Thought == <<Part("lt"), Part("open1"), Part("open2"), Part("close1"), Part("text"),
             Part("close1"), Part("close2"), Part("text"), Part("open1")>>
\* A call without a name, then one whose arguments are two objects.
Tools   == <<Part("text"), Item("noname", 1), Item("arg", 1), Item("end", 1), Item("name", 2),
             Item("end", 2), Item("end", 2)>>

\* Two calls at a time, one with two objects for its arguments and one with a brace in a string.
Mixed   == <<Item("name", 1), Item("name", 2), Item("arg", 2), Item("end", 1), Item("brace", 2),
             Item("end", 1), Item("end", 2)>>
Unnamed == <<Part("lt"), Item("vague", 1), Item("end", 2)>>
Wholes  == <<Part("text"), Item("whole", 1), Item("torn", 2)>>

ServerScripts ==
  ("openai" :> {<<>>, Thought, Mixed, Unnamed}) @@ ("anthropic" :> {Plain, Tools})
    @@ ("gemini" :> {Wholes})

-----------------------------------------------------------------------------
CONSTANTS FileCalls, Spellings, Changes, First, MaxTime, MaxBackups
VARIABLES text, noted, backups, now, fileCall, result, last, placed, excused

fileVars == <<text, noted, backups, now, fileCall, result, last, placed, excused>>
Files == INSTANCE FileTools WITH file <- text, call <- fileCall, Calls <- FileCalls

\* A file that gets a backup has at most 5 MB, so that one fits.
ASSUME FileAssumption ==
  /\ MaxTime \in Nat /\ MaxBackups \in Nat \ {0}
  /\ First \notin FileCalls /\ \A m \in Files!Marks : m # <<>>

CONSTANTS MaxSize, MaxHunks, Mark
VARIABLES size, gone, added, plus, crlf, noEnd, hunks, onDisk, applied, lines, offset, verdict

ASSUME DiffAssumption == MaxSize \in Nat /\ MaxHunks \in Nat

diffVars == <<size, gone, added, plus, crlf, noEnd, hunks, onDisk, applied, lines, offset, verdict>>
Diff == INSTANCE UnifiedDiff

-----------------------------------------------------------------------------
CONSTANTS Agents, Elements, Label, None, MaxLength, MaxShift, MaxBrowserCalls
VARIABLES chrome, tab, shift, overlay, browserCall, seen, same, settled, hit, browserCalls

ASSUME BrowserAssumption == MaxShift \in Nat

browserVars == <<chrome, tab, shift, overlay, browserCall, seen, same, settled, hit, browserCalls>>
Chrome == INSTANCE Browser WITH page <- tab, call <- browserCall, calls <- browserCalls,
                                MaxCalls <- MaxBrowserCalls

CONSTANTS Setups, Boot, Ports, Other, Nobody, MaxStarts
VARIABLES app, appStarts, node, zip, install, said, python, venv, base, init, initializing,
          torn, port, listens, backends

runtimeVars == <<app, appStarts, node, zip, install, said, python, venv, base, init,
                 initializing, torn, port, listens, backends>>
Runtime == INSTANCE Runtimes WITH starts <- appStarts

CONSTANTS SkillCalls, SkillTurns, Absent, Nil, Bundled, MaxSkillCalls, MaxLooks, MaxExits
VARIABLES market, dir, single, skillRow, stamp, skillsSeen, skillJob, look, seeding,
          skillCalls, looks, skillExits

skillVars == <<market, dir, single, skillRow, stamp, skillsSeen, skillJob, look, seeding,
               skillCalls, looks, skillExits>>
Skill == INSTANCE Skills WITH Nothing <- Nil, row <- skillRow, cache <- skillsSeen, job <- skillJob,
                              calls <- skillCalls, exits <- skillExits

ASSUME SkillAssumption == \A fs \in SUBSET Skill!Package : Absent # fs

CONSTANTS CloudSessions, Down, MaxMessages, MaxForwards, MaxBreaks, MaxDeletes
VARIABLES cloud, present, synced, mark, conn, line, inbox, worker, refused, deleted,
          forwards, breaks, deletes

bridgeVars == <<cloud, present, synced, mark, conn, line, inbox, worker, refused, deleted,
                forwards, breaks, deletes>>
Cloud == INSTANCE Bridge WITH rows <- synced

CONSTANTS People, Executions, Heart, Titles, Heartbeat, Retries, MaxRuns, MaxSessions,
          MaxCleanings
VARIABLES people, chats, run, children, due, dreams, wikis, cleaning, overlapped,
          created, runs, cleanings

runVars == <<people, chats, run, children, due, dreams, wikis, cleaning, overlapped,
             created, runs, cleanings>>
Job == INSTANCE JobRunner WITH agents <- people, sessions <- chats

-----------------------------------------------------------------------------
partVars == <<part, vars, streamVars, fileVars, diffVars, browserVars, runtimeVars,
              skillVars, bridgeVars, runVars>>

PartsInit ==
  /\ part \in {"stream", "memory", "files", "diff", "browser", "runtime",
              "skills", "bridge", "jobs"}
  /\ Init /\ Stream!Init /\ Files!Init /\ Chrome!Init /\ Runtime!Init
  /\ Skill!Init /\ Cloud!Init /\ Job!Init
  /\ Runs("stream") \/ \A s \in Sessions : streamCall[s].provider = "openai"
  /\ Runs("skills") \/ market = Absent
  /\ Runs("bridge") \/ present = {}
  /\ IF Runs("diff") THEN Diff!Init
     ELSE /\ size = 0 /\ gone = {} /\ added = {} /\ plus = {} /\ crlf = FALSE /\ noEnd = FALSE
          /\ hunks = <<>> /\ onDisk = <<>> /\ applied = 0 /\ lines = <<>> /\ offset = 0 /\ verdict = "done"

PartsNext ==
  /\ UNCHANGED part
  /\ IF Runs("memory")   THEN Next          ELSE UNCHANGED vars
  /\ IF Runs("stream")   THEN Stream!Next   ELSE UNCHANGED streamVars
  /\ IF Runs("files")    THEN Files!Next    ELSE UNCHANGED fileVars
  /\ IF Runs("diff")     THEN Diff!Next     ELSE UNCHANGED diffVars
  /\ IF Runs("browser")  THEN Chrome!Next   ELSE UNCHANGED browserVars
  /\ IF Runs("runtime")  THEN Runtime!Next  ELSE UNCHANGED runtimeVars
  /\ IF Runs("skills")   THEN Skill!Next    ELSE UNCHANGED skillVars
  /\ IF Runs("bridge")   THEN Cloud!Next    ELSE UNCHANGED bridgeVars
  /\ IF Runs("jobs")     THEN Job!Next      ELSE UNCHANGED runVars

PartsSpec == PartsInit /\ [][PartsNext]_partVars

-----------------------------------------------------------------------------
\* What a call returns and the page shows is the answer of its last try, its calls as
\* far as they were received whole.
AnswerIsLastTry == Stream!AnswerIsLastTry

\* What was in a file is in it, in a backup or in the hands of a call; and after a
\* call that succeeded, an edit by the same path is not refused.
EditsAreSafe == Files!EditsAreSafe

\* A plain diff leaves the lines that it says; of newlines it keeps only those between
\* lines, as LF.
PlainDiffsAreApplied == Diff!PlainDiffsAreApplied

\* An action on a reference reaches what the agent saw under it, as long as no element
\* has come or gone since the snapshot, or moved since its place was asked for.
RefsMeanWhatWasSeen == Chrome!RefsMeanWhatWasSeen

\* What is reported as installed is whole, unless an unpacking of Node.js was torn or
\* goes on.
ReportsAreTrue == Runtime!ReportsAreTrue

\* What the next turn would take from the cache lists no skill that has been removed.
UninstalledIsUnseen == Skill!UninstalledIsUnseen

\* A cloud message that later pulls will not fetch is here, was refused or deleted.
SyncSkipsNothing == Cloud!SyncSkipsNothing

\* There is one session for an agent and a title, unless two runs looked at once.
SessionsAreReused == Job!SessionsAreReused
=============================================================================
