------------------------------- MODULE Skills -------------------------------
(***************************************************************************)
(* One skill: its package in the marketplace (~/.xianzhu/marketplace), its *)
(* directory and its single file under an agent's skills/ (agent/skills.rs,*)
(* handlers/skills.rs, handlers/helpers.rs, the tool skill_manage), its    *)
(* row in installed_skills, and the skills that the orchestrator keeps in  *)
(* memory between turns.                                                   *)
(*                                                                         *)
(* A package is SKILL.md and a script that its tool runs.  The stamp is    *)
(* the newest time of skills/ and of the files *.md right in it; every     *)
(* entry made or removed there advances it, and what happens inside the    *)
(* directory of a skill does not.                                          *)
(***************************************************************************)
EXTENDS Naturals, FiniteSets

CONSTANTS
  SkillCalls,     \* commands and tool calls under way at once
  SkillTurns,     \* turns under way at once
  Absent,
  Nothing,        \* nothing cached
  Bundled,        \* the app ships the package
  MaxSkillCalls, MaxLooks, MaxExits  \* calls, turns and exits of the app

Package == {"md", "script"}
Kinds   == {"page install", "tool install", "page remove", "tool remove",
            "download", "write", "unlink"}

VARIABLES
  market,    \* the files of the package, or Absent
  dir,       \* those of skills/<name>/, or Absent
  single,    \* skills/<name>.md is there
  row,       \* installed_skills: "none", "enabled" or "disabled"
  stamp,
  cache,     \* the skills last seen and their stamp, or Nothing
  job,       \* what each call is doing, and the files it has still to write
  look,      \* what each turn is doing
  seeding,   \* the files the start has still to release, Nothing when it is done
  calls, looks, exits

files == <<market, dir, single, row, stamp>>
hist  == <<calls, looks, exits>>
vars  == <<files, cache, job, look, seeding, hist>>

Up == seeding = Nothing
Idle == [pc |-> "idle", kind |-> "none", todo |-> {}]
At(c, pc) == job[c].pc = pc /\ Up
Goto(c, pc) == job' = [job EXCEPT ![c].pc = pc]
Write(c, pc, todo) == job' = [job EXCEPT ![c].pc = pc, ![c].todo = todo]
Return(c) == job' = [job EXCEPT ![c] = Idle]
ByPage(c) == job[c].kind \in {"page install", "page remove"}

Touch == stamp' = stamp + 1

-----------------------------------------------------------------------------
(* Calls                                                                   *)

\* The tool installs only what is in the marketplace.
Begin(c, k) ==
  /\ At(c, "idle") /\ calls < MaxSkillCalls
  /\ calls' = calls + 1
  /\ LET first == CASE k = "page install" -> IF market = Absent THEN "fetch" ELSE "check"
                    [] k = "tool install" -> IF market = Absent THEN "idle" ELSE "check"
                    [] k \in {"page remove", "tool remove"} -> IF dir = Absent THEN "idle" ELSE "remove"
                    [] k = "download" -> "fetch"
                    [] k = "write" -> "write"
                    [] k = "unlink" -> "unlink"
     IN job' = [job EXCEPT ![c] = IF first = "idle" THEN Idle
                                  ELSE [pc |-> first, kind |-> k, todo |-> {}]]
  /\ UNCHANGED <<files, cache, look, seeding, looks, exits>>

\* download_skill_from_hub_inner: a directory that is there counts as the package.
Continue(c) == IF job[c].kind = "download" THEN Return(c) ELSE Goto(c, "check")

Fetch(c) ==
  /\ At(c, "fetch")
  /\ IF market # Absent THEN Continue(c) ELSE Goto(c, "get")
  /\ UNCHANGED <<files, cache, look, seeding, hist>>

\* The hub answers with a package, or with a description that makes a SKILL.md; or not.
Get(c) ==
  /\ At(c, "get")
  /\ \/ /\ \E got \in {Package, {"md"}} : Write(c, "unpack", got)
        /\ market' = IF market = Absent THEN {} ELSE market
     \/ Return(c) /\ UNCHANGED market
  /\ UNCHANGED <<dir, single, row, stamp, cache, look, seeding, hist>>

Unpack(c) ==
  /\ At(c, "unpack")
  /\ \/ \E f \in job[c].todo :
          market' = market \cup {f} /\ Write(c, "unpack", job[c].todo \ {f})
     \/ job[c].todo = {} /\ Continue(c) /\ UNCHANGED market
     \/ job[c].todo # {} /\ Return(c) /\ UNCHANGED market
  /\ UNCHANGED <<dir, single, row, stamp, cache, look, seeding, hist>>

Check(c) ==
  /\ At(c, "check")
  /\ IF dir # Absent THEN Return(c) ELSE Goto(c, "make")
  /\ UNCHANGED <<files, cache, look, seeding, hist>>

\* copy_dir_recursive makes the directory and reads that of the package.
MakeDir(c) ==
  /\ At(c, "make")
  /\ Write(c, "copy", market)
  /\ IF dir = Absent THEN dir' = {} /\ Touch ELSE UNCHANGED <<dir, stamp>>
  /\ UNCHANGED <<market, single, row, cache, look, seeding, hist>>

\* It stops at the first file that it cannot write, and leaves the others.
Copy(c) ==
  /\ At(c, "copy") /\ job[c].todo # {}
  /\ \/ \E f \in job[c].todo :
          dir # Absent /\ dir' = dir \cup {f} /\ Write(c, "copy", job[c].todo \ {f})
     \/ Return(c) /\ UNCHANGED dir
  /\ UNCHANGED <<market, single, row, stamp, cache, look, seeding, hist>>

Copied(c) ==
  /\ At(c, "copy") /\ job[c].todo = {}
  /\ IF ByPage(c) THEN Goto(c, "dependencies") ELSE Return(c)
  /\ UNCHANGED <<files, cache, look, seeding, hist>>

\* auto_install_skill_deps runs npm, brew, pip or cargo for as long as they take, and
\* what comes of it is only logged.
InstallDeps(c) ==
  /\ At(c, "dependencies")
  /\ Goto(c, "invalidate")
  /\ UNCHANGED <<files, cache, look, seeding, hist>>

\* remove_dir_all takes the files first; it stops at the first error.
Remove(c) ==
  /\ At(c, "remove")
  /\ \/ /\ dir # Absent /\ \E f \in dir : dir' = dir \ {f}
        /\ UNCHANGED <<stamp, job>>
     \/ /\ dir = {} /\ dir' = Absent /\ Touch
        /\ IF ByPage(c) THEN Goto(c, "invalidate") ELSE Return(c)
     \/ Return(c) /\ UNCHANGED <<dir, stamp>>
  /\ UNCHANGED <<market, single, row, cache, look, seeding, hist>>

\* The page's commands drop what is cached when they are done; the tool does not.
Invalidate(c) ==
  /\ At(c, "invalidate")
  /\ cache' = Nothing /\ Return(c)
  /\ UNCHANGED <<files, look, seeding, hist>>

\* install_from_content: the file, then the row.
WriteSingle(c) ==
  /\ At(c, "write")
  /\ single' = TRUE /\ Touch /\ Goto(c, "row")
  /\ UNCHANGED <<market, dir, row, cache, look, seeding, hist>>

\* remove_skill: the file if there is one, then the row.
Unlink(c) ==
  /\ At(c, "unlink")
  /\ single' = FALSE /\ Goto(c, "row")
  /\ IF single THEN Touch ELSE UNCHANGED stamp
  /\ UNCHANGED <<market, dir, row, cache, look, seeding, hist>>

PutRow(c) ==
  /\ At(c, "row") /\ Return(c)
  /\ row' = IF job[c].kind = "write" THEN "enabled" ELSE "none"
  /\ UNCHANGED <<market, dir, single, stamp, cache, look, seeding, hist>>

\* toggle_skill changes the row, which no turn reads.
Toggle ==
  /\ Up /\ calls < MaxSkillCalls
  /\ row # "none" /\ row' = IF row = "enabled" THEN "disabled" ELSE "enabled"
  /\ calls' = calls + 1
  /\ UNCHANGED <<market, dir, single, stamp, cache, job, look, seeding, looks, exits>>

-----------------------------------------------------------------------------
(* Turns: get_skill_manager                                                *)

NoLook == [pc |-> "idle", stamp |-> 0, seen |-> {}]
LookAt(t, pc) == look[t].pc = pc /\ Up

\* scan: a directory without SKILL.md is none, a tool without its script is dropped.
Seen ==
  (IF dir # Absent /\ "md" \in dir THEN {IF "script" \in dir THEN "tool" ELSE "prompt"} ELSE {})
    \cup (IF single THEN {"single"} ELSE {})

ReadStamp(t) ==
  /\ LookAt(t, "idle") /\ looks < MaxLooks
  /\ looks' = looks + 1
  /\ look' = [look EXCEPT ![t] = [pc |-> "look", stamp |-> stamp, seen |-> {}]]
  /\ UNCHANGED <<files, cache, job, seeding, calls, exits>>

\* What is cached under the same stamp is what the turn takes.
LookUp(t) ==
  /\ LookAt(t, "look")
  /\ IF cache # Nothing /\ cache.stamp = look[t].stamp
     THEN look' = [look EXCEPT ![t] = NoLook]
     ELSE look' = [look EXCEPT ![t].pc = "scan"]
  /\ UNCHANGED <<files, cache, job, seeding, hist>>

Scan(t) ==
  /\ LookAt(t, "scan")
  /\ look' = [look EXCEPT ![t].pc = "store", ![t].seen = Seen]
  /\ UNCHANGED <<files, cache, job, seeding, hist>>

\* Mutant: the stamp is taken when the skills are stored.
StoreUnderNew(t) ==
  /\ LookAt(t, "store")
  /\ cache' = [stamp |-> stamp, seen |-> look[t].seen]
  /\ look' = [look EXCEPT ![t] = NoLook]
  /\ UNCHANGED <<files, job, seeding, hist>>

Store(t) ==
  /\ LookAt(t, "store")
  /\ cache' = [stamp |-> look[t].stamp, seen |-> look[t].seen]
  /\ look' = [look EXCEPT ![t] = NoLook]
  /\ UNCHANGED <<files, job, seeding, hist>>

-----------------------------------------------------------------------------
(* The start of the app                                                    *)

\* seed_marketplace_skills releases what is not there, before any call.
Release == IF Bundled /\ market = Absent THEN Package ELSE Nothing

Seed ==
  /\ ~ Up
  /\ \/ /\ seeding # {}
        /\ \E f \in seeding : seeding' = seeding \ {f}
                              /\ market' = (IF market = Absent THEN {} ELSE market) \cup {f}
     \/ seeding' = Nothing /\ UNCHANGED market
  /\ UNCHANGED <<dir, single, row, stamp, cache, job, look, hist>>

Exit ==
  /\ exits < MaxExits /\ exits' = exits + 1
  /\ cache' = Nothing
  /\ job' = [c \in SkillCalls |-> Idle] /\ look' = [t \in SkillTurns |-> NoLook]
  /\ seeding' = Release
  /\ UNCHANGED <<files, calls, looks>>

-----------------------------------------------------------------------------
Init ==
  /\ market \in {Absent, Package} /\ dir = Absent /\ single = FALSE
  /\ row = "none" /\ stamp = 0 /\ cache = Nothing
  /\ job = [c \in SkillCalls |-> Idle] /\ look = [t \in SkillTurns |-> NoLook]
  /\ seeding = Release
  /\ calls = 0 /\ looks = 0 /\ exits = 0

Call(c) ==
  \/ \E k \in Kinds : Begin(c, k)
  \/ Fetch(c) \/ Get(c) \/ Unpack(c) \/ Check(c) \/ MakeDir(c) \/ Copy(c) \/ Copied(c)
  \/ InstallDeps(c)
  \/ Remove(c) \/ Invalidate(c) \/ WriteSingle(c) \/ Unlink(c) \/ PutRow(c)

Look(t) == ReadStamp(t) \/ LookUp(t) \/ Scan(t) \/ Store(t)

Next ==
  \/ \E c \in SkillCalls : Call(c)
  \/ \E t \in SkillTurns : Look(t)
  \/ Toggle \/ Seed \/ Exit

Spec == Init /\ [][Next]_vars

-----------------------------------------------------------------------------
\* What the next turn would take from the cache lists nothing that has been removed,
\* however calls and turns overlap: a removal by the tool does not drop the cache, and
\* a turn may store what it saw before a removal.
UninstalledIsUnseen ==
  cache # Nothing /\ cache.stamp = stamp =>
    /\ cache.seen \cap {"tool", "prompt"} # {} => dir # Absent
    /\ "single" \in cache.seen => single

=============================================================================
