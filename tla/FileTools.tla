------------------------------ MODULE FileTools ------------------------------
(***************************************************************************)
(* The tools that read and change files (agent/tools/builtin.rs) with the  *)
(* layer under them that notes what was read, checks it before an edit and *)
(* keeps backups (agent/file_harness.rs), on one file.  The calls of all   *)
(* agents, sub-agents and jobs run at once; the commands of bash_exec,     *)
(* doc_write, the other tools and the user's editor change the file too.   *)
(*                                                                         *)
(* What a file says is a set of marks, one for every change; a truncated   *)
(* file says nothing.  The notes are kept by path as it is spelt.  Files   *)
(* over 5 MB, which get no backup, directories and refused paths are left  *)
(* out, as is the trimming of the notes at 500.                            *)
(***************************************************************************)
EXTENDS Naturals, FiniteSets

CONSTANTS
  Calls,       \* calls of the tools, each made once
  Spellings,   \* paths that name the file
  Changes,     \* what others write into the file, each once
  First,       \* what the file says at first
  MaxTime,     \* milliseconds
  MaxBackups   \* how many backups fit into 500 MB

Marks == Calls \cup Changes \cup {First}
Editors == {"write", "edit", "diff", "rollback"}
NoText == {<<>>}  \* no note, no backup

VARIABLES
  file,     \* what the file says
  noted,    \* HASH_REGISTRY: what a path is known to say, or NoText
  backups,  \* the backup of each millisecond, or NoText
  now,
  call,     \* pc, op and path, the text it holds, what it may replace
  result,   \* "none", "done", "failed"
  last,     \* who changed the file last: a call, or NoCall
  placed,   \* marks that have been in the file
  excused   \* marks that were lost by others than a write or an edit

vars == <<file, noted, backups, now, call, result, last, placed, excused>>

NoCall == First
Idle == [pc |-> "idle", op |-> "none", path |-> CHOOSE s \in Spellings : TRUE, text |-> {}, base |-> {}]

Is(c, pc) == call[c].pc = pc
Goto(c, pc, text, base) == call' = [call EXCEPT ![c].pc = pc, ![c].text = text, ![c].base = base]
Return(c, r) ==
  /\ call' = [call EXCEPT ![c] = [Idle EXCEPT !.op = call[c].op, !.path = call[c].path]]
  /\ result' = [result EXCEPT ![c] = r]

-----------------------------------------------------------------------------
(* Notes and backups                                                       *)

\* register_read and update_hash
Note(c, text) == noted' = [noted EXCEPT ![call[c].path] = text]

Kept(b) == {t \in 0..MaxTime : b[t] # NoText}
Oldest(b) == CHOOSE t \in Kept(b) : \A u \in Kept(b) : t <= u
Held(b) == UNION {b[t] : t \in Kept(b)}

\* A backup is named by the millisecond and the file name; the oldest go when
\* there are too many.
Copied == [backups EXCEPT ![now] = file]
Trimmed(b) == IF Cardinality(Kept(b)) <= MaxBackups THEN b ELSE [b EXCEPT ![Oldest(b)] = NoText]
\* Mutant: there is no backup.
NoBackup == UNCHANGED <<backups, excused>>

Backup ==
  /\ backups' = Trimmed(Copied)
  /\ excused' = excused \cup (Held(backups) \ Held(backups'))

-----------------------------------------------------------------------------
(* Calls                                                                   *)

Call(c, op, pc) ==
  /\ Is(c, "idle") /\ result[c] = "none"
  /\ \E s \in Spellings :
       call' = [call EXCEPT ![c] = [pc |-> pc, op |-> op, path |-> s, text |-> file, base |-> file]]

\* file_read reads the file, then notes what it read.
FileRead(c) ==
  /\ Call(c, "read", "note")
  /\ UNCHANGED <<file, noted, backups, now, result, last, placed, excused>>

NoteRead(c) ==
  /\ Is(c, "note")
  /\ Note(c, call[c].text)
  /\ Return(c, "done")
  /\ UNCHANGED <<file, backups, now, last, placed, excused>>

\* file_write
FileWrite(c) ==
  /\ Call(c, "write", "begin")
  /\ UNCHANGED <<file, noted, backups, now, result, last, placed, excused>>

BackUpAndWrite(c) ==
  /\ Is(c, "begin")
  /\ Backup
  /\ Goto(c, "truncate", {c}, file)
  /\ UNCHANGED <<file, noted, now, result, last, placed>>

\* file_edit reads the file ...
FileEdit(c) ==
  /\ Call(c, "edit", "check")
  /\ UNCHANGED <<file, noted, backups, now, result, last, placed, excused>>

\* ... refuses it when it is not what is noted, makes a backup of the file as
\* it is now, and looks for the text to replace.
Refuses(c) == noted[call[c].path] \notin {NoText, call[c].text}
CheckEdit(c) ==
  /\ Is(c, "check")
  /\ \/ Refuses(c) /\ Return(c, "failed") /\ UNCHANGED <<backups, excused>>
     \/ /\ ~ Refuses(c)
        /\ Backup
        /\ \/ Goto(c, "truncate", call[c].text \cup {c}, file) /\ UNCHANGED result
           \/ Return(c, "failed")
  /\ UNCHANGED <<file, noted, now, last, placed>>

\* diff_edit neither checks nor notes nor backs up.
DiffEdit(c) ==
  /\ Is(c, "idle") /\ result[c] = "none"
  /\ \E s \in Spellings :
       call' = [call EXCEPT ![c] = [pc |-> "truncate", op |-> "diff", path |-> s,
                                    text |-> file \cup {c}, base |-> file]]
  /\ UNCHANGED <<file, noted, backups, now, result, last, placed, excused>>

\* file_rollback copies a backup over the file, whatever that says.
FileRollback(c) ==
  /\ Is(c, "idle") /\ result[c] = "none"
  /\ \E s \in Spellings, t \in Kept(backups) :
       call' = [call EXCEPT ![c] = [pc |-> "truncate", op |-> "rollback", path |-> s,
                                    text |-> backups[t], base |-> file]]
  /\ excused' = excused \cup file
  /\ UNCHANGED <<file, noted, backups, now, result, last, placed>>

\* A file is written in two steps: it is truncated, then filled.  What came
\* into it since the caller looked is gone.
Truncate(c) ==
  /\ Is(c, "truncate")
  /\ file' = {} /\ last' = NoCall
  /\ excused' = excused \cup (file \ call[c].base)
  /\ Goto(c, "fill", call[c].text, call[c].base)
  /\ UNCHANGED <<noted, backups, now, result, placed>>

Fill(c) ==
  /\ Is(c, "fill")
  /\ file' = call[c].text
  /\ placed' = placed \cup call[c].text
  /\ excused' = excused \cup file
  /\ last' = IF \E d \in Calls \ {c} : ~ Is(d, "idle") THEN NoCall ELSE c
  /\ CASE call[c].op = "write" -> Goto(c, "register", call[c].text, {}) /\ UNCHANGED result
       [] call[c].op = "edit" -> Goto(c, "verify", call[c].text, {}) /\ UNCHANGED result
       [] call[c].op = "rollback" -> Goto(c, "verify", call[c].text, {}) /\ UNCHANGED result
       [] call[c].op \in {"diff", "late"} -> Return(c, "done")
  /\ UNCHANGED <<noted, backups, now>>

\* After an edit the file is read again: the new text must be in it as it was
\* given, which it is not when it was indented anew.  After a rollback what
\* is read is what is noted.
Verify(c) ==
  /\ Is(c, "verify")
  /\ \/ /\ call[c].op = "edit" /\ c \in file
        /\ Goto(c, "register", call[c].text, {}) /\ UNCHANGED result
     \/ call[c].op = "edit" /\ Return(c, "failed")
     \/ /\ call[c].op = "rollback"
        /\ Goto(c, "register", file, {}) /\ UNCHANGED result
  /\ UNCHANGED <<file, noted, backups, now, last, placed, excused>>

UpdateHash(c) ==
  /\ Is(c, "register")
  /\ Note(c, call[c].text)
  /\ Return(c, "done")
  /\ UNCHANGED <<file, backups, now, last, placed, excused>>

\* After 60 s the call is given up.  A write that has begun goes on without it.
TimesOut(c) ==
  /\ ~ Is(c, "idle") /\ call[c].op # "late"
  /\ IF call[c].pc \in {"truncate", "fill"}
     THEN call' = [call EXCEPT ![c].op = "late"] /\ UNCHANGED result
     ELSE Return(c, "failed")
  /\ UNCHANGED <<file, noted, backups, now, last, placed, excused>>

-----------------------------------------------------------------------------
(* The world                                                               *)

\* A command, another tool or the user adds to the file.
Change(m) ==
  /\ m \notin placed
  /\ file' = file \cup {m}
  /\ placed' = placed \cup {m}
  /\ last' = NoCall
  /\ UNCHANGED <<noted, backups, now, call, result, excused>>

Tick ==
  /\ now < MaxTime
  /\ now' = now + 1
  /\ UNCHANGED <<file, noted, backups, call, result, last, placed, excused>>

\* The process ends.  What diff_edit had in hand was nowhere else.
Crash ==
  /\ \E c \in Calls : ~ Is(c, "idle")
  /\ noted' = [s \in Spellings |-> NoText]
  /\ call' = [c \in Calls |-> [Idle EXCEPT !.op = call[c].op]]
  /\ result' = [c \in Calls |-> IF Is(c, "idle") THEN result[c] ELSE "failed"]
  /\ excused' = excused \cup UNION {call[c].base : c \in {d \in Calls : Is(d, "fill") /\ call[d].op \in {"diff", "late"}}}
  /\ last' = NoCall
  /\ UNCHANGED <<file, backups, now, placed>>

-----------------------------------------------------------------------------
Init ==
  /\ file = {First} /\ placed = {First} /\ excused = {}
  /\ noted = [s \in Spellings |-> NoText]
  /\ backups = [t \in 0..MaxTime |-> NoText]
  /\ now = 0
  /\ call = [c \in Calls |-> Idle]
  /\ result = [c \in Calls |-> "none"]
  /\ last = NoCall

Step(c) ==
  \/ FileRead(c) \/ NoteRead(c) \/ FileWrite(c) \/ BackUpAndWrite(c)
  \/ FileEdit(c) \/ CheckEdit(c) \/ DiffEdit(c) \/ FileRollback(c)
  \/ Truncate(c) \/ Fill(c) \/ Verify(c) \/ UpdateHash(c) \/ TimesOut(c)

Next == \/ \E c \in Calls : Step(c)
        \/ \E m \in Changes : Change(m)
        \/ Tick \/ Crash

Spec == Init /\ [][Next]_vars

-----------------------------------------------------------------------------
(* Properties                                                              *)

TypeOK ==
  /\ file \subseteq Marks /\ placed \subseteq Marks /\ excused \subseteq Marks
  /\ noted \in [Spellings -> (SUBSET Marks) \cup {NoText}]
  /\ backups \in [0..MaxTime -> (SUBSET Marks) \cup {NoText}]
  /\ now \in 0..MaxTime
  /\ result \in [Calls -> {"none", "done", "failed"}]

\* What was ever in the file still is, or is in a backup, or in the hands of a
\* call that writes it: a write or an edit that is given up, or that the end
\* of the process cuts off half-way, takes nothing with it.  Meant is not what
\* came into the file while a call was about to write it, what was thrown
\* away with a rollback, what an end in the middle of diff_edit takes, and
\* what two backups of one millisecond or too many backups push out.
InAir == UNION {call[c].base : c \in {d \in Calls : Is(d, "fill")}}
NothingIsOverwritten == placed \subseteq file \cup Held(backups) \cup InAir \cup excused

\* When the last change of the file came from a call that had it for itself
\* and succeeded, by whatever way, the path it used is known to say what the
\* file says, and so the next edit by that path is not refused.  Only
\* diff_edit leaves the old note.
Succeeded(c) == result[c] = "done" /\ call[c].op \in {"write", "edit", "rollback"}
EditsFollowEdits == \A c \in Calls : last = c /\ Succeeded(c) => noted[call[c].path] = file

\* Both, as one: no change is lost, to another call or to the next edit.
EditsAreSafe == NothingIsOverwritten /\ EditsFollowEdits
=============================================================================
