----------------------------- MODULE UnifiedDiff -----------------------------
(***************************************************************************)
(* How the tool diff_edit applies a unified diff (apply_unified_diff and   *)
(* parse_hunks in agent/tools/builtin.rs).  The file is 1..size, line k    *)
(* being the number k.  A change removes some of its lines and adds the    *)
(* line -(k + 1) behind line k, 0 standing for the top.  The diff is what  *)
(* `diff` prints of it: hunks with a header, context lines, removed and    *)
(* added lines, each hunk around some of the changes.  A text is a sequence *)
(* of lines, each with the newline behind it; no line is empty, and a file *)
(* has newlines of one kind.                                               *)
(***************************************************************************)
EXTENDS Integers, SequencesExt

CONSTANTS
  MaxSize,   \* how long the file is
  MaxHunks,  \* of how many hunks a diff may be
  Mark       \* "\ No newline at end of file"

VARIABLES
  size, gone, added,  \* the change
  plus,     \* added lines that begin with ++
  crlf,     \* the file's newlines are CRLF
  noEnd,    \* the file does not end with a newline, and the diff says so
  hunks,    \* the diff
  onDisk,   \* what is in the file
  applied,  \* how many of them are applied
  lines,    \* result_lines
  offset,
  verdict   \* "running", "done" or "panic"

input == <<size, gone, added, plus, crlf, noEnd, hunks>>
vars  == <<input, onDisk, applied, lines, offset, verdict>>

Added(k) == -(k + 1)
If(cond, line) == IF cond THEN <<line>> ELSE <<>>

\* A text with these lines, and the lines() of a text.
TextOf(ls, newline, last) ==
  [k \in DOMAIN ls |-> [line |-> ls[k], end |-> IF k < Len(ls) THEN newline ELSE last]]
LinesOf(txt) == [k \in DOMAIN txt |-> txt[k].line]

Newline     == IF crlf THEN "CRLF" ELSE "LF"
LastNewline == IF noEnd THEN "" ELSE Newline

-----------------------------------------------------------------------------
(* What a diff says                                                        *)

\* What the change makes of the file.
Changed ==
  FlattenSeq([i \in 1..(size + 1) |->
    If(i > 1 /\ i - 1 \notin gone, i - 1) \o If(i - 1 \in added, Added(i - 1))])

\* The hunk about lines a to b, none when b = a - 1, with or without the mark
\* behind them.  A header without old lines names the line before.
BodyOf(a, b, gn, ad) ==
  FlattenSeq([i \in 1..(b - a + 2) |->
    If(i > 1, [kind |-> IF a + i - 2 \in gn THEN "-" ELSE " ", text |-> a + i - 2])
    \o If(a + i - 2 \in ad, [kind |-> "+", text |-> Added(a + i - 2)])])

\* What the lines of a hunk leave in the file: those added, but for the
\* dropped ones, and the context.
NewTexts(body, dropped) ==
  FlattenSeq([i \in DOMAIN body |->
    If(body[i].kind # "-" /\ ~ (body[i].kind = "+" /\ body[i].text \in dropped), body[i].text)])

HunkOf(a, b, gn, ad, mark) ==
  LET body == BodyOf(a, b, gn, ad) IN
  [start |-> IF b < a THEN a - 1 ELSE a,
   old   |-> b - a + 1,
   new   |-> Len(NewTexts(body, {})),
   body  |-> body,
   mark  |-> mark]

\* Ways to cut a change into hunks: stretches of lines, in order and apart
\* from each other, that cover what is removed and added.
Covers(cut, gn, ad) ==
  /\ gn \subseteq UNION {cut[i][1]..cut[i][2] : i \in DOMAIN cut}
  /\ ad \subseteq UNION {(cut[i][1] - 1)..cut[i][2] : i \in DOMAIN cut}
  /\ \A i, j \in DOMAIN cut : i < j => cut[i][2] < cut[j][1] - 1
Stretches(n) == {s \in (1..(n + 1)) \X (0..n) : s[2] >= s[1] - 1}
Cuts(n, gn, ad) == {cut \in BoundedSeq(Stretches(n), MaxHunks) : Covers(cut, gn, ad)}
HunksOf(cut) ==
  [i \in DOMAIN cut |-> HunkOf(cut[i][1], cut[i][2], gone, added,
                               noEnd /\ i = Len(cut) /\ cut[i][2] = size)]

-----------------------------------------------------------------------------
(* Applying it                                                             *)

\* parse_hunks: added and context lines are the new lines.  A line that
\* begins with +++ is taken for a header, and the mark for context.
NewLines(h) == NewTexts(h.body, plus) \o If(h.mark, Mark)

Least(a, b) == IF a < b THEN a ELSE b

\* Mutant: later hunks do not move with what earlier ones added.
ForgetOffset ==
  /\ verdict = "running" /\ applied < Len(hunks)
  /\ LET h == hunks[applied + 1]
         start == h.start - 1
         end == Least(start + h.old, Len(lines))
     IN  IF start < 0 \/ start > end
         THEN verdict' = "panic" /\ UNCHANGED <<applied, lines>>
         ELSE /\ lines' = SubSeq(lines, 1, start) \o NewLines(h) \o SubSeq(lines, end + 1, Len(lines))
              /\ applied' = applied + 1
              /\ UNCHANGED verdict
  /\ UNCHANGED <<input, onDisk, offset>>

\* start is the place, from 0, of the first line to remove; a negative one
\* becomes huge as usize, and drain panics.
ApplyHunk ==
  /\ verdict = "running" /\ applied < Len(hunks)
  /\ LET h == hunks[applied + 1]
         start == h.start - 1 + offset
         end == Least(start + h.old, Len(lines))
     IN  IF start < 0 \/ start > end
         THEN verdict' = "panic" /\ UNCHANGED <<applied, lines, offset>>
         ELSE /\ lines' = SubSeq(lines, 1, start) \o NewLines(h) \o SubSeq(lines, end + 1, Len(lines))
              /\ offset' = offset + h.new - h.old
              /\ applied' = applied + 1
              /\ UNCHANGED verdict
  /\ UNCHANGED <<input, onDisk>>

\* The lines are joined with LF, and nothing comes behind the last.
Write ==
  /\ verdict = "running" /\ applied = Len(hunks)
  /\ verdict' = "done"
  /\ onDisk' = TextOf(lines, "LF", "")
  /\ UNCHANGED <<input, applied, lines, offset>>

-----------------------------------------------------------------------------
Init ==
  /\ size \in 0..MaxSize
  /\ gone \in SUBSET (1..size)
  /\ added \in SUBSET (0..size)
  /\ gone \cup added # {}
  /\ plus \in SUBSET {Added(k) : k \in added}
  /\ crlf \in BOOLEAN /\ noEnd \in BOOLEAN
  /\ \E cut \in Cuts(size, gone, added) : hunks = HunksOf(cut)
  /\ applied = 0
  /\ onDisk = TextOf([i \in 1..size |-> i], Newline, LastNewline)
  /\ lines = LinesOf(onDisk)
  /\ offset = 0
  /\ verdict = "running"

Next == ApplyHunk \/ Write

Spec == Init /\ [][Next]_vars

-----------------------------------------------------------------------------
(* Properties                                                              *)

\* The file as the diff has it: the lines that stay and those that come, and
\* newlines as before.
Promised == TextOf(Changed, Newline, LastNewline)

\* A diff whose hunks all name old lines, with no added line that begins with
\* ++ and no mark, is never refused with a panic and leaves the lines that it says, in
\* their order, however it is cut into hunks.  Only when the file's newlines are
\* LF and none is behind its last line is the whole text what the diff says: of
\* any other file, lines() and join lose the newline at the end and the CRs.
Plain == plus = {} /\ \A i \in DOMAIN hunks : hunks[i].old > 0 /\ ~ hunks[i].mark
PlainDiffsAreApplied ==
  /\ verdict = "done" /\ Plain => LinesOf(onDisk) = Changed /\ (noEnd /\ ~ crlf => onDisk = Promised)
  /\ verdict = "panic" => ~ Plain
=============================================================================
