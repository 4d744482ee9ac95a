------------------------------- MODULE Browser -------------------------------
(***************************************************************************)
(* The tool browser_automation: the managed Chrome on its one port, the    *)
(* page of its first tab, and the calls of several agents on it            *)
(* (BrowserTool in agent/tools/builtin.rs, agent/cdp.rs).                  *)
(*                                                                         *)
(* A page is the sequence of its elements in the order of the              *)
(* accessibility tree, and is drawn at the place it has in it, less what   *)
(* the view is shifted by.  A reference axN is the N-th node of whatever   *)
(* snapshot it is looked up in.                                            *)
(* Chrome is external: its own scripts, and people, change the page, open  *)
(* tabs and close it at any time.                                          *)
(***************************************************************************)
EXTENDS Integers, Sequences, FiniteSets, SequencesExt

CONSTANTS
  Agents,
  Elements,   \* what pages are made of
  Label,      \* a node of the overlay that shows the references
  None,
  MaxLength,  \* how long a page is
  MaxShift,   \* how far it is shifted
  MaxCalls    \* how many calls there are

VARIABLES
  chrome,   \* "down", "starting" or "up"
  page,     \* elements of the page in the first tab
  shift,    \* how far scrolling and resizing have moved it in the view
  overlay,  \* labels an agent left in it
  call,     \* what each agent's call is doing
  seen,     \* the snapshot each agent last got
  same,     \* agents since whose snapshot the page has stayed as it is
  settled,  \* agents since whose look at the coordinates nothing has moved
  hit,      \* what each agent's last press wanted and hit
  calls

vars == <<chrome, page, shift, overlay, call, seen, same, settled, hit, calls>>

Idle == [pc |-> "idle", ref |-> 0, node |-> None, at |-> 0]
Is(a, pc) == call[a].pc = pc
Goto(a, pc) == call' = [call EXCEPT ![a].pc = pc]
Return(a) == call' = [call EXCEPT ![a] = Idle]
Begin(a, pc, ref) ==
  /\ Is(a, "idle") /\ calls < MaxCalls
  /\ calls' = calls + 1
  /\ call' = [call EXCEPT ![a] = [Idle EXCEPT !.pc = pc, !.ref = ref]]

Pages == {p \in UNION {[1..n -> Elements] : n \in 0..MaxLength} : IsInjective(p)}
Place(e) == (CHOOSE i \in DOMAIN page : page[i] = e) - shift

\* Mutant: the overlay is the first child.
OverlayFirst == overlay \o page

\* aria_snapshot: the tree in depth-first order; the overlay is the last
\* child of the document.
Tree == page \o overlay

NewPage(p) == page' = p /\ shift' = 0 /\ overlay' = <<>> /\ same' = {} /\ settled' = {}

\* The view moves, and the tree stays as it is.
Moves ==
  /\ shift' \in (0..MaxShift) \ {shift} /\ settled' = {}
  /\ UNCHANGED <<page, overlay, same>>

\* An element comes or goes.
Alters ==
  /\ \/ \E i \in DOMAIN page : page' = RemoveAt(page, i)
     \/ \E i \in 1..(Len(page) + 1), e \in Elements \ Range(page) :
          Len(page) < MaxLength /\ page' = InsertAt(page, i, e)
  /\ same' = {} /\ settled' = {}
  /\ UNCHANGED <<shift, overlay>>

-----------------------------------------------------------------------------
(* Navigation                                                              *)

\* get_or_launch_cdp: when no tab answers, a Chrome is launched.
Navigate(a) ==
  /\ Begin(a, IF chrome = "up" THEN "page" ELSE "launch", 0)
  /\ chrome' = IF chrome = "down" THEN "starting" ELSE chrome
  /\ UNCHANGED <<page, shift, overlay, seen, same, settled, hit>>

\* launch_chrome polls until the port answers.  What it returns is the
\* address of the browser, not of a page.
Launched(a) ==
  /\ Is(a, "launch") /\ chrome = "up"
  /\ Goto(a, "browser")
  /\ UNCHANGED <<chrome, page, shift, overlay, seen, same, settled, hit, calls>>

\* There, Page.enable is an error.
NavigateBrowser(a) ==
  /\ Is(a, "browser")
  /\ Return(a)
  /\ UNCHANGED <<chrome, page, shift, overlay, seen, same, settled, hit, calls>>

NavigatePage(a) ==
  /\ Is(a, "page") /\ chrome = "up"
  /\ \E p \in Pages : NewPage(p)
  /\ Return(a)
  /\ UNCHANGED <<chrome, seen, hit, calls>>

-----------------------------------------------------------------------------
(* Looking                                                                 *)

Snapshot(a) ==
  /\ chrome = "up" /\ Begin(a, "idle", 0)
  /\ seen' = [seen EXCEPT ![a] = Tree]
  /\ same' = same \cup {a}
  /\ UNCHANGED <<chrome, page, shift, overlay, settled, hit>>

\* screenshot_with_labels: what an earlier call left goes, and a label for
\* each node is put on the page ...
ShowLabels(a) ==
  /\ chrome = "up" /\ Tree # <<>>
  /\ Begin(a, "labels", 0)
  /\ overlay' = <<Label>>
  /\ seen' = [seen EXCEPT ![a] = Tree]
  /\ same' = same \cup {a}
  /\ UNCHANGED <<chrome, page, shift, settled, hit>>

\* ... and taken away after the picture.
RemoveLabels(a) ==
  /\ Is(a, "labels")
  /\ overlay' = <<>>
  /\ Return(a)
  /\ UNCHANGED <<chrome, page, shift, seen, same, settled, hit, calls>>

-----------------------------------------------------------------------------
(* Acting on a reference                                                   *)

\* click, double_click and hover look the reference up in a new snapshot ...
ClickRef(a) ==
  /\ chrome = "up"
  /\ \E n \in DOMAIN seen[a] :
       /\ Begin(a, "resolve", n)
       /\ hit' = [hit EXCEPT ![a] = [want |-> seen[a][n], got |-> None, sure |-> a \in same]]
  /\ UNCHANGED <<chrome, page, shift, overlay, seen, same, settled>>

LookUp(a) ==
  /\ Is(a, "resolve")
  /\ IF chrome = "up" /\ call[a].ref \in DOMAIN Tree
     THEN call' = [call EXCEPT ![a].pc = "rect", ![a].node = Tree[call[a].ref]]
     ELSE Return(a)
  /\ UNCHANGED <<chrome, page, shift, overlay, seen, same, settled, hit, calls>>

\* ... ask where the node is; the overlay is drawn but not to be hit ...
ResolveRefCoordinates(a) ==
  /\ Is(a, "rect")
  /\ IF chrome = "up" /\ \E i \in DOMAIN page : page[i] = call[a].node
     THEN /\ call' = [call EXCEPT ![a].pc = "press", ![a].at = Place(call[a].node)]
          /\ settled' = settled \cup {a}
     ELSE Return(a) /\ UNCHANGED settled
  /\ UNCHANGED <<chrome, page, shift, overlay, seen, same, hit, calls>>

\* ... and press there, in the view or outside of it, on what is there by now.
Press(a) ==
  /\ Is(a, "press")
  /\ LET i == call[a].at + shift
     IN  hit' = [hit EXCEPT ![a].got = IF chrome = "up" /\ call[a].at > 0 /\ i \in DOMAIN page
                                      THEN page[i] ELSE None,
                           ![a].sure = @ /\ a \in same \cap settled]
  /\ Return(a)
  /\ UNCHANGED <<chrome, page, shift, overlay, seen, same, settled, calls>>

\* type, check and upload act on the node itself.
FillRef(a) ==
  /\ Is(a, "rect") /\ call[a].node \in Elements
  /\ hit' = [hit EXCEPT ![a].got = IF \E i \in DOMAIN page : page[i] = call[a].node
                                   THEN call[a].node ELSE None,
                        ![a].sure = @ /\ a \in same]
  /\ Return(a)
  /\ UNCHANGED <<chrome, page, shift, overlay, seen, same, settled, calls>>

\* A command has no answer for 15 s, or the whole call none for 60: what it
\* had done stays done.
TimesOut(a) ==
  /\ ~ Is(a, "idle")
  /\ Return(a)
  /\ UNCHANGED <<chrome, page, shift, overlay, seen, same, settled, hit, calls>>

-----------------------------------------------------------------------------
(* Acting on the page                                                      *)

\* scroll, and resize, which lays the page out anew.
Scroll(a) ==
  /\ chrome = "up" /\ Begin(a, "idle", 0)
  /\ Moves
  /\ UNCHANGED <<chrome, seen, hit>>

\* evaluate runs any script; drag, press_key and fill_form make the page's own
\* handlers run.
Evaluate(a) ==
  /\ chrome = "up" /\ Begin(a, "idle", 0)
  /\ Moves \/ Alters
  /\ UNCHANGED <<chrome, seen, hit>>

-----------------------------------------------------------------------------
(* The world                                                               *)

\* Elements come, go and move by themselves, or another tab comes first.
PageChanges ==
  /\ chrome = "up"
  /\ Moves \/ Alters \/ \E p \in Pages \ {page} : NewPage(p)
  /\ UNCHANGED <<chrome, call, seen, hit, calls>>

ChromeStarts ==
  /\ chrome = "starting"
  /\ chrome' = "up" /\ NewPage(<<>>)
  /\ UNCHANGED <<call, seen, hit, calls>>

ChromeEnds ==
  /\ chrome # "down"
  /\ chrome' = "down" /\ NewPage(<<>>)
  /\ UNCHANGED <<call, seen, hit, calls>>

-----------------------------------------------------------------------------
Init ==
  /\ chrome = "down" /\ page = <<>> /\ shift = 0 /\ overlay = <<>>
  /\ same = {} /\ settled = {} /\ calls = 0
  /\ call = [a \in Agents |-> Idle]
  /\ seen = [a \in Agents |-> <<>>]
  /\ hit = [a \in Agents |-> [want |-> None, got |-> None, sure |-> FALSE]]

Act(a) ==
  \/ Navigate(a) \/ Launched(a) \/ NavigateBrowser(a) \/ NavigatePage(a)
  \/ Snapshot(a) \/ ShowLabels(a) \/ RemoveLabels(a)
  \/ ClickRef(a) \/ LookUp(a) \/ ResolveRefCoordinates(a) \/ Press(a) \/ FillRef(a)
  \/ Scroll(a) \/ Evaluate(a) \/ TimesOut(a)

Next == (\E a \in Agents : Act(a)) \/ PageChanges \/ ChromeStarts \/ ChromeEnds

Spec == Init /\ [][Next]_vars

-----------------------------------------------------------------------------
(* Properties                                                              *)

TypeOK ==
  /\ chrome \in {"down", "starting", "up"} /\ page \in Pages /\ overlay \in {<<>>, <<Label>>}
  /\ shift \in 0..MaxShift /\ same \cup settled \subseteq Agents /\ calls \in 0..MaxCalls

\* An action on a reference reaches the element the agent saw under it, or
\* nothing, as long as no element has come or gone since its snapshot and, for
\* one that presses at coordinates, nothing has moved since it asked for them:
\* whatever other agents look at, fill in or scroll before it asks, and whatever
\* labels a call that was given up has left on the page.
RefsMeanWhatWasSeen ==
  \A a \in Agents : hit[a].sure /\ Is(a, "idle") => hit[a].got \in {hit[a].want, None}
=============================================================================
