------------------------------ MODULE Runtimes ------------------------------
(***************************************************************************)
(* The programs the app brings along: Node.js, unpacked under              *)
(* ~/.xianzhu/runtime (runtime/node.rs), Python with a virtual environment *)
(* and base packages (agent/python_sandbox.rs), and the admin backend, a   *)
(* child process on a port of its own (backend_manager.rs).                *)
(*                                                                         *)
(* Whether something is installed is asked by the existence of one file,   *)
(* which an unpacking puts down before it has put down the rest.  Copies   *)
(* of Node.js and Python the system has are external.                      *)
(***************************************************************************)
EXTENDS Naturals, FiniteSets

CONSTANTS
  Setups,     \* calls of the command setup_runtime
  Boot,       \* the installation that the start of the backend asks for
  Ports,      \* 3000 to 3010
  Other,      \* a program of somebody else
  Nobody,
  MaxStarts   \* how often the app is started

Installers == Setups \cup {Boot}
Copies     == {"none", "part", "whole"}

VARIABLES
  app,       \* "off", "boot", "up", "leaving" or "left"
  starts,
  node,      \* what there is of Node.js
  zip,       \* its archive is there
  install,   \* what each installer is doing
  said,      \* the success an installer has reported: "none", "true" or "false"
  python, venv, base,  \* what there is of Python, its environment, its packages
  init,      \* what initialize is doing
  initializing,
  torn,      \* copies whose last unpacking failed or was cut off
  port,      \* of this start's backend
  listens,   \* who listens on each port: the backend of a start, Other, Nobody
  backends   \* backends running, by the start they are of

nodeVars   == <<node, zip, install, said>>
pythonVars == <<python, venv, base, init, initializing>>
backVars   == <<port, listens, backends>>
vars       == <<app, starts, nodeVars, pythonVars, torn, backVars>>

Tear(c) == torn' = torn \cup {c}
Mend(c) == torn' = torn \ {c}

-----------------------------------------------------------------------------
(* Node.js                                                                 *)

\* Mutant: the archive will do.
InstalledOrSaved == node # "none" \/ zip

Installed == node # "none"

Runs(i) == IF i = Boot THEN app = "boot" ELSE app \in {"up", "leaving"}
At(i, pc) == install[i] = pc /\ Runs(i)
Goto(i, pc) == install' = [install EXCEPT ![i] = pc]

\* A success is told true from false when no other installer is unpacking and
\* the last unpacking went well.
Unpacking == {i \in Installers : install[i] = "unpack"}
Report(i) ==
  LET calm == Unpacking \ {i} = {} /\ "node" \notin torn' IN
  said' = [said EXCEPT ![i] = IF ~ calm THEN "none" ELSE IF node' = "whole" THEN "true" ELSE "false"]

\* ensure_installed
Ensure(i) ==
  /\ At(i, "idle")
  /\ UNCHANGED <<app, starts, node, zip, pythonVars, torn, backVars>>
  /\ IF Installed THEN Goto(i, "done") /\ Report(i)
     ELSE Goto(i, "download") /\ UNCHANGED said

Download(i) ==
  /\ At(i, "download")
  /\ \/ Goto(i, "saved") /\ zip' = TRUE
     \/ Goto(i, "done") /\ UNCHANGED zip
  /\ UNCHANGED <<app, starts, node, said, pythonVars, torn, backVars>>

\* tar opens the archive, which another installer may have removed.
BeginUnpack(i) ==
  /\ At(i, "saved")
  /\ IF zip THEN Goto(i, "unpack") /\ node' = "part"
     ELSE Goto(i, "done") /\ UNCHANGED node
  /\ UNCHANGED <<app, starts, zip, said, pythonVars, torn, backVars>>

\* The disk is full, or another installer writes the archive anew.
UnpackFails(i) ==
  /\ At(i, "unpack")
  /\ Goto(i, "done") /\ node' = "part" /\ Tear("node")
  /\ UNCHANGED <<app, starts, zip, said, pythonVars, backVars>>

Unpacked(i) ==
  /\ At(i, "unpack")
  /\ node' = IF Unpacking = {i} THEN "whole" ELSE "part"
  /\ zip' = FALSE
  /\ IF Unpacking = {i} THEN Mend("node") ELSE UNCHANGED torn
  /\ Goto(i, "done") /\ Report(i)
  /\ UNCHANGED <<app, starts, pythonVars, backVars>>

\* A user can ask again.
Again(i) ==
  /\ At(i, "done") /\ i \in Setups
  /\ Goto(i, "idle") /\ said' = [said EXCEPT ![i] = "none"]
  /\ UNCHANGED <<app, starts, node, zip, pythonVars, torn, backVars>>

-----------------------------------------------------------------------------
(* Python                                                                  *)

Initialized == venv # "none"
InitAt(pc) == init = pc /\ app = "up"
Step(pc) == init' = pc

\* initialize: an environment that is there is not made again.
Initialize ==
  /\ InitAt("begin")
  /\ IF Initialized THEN Step("packages") /\ UNCHANGED initializing
     ELSE Step("runtime") /\ initializing' = TRUE
  /\ UNCHANGED <<app, starts, nodeVars, python, venv, base, torn, backVars>>

\* setup_standalone_python: neither a failed download nor a failed unpacking
\* ends it.
SetupPython ==
  /\ InitAt("runtime")
  /\ \/ python # "none" /\ Step("find") /\ UNCHANGED python
     \/ python = "none" /\ Step("find") /\ UNCHANGED python
     \/ python = "none" /\ Step("unpack") /\ python' = "part"
  /\ UNCHANGED <<app, starts, nodeVars, venv, base, initializing, torn, backVars>>

UnpackPython ==
  /\ InitAt("unpack")
  /\ Step("find")
  /\ \/ python' = "whole" /\ Mend("python")
     \/ UNCHANGED python /\ Tear("python")
  /\ UNCHANGED <<app, starts, nodeVars, venv, base, initializing, backVars>>

\* find_python: without one, of whatever kind, the flag stays up.
FindPython ==
  /\ InitAt("find")
  /\ \/ Step("venv") /\ venv' = "part"
     \/ python = "none" /\ Step("done") /\ UNCHANGED venv
  /\ UNCHANGED <<app, starts, nodeVars, python, base, initializing, torn, backVars>>

\* A broken Python makes no whole environment.
CreateVenv ==
  /\ InitAt("venv")
  /\ \/ python # "part" /\ venv' = "whole" /\ Step("packages") /\ Mend("venv") /\ UNCHANGED initializing
     \/ Step("done") /\ initializing' = FALSE /\ Tear("venv") /\ UNCHANGED venv
  /\ UNCHANGED <<app, starts, nodeVars, python, base, backVars>>

\* ensure_base_packages: without pip it is an error; pip's own is none.
EnsureBasePackages ==
  /\ InitAt("packages")
  /\ \/ venv = "whole" /\ Step("ready") /\ base' \in {base, TRUE} /\ initializing' = FALSE
     \/ venv = "part" /\ Step("done") /\ UNCHANGED <<base, initializing>>
  /\ UNCHANGED <<app, starts, nodeVars, python, venv, torn, backVars>>

-----------------------------------------------------------------------------
(* The backend                                                             *)

Free == {p \in Ports : listens[p] = Nobody}
FirstOf(s) == CHOOSE p \in s : \A q \in s : p <= q

\* main: the port is chosen, then start begins.  A backend that a killed app
\* has left keeps its port, so that it is only killed when all are taken.
StartApp ==
  /\ app \in {"off", "left"} /\ starts < MaxStarts
  /\ app' = "boot" /\ starts' = starts + 1
  /\ port' = FirstOf(IF Free = {} THEN Ports ELSE Free)
  /\ IF Free # {} THEN UNCHANGED <<listens, backends>>
     ELSE /\ backends' = {}
          /\ listens' = [p \in Ports |-> IF listens[p] = Other THEN Other ELSE Nobody]
  /\ UNCHANGED <<nodeVars, pythonVars, torn>>

\* The process is spawned when Node.js, ours or the system's, has been found.
SpawnBackend ==
  /\ app = "boot" /\ install[Boot] = "done" /\ starts \notin backends /\ port # Nobody
  /\ backends' = backends \cup {starts}
  /\ UNCHANGED <<app, starts, nodeVars, pythonVars, torn, port, listens>>

Listen ==
  /\ starts \in backends /\ port \in Free
  /\ listens' = [listens EXCEPT ![port] = starts]
  /\ UNCHANGED <<app, starts, nodeVars, pythonVars, torn, port, backends>>

\* It ends by itself, and at once when the port is taken.
BackendEnds ==
  /\ \E b \in backends :
       /\ backends' = backends \ {b}
       /\ listens' = [p \in Ports |-> IF listens[p] = b THEN Nobody ELSE listens[p]]
  /\ UNCHANGED <<app, starts, nodeVars, pythonVars, torn, port>>

\* start returns: somebody answers on the port, or ten seconds are over, or
\* there is no Node.js.  The app comes up in any case.
Started ==
  /\ app = "boot" /\ install[Boot] = "done"
  /\ app' = "up" /\ init' = "begin"
  /\ install' = [install EXCEPT ![Boot] = "idle"]
  /\ UNCHANGED <<starts, node, zip, said, python, venv, base, initializing, torn, backVars>>

\* Somebody else takes a port, or gives it back.
TakePort ==
  /\ \E p \in Ports :
       \/ listens[p] = Nobody /\ listens' = [listens EXCEPT ![p] = Other]
       \/ listens[p] = Other /\ listens' = [listens EXCEPT ![p] = Nobody]
  /\ UNCHANGED <<app, starts, nodeVars, pythonVars, torn, port, backends>>

\* stop: SIGTERM, and then a wait that blocks until the process has ended.
\* What would kill it after three seconds is not reached.
Leave ==
  /\ app = "up"
  /\ app' = "leaving"
  /\ UNCHANGED <<starts, nodeVars, pythonVars, torn, backVars>>

Stopped == starts \notin backends

\* What the tasks were doing is cut off.
Cut ==
  /\ install' = [i \in Installers |-> "idle"] /\ said' = [i \in Installers |-> "none"]
  /\ init' = "idle" /\ initializing' = FALSE /\ port' = Nobody
  /\ torn' = torn \cup (IF Unpacking # {} THEN {"node"} ELSE {})
                  \cup (IF init = "unpack" THEN {"python"} ELSE {})
                  \cup (IF init = "venv" THEN {"venv"} ELSE {})
  /\ UNCHANGED <<starts, node, zip, python, venv, base, listens, backends>>

Exit  == app = "leaving" /\ Stopped /\ Cut /\ app' = "left"
Crash == app \notin {"off", "left"} /\ Cut /\ app' = "off"

-----------------------------------------------------------------------------
Init ==
  /\ app = "off" /\ starts = 0
  /\ node = "none" /\ zip = FALSE
  /\ install = [i \in Installers |-> "idle"] /\ said = [i \in Installers |-> "none"]
  /\ python = "none" /\ venv = "none" /\ base = FALSE /\ init = "idle" /\ initializing = FALSE
  /\ torn = {}
  /\ port = Nobody /\ listens = [p \in Ports |-> Nobody] /\ backends = {}

Install(i) == \/ Ensure(i) \/ Download(i) \/ BeginUnpack(i) \/ UnpackFails(i) \/ Unpacked(i) \/ Again(i)
PythonStep == \/ Initialize \/ SetupPython \/ UnpackPython \/ FindPython \/ CreateVenv \/ EnsureBasePackages
BackendStep == \/ StartApp \/ SpawnBackend \/ Listen \/ BackendEnds \/ Started \/ TakePort
               \/ Leave \/ Exit \/ Crash

Next == (\E i \in Installers : Install(i)) \/ PythonStep \/ BackendStep

Spec == Init /\ [][Next]_vars

-----------------------------------------------------------------------------
(* Properties                                                              *)

TypeOK ==
  /\ app \in {"off", "boot", "up", "leaving", "left"} /\ starts \in 0..MaxStarts
  /\ {node, python, venv} \subseteq Copies /\ said \in [Installers -> {"none", "true", "false"}]
  /\ torn \subseteq {"node", "python", "venv"}
  /\ backends \subseteq 1..MaxStarts /\ port \in Ports \cup {Nobody}

\* An installer that reports Node.js as installed tells the truth, unless an
\* unpacking failed, was cut off or is still going on: what another installer
\* or an earlier start left half-way is not taken for an installation.  And
\* Python is reported ready only with an environment that is whole.
ReportsAreTrue ==
  /\ \A i \in Installers : said[i] # "false"
  /\ init = "ready" => venv = "whole"
=============================================================================
