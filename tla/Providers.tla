----------------------------- MODULE Providers -----------------------------
(***************************************************************************)
(* The list of model providers, one JSON value in the table settings.      *)
(* Every writer reads the whole list, often waits for a token server, and  *)
(* writes the whole list back: the commands of the settings page           *)
(* (handlers/providers.rs), the tool provider_manage (tools/builtin.rs),   *)
(* OAuth logins and the refreshing of their tokens (handlers/oauth.rs,     *)
(* agent/llm.rs), and the import of keys from the environment when the app *)
(* starts (main.rs).  Keys are stored sealed by some and plain by others.  *)
(*                                                                         *)
(* Keys and tokens are numbers, counted as they come into being: number n  *)
(* stands for a typed key, or for the access token and the refresh token   *)
(* of one answer.  Assumed: database calls succeed, the list parses, a     *)
(* login's answer has a refresh token; when a token expires is left open.  *)
(***************************************************************************)
EXTENDS Naturals

CONSTANTS
  Providers,  \* provider ids
  OAuth,      \* those that are logged in to
  Rotating,   \* those of them whose refresh tokens are replaced when used
  Defaults,   \* those a first start creates without a key
  FromEnv,    \* those whose key is in the environment
  Page,       \* the settings page
  Turns,      \* turns of agents, whose tools and requests touch the list
  Logins,     \* login flows
  None,       \* no key, no token
  Absent,     \* no entry
  MaxKeys,    \* how many keys and tokens come into being
  MaxEdits,   \* how often the page or a tool writes without a new key
  MaxExits

ASSUME KindsAssumption  == Rotating \subseteq OAuth /\ OAuth \subseteq Providers
ASSUME StartsAssumption == Defaults \cup FromEnv \subseteq Providers \ OAuth
ASSUME ActorsAssumption == Page \notin Turns \cup Logins /\ Turns \cap Logins = {}
ASSUME BoundsAssumption == MaxKeys \in Nat /\ MaxEdits \in Nat /\ MaxExits \in Nat

EnvKey == 0
Keys   == 0..MaxKeys
Actors == Turns \cup Logins \cup {Page}

VARIABLES
  stored,      \* the list in the table settings
  op,          \* what each actor is doing, with the list it has read
  page,        \* the entries the page shows
  listening,   \* the logins whose callback server waits for the browser
  accepted,    \* the refresh tokens the token server of a provider accepts
  issued,      \* keys and tokens so far
  edits, exits,
  overlapped,  \* whether two actors were ever between reading and writing
  excused      \* providers whose refresh token was lost or undone by then

local == <<op, page, listening>>
vars  == <<stored, op, page, listening, accepted, issued, edits, exits, overlapped, excused>>

-----------------------------------------------------------------------------
(* The list                                                                *)

Entry == [key : Keys \cup {None}, sealed : BOOLEAN, refresh : Keys \cup {None}]
Lists == [Providers -> Entry \cup {Absent}]

ASSUME NoneAssumption == None \notin Keys /\ Absent \notin Entry

Empty == [p \in Providers |-> Absent]
Blank == [key |-> None, sealed |-> FALSE, refresh |-> None]

Has(list, p)   == list[p] # Absent
EntryOf(list, p) == IF Has(list, p) THEN list[p] ELSE Blank
KeyOf(list, p) == EntryOf(list, p).key

\* save_providers: every key is stored sealed, also those of other providers.
Sealed(list) ==
  [p \in Providers |->
     IF KeyOf(list, p) = None THEN list[p] ELSE [list[p] EXCEPT !.sealed = TRUE]]

-----------------------------------------------------------------------------
(* Actors                                                                  *)

Idle == [do |-> "none", pc |-> "idle", prov |-> None, key |-> None,
         form |-> Blank, list |-> Empty]

At(x, pc) == op[x].pc = pc
Return(x) == op' = [op EXCEPT ![x] = Idle]

Between(x) == op[x].pc \in {"ask", "write"}

NoteOverlap(x) == overlapped' = (overlapped \/ \E y \in Actors \ {x} : Between(y))

\* The list is read; k is the key the operation brings, None if it brings none.
Read(x, do, p, k, form, pc) ==
  /\ op' = [op EXCEPT ![x] = [do |-> do, pc |-> pc, prov |-> p, key |-> k,
                              form |-> form, list |-> stored]]
  /\ NoteOverlap(x)

NewKey == issued < MaxKeys /\ issued' = issued + 1 /\ UNCHANGED edits
Edit   == edits < MaxEdits /\ edits' = edits + 1 /\ UNCHANGED issued

-----------------------------------------------------------------------------
(* The settings page                                                       *)

\* The page sends the entry it shows, with a key if the user has typed one.
SaveProvider(p) ==
  /\ At(Page, "idle")
  /\ \/ NewKey /\ Read(Page, "save", p, issued', EntryOf(page, p), "write")
     \/ Edit   /\ Read(Page, "save", p, None, EntryOf(page, p), "write")
  /\ UNCHANGED <<stored, page, listening, accepted, exits, excused>>

DeleteProvider(p) ==
  /\ At(Page, "idle") /\ Has(page, p) /\ Edit
  /\ Read(Page, "delete", p, None, Blank, "write")
  /\ UNCHANGED <<stored, page, listening, accepted, exits, excused>>

\* get_providers: after a save, after a login, or when the page is opened.
Reload ==
  /\ At(Page, "reload") \/ (At(Page, "idle") /\ page # stored)
  /\ page' = stored
  /\ Return(Page)
  /\ UNCHANGED <<stored, listening, accepted, issued, edits, exits, overlapped, excused>>

-----------------------------------------------------------------------------
(* Turns                                                                   *)

\* The tool provider_manage adds a provider or changes it.
ManageProvider(t, p) ==
  /\ At(t, "idle")
  /\ \/ NewKey /\ Read(t, "manage", p, issued', Blank, "write")
     \/ Edit   /\ Read(t, "manage", p, None, Blank, "write")
  /\ UNCHANGED <<stored, page, listening, accepted, exits, excused>>

\* send_message finds the token of a login about to expire: the list is read
\* before the token server is asked.
BeginRefresh(t, p) ==
  /\ At(t, "idle") /\ EntryOf(stored, p).refresh # None
  /\ Read(t, "refresh", p, None, Blank, "ask")
  /\ UNCHANGED <<stored, page, listening, accepted, issued, edits, exits, excused>>

\* The command refresh_oauth_token does the same whether or not the token expires.
RefreshOnCommand(t, p) ==
  /\ At(t, "idle") /\ EntryOf(stored, p).refresh # None
  /\ Read(t, "refresh", p, None, Blank, "ask")
  /\ UNCHANGED <<stored, page, listening, accepted, issued, edits, exits, excused>>

\* The stored key is compared with the one in use, and it is in use unsealed.
Renewable(p) ==
  /\ p \in OAuth \ Rotating
  /\ EntryOf(stored, p).refresh # None
  /\ KeyOf(stored, p) # None /\ ~ stored[p].sealed

\* The request itself finds its token expired: Google's tokens only.
BeginRenewal(t, p) ==
  /\ At(t, "idle") /\ Renewable(p)
  /\ Read(t, "renew", p, None, Blank, "ask")
  /\ UNCHANGED <<stored, page, listening, accepted, issued, edits, exits, excused>>

\* The request is refused with 401: the first login whose key is plain is renewed,
\* be it the one in use or another of Google's.
ForceRenewal(t, p) ==
  /\ At(t, "idle") /\ Renewable(p)
  /\ Read(t, "renew", p, None, Blank, "ask")
  /\ UNCHANGED <<stored, page, listening, accepted, issued, edits, exits, excused>>

-----------------------------------------------------------------------------
(* Logins                                                                  *)

\* OpenAI's logins share one port; a second server cannot bind to it.
SamePort(l, m) == l = m \/ {op[l].prov, op[m].prov} \subseteq Rotating

StartLogin(l, p) ==
  /\ At(l, "idle") /\ p \in OAuth
  /\ op' = [op EXCEPT ![l] = [Idle EXCEPT !.do = "login", !.pc = "browser", !.prov = p]]
  /\ listening' = IF p \in Rotating /\ \E m \in listening : op[m].prov \in Rotating
                    THEN listening ELSE listening \cup {l}
  /\ UNCHANGED <<stored, page, accepted, issued, edits, exits, overlapped, excused>>

\* The browser comes back with the code.  The server that takes the request,
\* perhaps that of another login, serves no second one.
Callback(l) ==
  /\ At(l, "browser")
  /\ \E m \in listening : SamePort(l, m) /\ listening' = listening \ {m}
  /\ op' = [op EXCEPT ![l].pc = "exchange"]
  /\ UNCHANGED <<stored, page, accepted, issued, edits, exits, overlapped, excused>>

\* The user gives up, something else calls the server, or two minutes pass.
StopListening(l) ==
  /\ At(l, "browser")
  /\ listening' = listening \ {l}
  /\ Return(l)
  /\ UNCHANGED <<stored, page, accepted, issued, edits, exits, overlapped, excused>>

\* The code buys the tokens.
Exchange(l) ==
  /\ At(l, "exchange") /\ NewKey
  /\ accepted' = [accepted EXCEPT ![op[l].prov] = @ \cup {issued'}]
  /\ op' = [op EXCEPT ![l].pc = IF op[l].prov \in Rotating THEN "read" ELSE "project",
                      ![l].key = issued']
  /\ UNCHANGED <<stored, page, listening, exits, overlapped, excused>>

\* Google is asked for the project, at two hosts one after the other; whatever they
\* answer, the login goes on.
DiscoverProject(l) ==
  /\ At(l, "project")
  /\ op' = [op EXCEPT ![l].pc = "read"]
  /\ UNCHANGED <<stored, page, listening, accepted, issued, edits, exits, overlapped, excused>>

ExchangeFails(l) ==
  /\ At(l, "exchange")
  /\ Return(l)
  /\ UNCHANGED <<stored, page, listening, accepted, issued, edits, exits, overlapped, excused>>

ReadForLogin(l) ==
  /\ At(l, "read")
  /\ Read(l, "login", op[l].prov, op[l].key, Blank, "write")
  /\ UNCHANGED <<stored, page, listening, accepted, issued, edits, exits, excused>>

-----------------------------------------------------------------------------
(* The token server                                                        *)

Presented(t) == op[t].list[op[t].prov].refresh

\* A provider that replaces refresh tokens takes the old one back.
Renewed(p, r, n) == IF p \in Rotating THEN (accepted[p] \ {r}) \cup {n} ELSE accepted[p]

Answer(t) ==
  /\ At(t, "ask") /\ Presented(t) \in accepted[op[t].prov] /\ NewKey
  /\ accepted' = [accepted EXCEPT ![op[t].prov] = Renewed(op[t].prov, Presented(t), issued')]
  /\ op' = [op EXCEPT ![t].pc = "write", ![t].key = issued']
  /\ UNCHANGED <<stored, page, listening, exits, overlapped, excused>>

\* The server answers, but the answer does not arrive.
LoseAnswer(t) ==
  /\ At(t, "ask") /\ Presented(t) \in accepted[op[t].prov] /\ NewKey
  /\ accepted' = [accepted EXCEPT ![op[t].prov] = Renewed(op[t].prov, Presented(t), issued')]
  /\ excused' = excused \cup ({op[t].prov} \cap Rotating)
  /\ Return(t)
  /\ UNCHANGED <<stored, page, listening, exits, overlapped>>

\* The request fails or is refused: the turn goes on with the old token.
AskFails(t) ==
  /\ At(t, "ask")
  /\ Return(t)
  /\ UNCHANGED <<stored, page, listening, accepted, issued, edits, exits, overlapped, excused>>

-----------------------------------------------------------------------------
(* Writing the list                                                        *)

\* Mutant: the entry of the page replaces the old one, key and all.
SavedBlank(e, x) == [op[x].form EXCEPT !.key = op[x].key]

\* An entry without a key keeps the old key.
Saved(e, x) == [op[x].form EXCEPT !.key = IF op[x].key = None THEN e.key ELSE op[x].key]

\* A key from the tool is stored as it is.
Managed(e, x) ==
  IF op[x].key = None THEN e ELSE [e EXCEPT !.key = op[x].key, !.sealed = FALSE]

\* Mutant: the answer's refresh token is not kept.
RefreshedKeyOnly(e, x) == [e EXCEPT !.key = op[x].key]

Refreshed(e, x) ==
  [e EXCEPT !.key = op[x].key,
            !.refresh = IF op[x].prov \in Rotating THEN op[x].key ELSE @]

ReplyOf(e, x) ==
  CASE op[x].do = "save"    -> Saved(e, x)
    [] op[x].do = "delete"  -> Absent
    [] op[x].do = "manage"  -> Managed(e, x)
    [] op[x].do = "refresh" -> Refreshed(e, x)
    [] op[x].do = "renew"   -> [e EXCEPT !.key = op[x].key, !.sealed = FALSE]
    [] op[x].do = "login"   -> [key |-> op[x].key, sealed |-> FALSE, refresh |-> op[x].key]

Seals(x) == op[x].do \in {"save", "delete", "refresh"}

Write(x) ==
  LET p       == op[x].prov
      changed == [op[x].list EXCEPT ![p] = ReplyOf(EntryOf(op[x].list, p), x)]
  IN
  /\ At(x, "write")
  /\ stored' = IF Seals(x) THEN Sealed(changed) ELSE changed
  /\ op' = [op EXCEPT ![x] = IF x = Page THEN [Idle EXCEPT !.pc = "reload"] ELSE Idle]
  /\ excused' =
       IF op[x].do = "login" THEN excused \ {p}
       ELSE IF op[x].do = "save" /\ op[x].form.refresh # EntryOf(op[x].list, p).refresh
              THEN excused \cup {p} ELSE excused
  /\ UNCHANGED <<page, listening, accepted, issued, edits, exits, overlapped>>

-----------------------------------------------------------------------------
(* The start of the app                                                    *)

Imported(list) ==
  [p \in Providers |->
     IF p \in FromEnv /\ KeyOf(list, p) = None
       THEN [EntryOf(list, p) EXCEPT !.key = EnvKey] ELSE list[p]]

WithDefaults(list) ==
  IF list = Empty THEN [p \in Providers |-> IF p \in Defaults THEN Blank ELSE Absent]
                  ELSE list

Booted(list) == Sealed(WithDefaults(Imported(list)))

\* Answers that were not written yet are lost with the process.
Restart ==
  /\ exits < MaxExits /\ exits' = exits + 1
  /\ stored' = Booted(stored)
  /\ op' = [x \in Actors |-> Idle]
  /\ page' = Empty
  /\ listening' = {}
  /\ excused' = excused \cup {p \in Rotating : \E t \in Turns : At(t, "write") /\ op[t].prov = p}
  /\ UNCHANGED <<accepted, issued, edits, overlapped>>

-----------------------------------------------------------------------------

Init ==
  /\ stored = Booted(Empty)
  /\ op = [x \in Actors |-> Idle]
  /\ page = Empty
  /\ listening = {}
  /\ accepted = [p \in Providers |-> {}]
  /\ issued = 0 /\ edits = 0 /\ exits = 0
  /\ overlapped = FALSE
  /\ excused = {}

TurnStep(t) ==
  \/ \E p \in Providers : ManageProvider(t, p) \/ BeginRefresh(t, p) \/ RefreshOnCommand(t, p)
                         \/ BeginRenewal(t, p) \/ ForceRenewal(t, p)
  \/ Answer(t) \/ LoseAnswer(t) \/ AskFails(t)

LoginStep(l) ==
  \/ \E p \in Providers : StartLogin(l, p)
  \/ Callback(l) \/ StopListening(l) \/ Exchange(l) \/ ExchangeFails(l) \/ DiscoverProject(l)
  \/ ReadForLogin(l)

Next ==
  \/ \E p \in Providers : SaveProvider(p) \/ DeleteProvider(p)
  \/ Reload
  \/ \E t \in Turns : TurnStep(t)
  \/ \E l \in Logins : LoginStep(l)
  \/ \E x \in Actors : Write(x)
  \/ Restart

Spec == Init /\ [][Next]_vars

-----------------------------------------------------------------------------
(* Properties                                                              *)

TypeOK ==
  /\ stored \in Lists /\ page \in Lists
  /\ \A x \in Actors : op[x].list \in Lists /\ op[x].key \in Keys \cup {None}
  /\ listening \subseteq Logins
  /\ accepted \in [Providers -> SUBSET Keys]
  /\ issued \in 0..MaxKeys /\ edits \in 0..MaxEdits /\ exits \in 0..MaxExits
  /\ overlapped \in BOOLEAN /\ excused \subseteq Providers

\* As long as no two actors were between reading and writing at a time, a key
\* changes only when an operation on its provider writes the key it brought or
\* deletes the provider: sealing, merging, restarts and the operations on
\* other providers leave it.
NoKeyIsLost ==
  [][\A p \in Providers :
       KeyOf(stored, p) # None /\ KeyOf(stored, p)' # KeyOf(stored, p)
         => \/ overlapped
            \/ \E x \in Actors :
                 /\ At(x, "write") /\ op[x].prov = p
                 /\ op[x].do = "delete" \/ (op[x].key # None /\ KeyOf(stored, p)' = op[x].key)]_vars

Awaited(p) == \E t \in Turns : At(t, "write") /\ op[t].prov = p

\* A stored refresh token is one that the provider still accepts, unless the
\* answer that replaces it is about to be written, an answer was lost, the
\* page has written an entry it loaded before a refresh, or two actors have
\* overlapped.  Otherwise the login would have to be repeated.
RefreshTokensWork ==
  \A p \in Providers \ excused :
    EntryOf(stored, p).refresh # None /\ ~ overlapped /\ ~ Awaited(p)
      => stored[p].refresh \in accepted[p]
=============================================================================
