--------------------------- MODULE ProvidersProofs ---------------------------
(***************************************************************************)
(* What concerns the model providers, for any values of the constants.     *)
(*                                                                         *)
(* The list of them: a stored refresh token is accepted and no key is      *)
(* lost, for any providers, turns, logins, keys and restarts, as long as   *)
(* no two actors were between reading and writing the list at a time.      *)
(* Then the list that an actor writes back is the stored one but for one   *)
(* entry, and what it brings was issued to nobody else.                    *)
(*                                                                         *)
(* The requests sent to them: each is one that its provider takes, and     *)
(* shows the calls their own results.                                      *)
(***************************************************************************)
EXTENDS MCProviders, TLAPS, SequenceTheorems, FiniteSetTheorems, WellFoundedInduction

-----------------------------------------------------------------------------
(* The list                                                                *)

RefreshOf(list, p) == EntryOf(list, p).refresh

LEMMA EntryTypes ==
  ASSUME NEW list \in Lists, NEW p \in Providers
  PROVE  EntryOf(list, p) \in Entry /\ KeyOf(list, p) \in Keys \cup {None}
         /\ RefreshOf(list, p) \in Keys \cup {None}
<1>1. Blank \in Entry
  BY DEF Blank, Entry
<1>2. EntryOf(list, p) \in Entry
  BY <1>1 DEF EntryOf, Has, Lists
<1> QED BY <1>2 DEF KeyOf, RefreshOf, Entry

\* A new entry is what is read of it then.
LEMMA ChangedEntry ==
  ASSUME NEW list \in Lists, NEW p \in Providers, NEW e \in Entry \cup {Absent}
  PROVE  LET l == [list EXCEPT ![p] = e] IN
         /\ l \in Lists
         /\ \A q \in Providers \ {p} : KeyOf(l, q) = KeyOf(list, q) /\ RefreshOf(l, q) = RefreshOf(list, q)
         /\ e = Absent => KeyOf(l, p) = None /\ RefreshOf(l, p) = None
         /\ e # Absent => KeyOf(l, p) = e.key /\ RefreshOf(l, p) = e.refresh
<1> DEFINE l == [list EXCEPT ![p] = e]
<1>1. l \in Lists /\ l[p] = e /\ \A q \in Providers \ {p} : l[q] = list[q]
  BY DEF Lists
<1> HIDE DEF l
<1>2. \A q \in Providers \ {p} : KeyOf(l, q) = KeyOf(list, q) /\ RefreshOf(l, q) = RefreshOf(list, q)
  BY <1>1 DEF KeyOf, RefreshOf, EntryOf, Has
<1>3. e = Absent => KeyOf(l, p) = None /\ RefreshOf(l, p) = None
  BY <1>1 DEF KeyOf, RefreshOf, EntryOf, Has, Blank
<1>4. e # Absent => KeyOf(l, p) = e.key /\ RefreshOf(l, p) = e.refresh
  BY <1>1 DEF KeyOf, RefreshOf, EntryOf, Has
<1> QED BY <1>1, <1>2, <1>3, <1>4 DEF l

LEMMA SealedEntries ==
  ASSUME NEW list \in Lists
  PROVE  /\ Sealed(list) \in Lists
         /\ \A p \in Providers : /\ KeyOf(Sealed(list), p) = KeyOf(list, p)
                                 /\ RefreshOf(Sealed(list), p) = RefreshOf(list, p)
<1> SUFFICES ASSUME NEW p \in Providers
             PROVE  /\ Sealed(list)[p] \in Entry \cup {Absent}
                    /\ KeyOf(Sealed(list), p) = KeyOf(list, p)
                    /\ RefreshOf(Sealed(list), p) = RefreshOf(list, p)
  BY DEF Lists, Sealed
<1>1. CASE KeyOf(list, p) = None
  <2>1. Sealed(list)[p] = list[p]
    BY <1>1 DEF Sealed
  <2> QED BY <2>1 DEF Lists, KeyOf, RefreshOf, EntryOf, Has
<1>2. CASE KeyOf(list, p) # None
  <2>1. list[p] # Absent /\ list[p] \in Entry
    BY <1>2 DEF KeyOf, EntryOf, Has, Blank, Lists
  <2> DEFINE e == [list[p] EXCEPT !.sealed = TRUE]
  <2>2. e \in Entry /\ e.key = list[p].key /\ e.refresh = list[p].refresh
    BY <2>1 DEF Entry
  <2>3. Sealed(list)[p] = e
    BY <1>2 DEF Sealed
  <2> HIDE DEF e
  <2>4. e # Absent
    BY <2>2, NoneAssumption
  <2> QED BY <2>1, <2>2, <2>3, <2>4 DEF KeyOf, RefreshOf, EntryOf, Has
<1> QED BY <1>1, <1>2

\* A start gives keys to entries without one, and leaves the tokens.
LEMMA BootedEntries ==
  ASSUME NEW list \in Lists
  PROVE  /\ Booted(list) \in Lists
         /\ \A p \in Providers : /\ KeyOf(list, p) # None => KeyOf(Booted(list), p) = KeyOf(list, p)
                                 /\ RefreshOf(Booted(list), p) = RefreshOf(list, p)
<1> DEFINE i == Imported(list)
           w == WithDefaults(i)
<1>1. /\ i \in Lists
      /\ \A p \in Providers : /\ KeyOf(list, p) # None => KeyOf(i, p) = KeyOf(list, p)
                              /\ RefreshOf(i, p) = RefreshOf(list, p)
  <2> SUFFICES ASSUME NEW p \in Providers
               PROVE  /\ i[p] \in Entry \cup {Absent}
                      /\ KeyOf(list, p) # None => KeyOf(i, p) = KeyOf(list, p)
                      /\ RefreshOf(i, p) = RefreshOf(list, p)
    BY DEF Lists, Imported
  <2>1. CASE ~ (p \in FromEnv /\ KeyOf(list, p) = None)
    <3>1. i[p] = list[p]
      BY <2>1 DEF Imported
    <3> QED BY <3>1 DEF Lists, KeyOf, RefreshOf, EntryOf, Has
  <2>2. CASE p \in FromEnv /\ KeyOf(list, p) = None
    <3> DEFINE e == [EntryOf(list, p) EXCEPT !.key = EnvKey]
    <3>1. e \in Entry /\ e.refresh = RefreshOf(list, p)
      BY EntryTypes, BoundsAssumption DEF Entry, EnvKey, Keys, RefreshOf
    <3>2. i[p] = e
      BY <2>2 DEF Imported
    <3> HIDE DEF e
    <3>3. e # Absent
      BY <3>1, NoneAssumption
    <3> QED BY <2>2, <3>1, <3>2, <3>3 DEF RefreshOf, EntryOf, Has
  <2> QED BY <2>1, <2>2
<1> HIDE DEF i
<1>2. /\ w \in Lists
      /\ \A p \in Providers : /\ KeyOf(i, p) # None => KeyOf(w, p) = KeyOf(i, p)
                              /\ RefreshOf(w, p) = RefreshOf(i, p)
  <2>1. CASE i = Empty
    <3>1. w = [p \in Providers |-> IF p \in Defaults THEN Blank ELSE Absent]
      BY <2>1 DEF WithDefaults
    <3>2. w \in Lists
      BY <3>1 DEF Lists, Blank, Entry
    <3> QED BY <2>1, <3>1, <3>2 DEF KeyOf, RefreshOf, EntryOf, Has, Empty, Blank
  <2>2. CASE i # Empty
    BY <1>1, <2>2 DEF WithDefaults
  <2> QED BY <2>1, <2>2
<1> HIDE DEF w
<1>3. Booted(list) = Sealed(w)
  BY DEF Booted, w, i
<1> QED BY <1>1, <1>2, <1>3, SealedEntries

-----------------------------------------------------------------------------
(* The invariant                                                           *)

OpTypes ==
  [do : {"none", "save", "delete", "manage", "refresh", "renew", "login"},
   pc : {"idle", "reload", "browser", "exchange", "project", "read", "ask", "write"},
   prov : Providers \cup {None}, key : Keys \cup {None}, form : Entry, list : Lists]

ProvTypeOK ==
  /\ stored \in Lists /\ page \in Lists
  /\ op \in [Actors -> OpTypes]
  /\ accepted \in [Providers -> SUBSET Keys]
  /\ issued \in 0..MaxKeys

\* Unless actors have overlapped, one at a time has read the list, as it is stored.
OneAtATime ==
  ~ overlapped => \A x \in Actors : Between(x) =>
    op[x].list = stored /\ \A y \in Actors : Between(y) => y = x

Asks(x)   == op[x].pc = "ask"
Writes(x) == op[x].pc = "write"

\* A login that has its tokens and has not written them.
Tokened(x) == op[x].pc \in {"project", "read"} \/ (Writes(x) /\ op[x].do = "login")

\* What the operations are that ask and write, and whose they are.
DoInv == \A x \in Actors :
  /\ op[x].pc \in {"browser", "exchange", "project", "read", "ask", "write"} => op[x].prov \in Providers
  /\ Asks(x) => /\ x \in Turns
                /\ op[x].do = "refresh" \/ (op[x].do = "renew" /\ op[x].prov \notin Rotating)
                /\ RefreshOf(op[x].list, op[x].prov) # None
  /\ Tokened(x) => op[x].key # None
  /\ Writes(x) => /\ op[x].do \in {"refresh", "renew"} => op[x].key # None
                  /\ op[x].do = "renew" => op[x].prov \notin Rotating
                  /\ op[x].do = "refresh" => x \in Turns
                  /\ op[x].do # "none"

\* All keys and tokens have been issued.
Given == 0..issued \cup {None}

GivenInv ==
  /\ \A p \in Providers : /\ RefreshOf(stored, p) \in Given /\ RefreshOf(page, p) \in Given
                          /\ accepted[p] \subseteq 0..issued
  /\ \A x \in Actors : /\ op[x].key \in Given /\ op[x].form.refresh \in Given
                       /\ \A p \in Providers : RefreshOf(op[x].list, p) \in Given

\* Nobody else has the tokens of a login before it writes them, and they are good.
LoginInv ==
  ~ overlapped => \A l \in Actors : Tokened(l) =>
    /\ op[l].key \in accepted[op[l].prov]
    /\ \A p \in Providers : RefreshOf(stored, p) # op[l].key /\ RefreshOf(page, p) # op[l].key
    /\ \A x \in Actors : op[x].form.refresh # op[l].key /\ (x # l => op[x].key # op[l].key)

Replaces(t, p) == Writes(t) /\ op[t].do = "refresh" /\ op[t].prov = p /\ p \in Rotating

\* The token that replaces a refresh token is good, and so is the stored one otherwise.
AnswerInv ==
  ~ overlapped => \A t \in Turns, p \in Providers : Replaces(t, p) => op[t].key \in accepted[p]

RefreshInv ==
  ~ overlapped => \A p \in Providers \ excused :
    RefreshOf(stored, p) # None =>
      RefreshOf(stored, p) \in accepted[p] \/ \E t \in Turns : Replaces(t, p)

ProvInv ==
  ProvTypeOK /\ OneAtATime /\ DoInv /\ GivenInv /\ LoginInv /\ AnswerInv /\ RefreshInv

LEMMA IdleTypes == /\ Idle \in OpTypes /\ Idle.pc = "idle" /\ Idle.key = None /\ Idle.form = Blank
                   /\ Idle.list = Empty /\ Blank.refresh = None /\ Empty \in Lists
                   /\ \A p \in Providers : KeyOf(Empty, p) = None /\ RefreshOf(Empty, p) = None
<1>1. Blank \in Entry /\ Blank.refresh = None /\ Blank.key = None
  BY DEF Blank, Entry
<1>2. Empty \in Lists
  BY DEF Empty, Lists
<1>3. Idle \in OpTypes /\ Idle.pc = "idle" /\ Idle.key = None /\ Idle.form = Blank
      /\ Idle.list = Empty
  BY <1>1, <1>2 DEF Idle, OpTypes
<1>4. \A p \in Providers : KeyOf(Empty, p) = None /\ RefreshOf(Empty, p) = None
  BY <1>1 DEF Empty, KeyOf, RefreshOf, EntryOf, Has
<1> QED BY <1>1, <1>2, <1>3, <1>4

LEMMA ProvInit == Init => ProvInv
<1> SUFFICES ASSUME Init PROVE ProvInv
  OBVIOUS
<1>1. /\ stored = Booted(Empty) /\ op = [x \in Actors |-> Idle] /\ page = Empty
      /\ accepted = [p \in Providers |-> {}] /\ issued = 0 /\ overlapped = FALSE
  BY DEF Init
<1>2. stored \in Lists /\ \A p \in Providers : RefreshOf(stored, p) = None
  BY <1>1, IdleTypes, BootedEntries
<1>3. ProvTypeOK
  BY <1>1, <1>2, IdleTypes, BoundsAssumption DEF ProvTypeOK
<1>4. OneAtATime /\ DoInv /\ LoginInv /\ AnswerInv
  BY <1>1, IdleTypes, ActorsAssumption
     DEF OneAtATime, DoInv, LoginInv, AnswerInv, Between, Asks, Writes, Tokened, Replaces, Actors
<1>5. GivenInv /\ RefreshInv
  BY <1>1, <1>2, IdleTypes DEF GivenInv, RefreshInv, Given
<1> QED BY <1>3, <1>4, <1>5 DEF ProvInv

\* An operation reads the list.  It brings nothing, a new key, or the tokens of a login.
LEMMA ReadStep ==
  ASSUME ProvInv, NEW x \in Actors, NEW p \in Providers, NEW k \in Keys \cup {None},
         NEW do \in {"save", "delete", "manage", "refresh", "renew", "login"},
         NEW form \in {Blank, EntryOf(page, p)}, NEW to \in {"ask", "write"},
         Read(x, do, p, k, form, to), UNCHANGED <<stored, page, accepted, excused>>,
         op[x].pc \in {"idle", "read"}, issued' \in 0..MaxKeys, issued <= issued',
         \/ k = None /\ do # "login"
         \/ k = issued' /\ issued' = issued + 1 /\ do # "login"
         \/ k = op[x].key /\ do = "login" /\ p = op[x].prov /\ op[x].pc = "read",
         to = "ask" => /\ x \in Turns /\ RefreshOf(stored, p) # None
                       /\ do = "refresh" \/ (do = "renew" /\ p \notin Rotating),
         to = "write" => do \notin {"refresh", "renew"}
  PROVE  ProvInv'
<1> DEFINE v == [do |-> do, pc |-> to, prov |-> p, key |-> k, form |-> form, list |-> stored]
<1>1. form \in Entry /\ form.refresh \in {None, RefreshOf(page, p)}
  BY EntryTypes, IdleTypes DEF ProvInv, ProvTypeOK, RefreshOf, OpTypes
<1>2. /\ v \in OpTypes /\ v.do = do /\ v.pc = to /\ v.prov = p /\ v.key = k /\ v.form = form
      /\ v.list = stored
  BY <1>1 DEF OpTypes, ProvInv, ProvTypeOK
<1>3. op' = [op EXCEPT ![x] = v]
  BY DEF Read
<1>4. ~ overlapped' => ~ overlapped /\ \A y \in Actors \ {x} : ~ Between(y)
  BY DEF Read, NoteOverlap
<1> HIDE DEF v
<1>5. /\ op'[x] = v /\ \A y \in Actors \ {x} : op'[y] = op[y]
      /\ ProvTypeOK'
  BY <1>2, <1>3 DEF ProvInv, ProvTypeOK
<1>6. OneAtATime'
  BY <1>2, <1>4, <1>5 DEF ProvInv, OneAtATime, Between
<1>7. DoInv'
  BY <1>2, <1>5 DEF ProvInv, DoInv, Asks, Writes, Tokened
<1>8. GivenInv'
  <2>1. k \in Given' /\ form.refresh \in Given'
    BY <1>1 DEF ProvInv, ProvTypeOK, GivenInv, Given
  <2>2. Given \subseteq Given' /\ 0..issued \subseteq 0..issued'
    BY DEF Given, ProvInv, ProvTypeOK
  <2> QED BY <1>2, <1>5, <2>1, <2>2 DEF ProvInv, GivenInv, RefreshOf, KeyOf, EntryOf, Has
<1>9. LoginInv'
  <2> SUFFICES ASSUME ~ overlapped', NEW l \in Actors, Tokened(l)'
               PROVE  /\ op'[l].key \in accepted'[op'[l].prov]
                      /\ \A q \in Providers : RefreshOf(stored', q) # op'[l].key /\ RefreshOf(page', q) # op'[l].key
                      /\ \A y \in Actors : op'[y].form.refresh # op'[l].key /\ (y # l => op'[y].key # op'[l].key)
    BY DEF LoginInv, RefreshOf, EntryOf, Has
  <2>1. Tokened(l) /\ op'[l].key = op[l].key /\ op'[l].prov = op[l].prov
    BY <1>2, <1>5 DEF Tokened, Writes
  <2>2. op[l].key # None /\ op[l].key \in 0..issued
    BY <2>1 DEF ProvInv, DoInv, GivenInv, Given
  <2>3. form.refresh # op[l].key
    BY <1>1, <1>4, <2>1, <2>2 DEF ProvInv, LoginInv
  <2>4. x # l => k # op[l].key
    BY <1>4, <2>1, <2>2 DEF ProvInv, ProvTypeOK, LoginInv
  <2> QED BY <1>2, <1>4, <1>5, <2>1, <2>3, <2>4 DEF ProvInv, LoginInv
<1>10. \A t \in Turns, q \in Providers : Replaces(t, q)' <=> Replaces(t, q)
  BY <1>2, <1>5 DEF Replaces, Writes, Actors
<1>11. AnswerInv' /\ RefreshInv'
  <2>1. \A t \in Turns, q \in Providers : Replaces(t, q) => op'[t] = op[t]
    BY <1>5 DEF Replaces, Writes, Actors
  <2> QED BY <1>4, <1>10, <2>1 DEF ProvInv, AnswerInv, RefreshInv
<1> QED BY <1>5, <1>6, <1>7, <1>8, <1>9, <1>11 DEF ProvInv

\* An actor goes on without the list, or gives up.
LEMMA LocalStep ==
  ASSUME ProvInv, NEW x \in Actors, NEW v \in OpTypes, op' = [op EXCEPT ![x] = v],
         ~ Writes(x), v.pc \notin {"ask", "write"}, v.form \in {op[x].form, Blank},
         v.list \in {op[x].list, Empty},
         v.key = None \/ (v.key = op[x].key /\ v.prov = op[x].prov),
         v.pc \in {"project", "read"} => Tokened(x) /\ v.key = op[x].key /\ v.prov = op[x].prov,
         v.pc \in {"browser", "exchange"} => v.prov \in Providers,
         page' \in {page, stored},
         UNCHANGED <<stored, accepted, issued, overlapped, excused>>
  PROVE  ProvInv'
<1>1. op'[x] = v /\ \A y \in Actors \ {x} : op'[y] = op[y]
  BY DEF ProvInv, ProvTypeOK
<1>2. ProvTypeOK'
  BY DEF ProvInv, ProvTypeOK
<1>3. OneAtATime'
  BY <1>1 DEF ProvInv, OneAtATime, Between
<1>4. DoInv'
  BY <1>1 DEF ProvInv, DoInv, Asks, Writes, Tokened
<1>5. \A p \in Providers : RefreshOf(page', p) \in {RefreshOf(page, p), RefreshOf(stored, p)}
                           /\ RefreshOf(stored', p) = RefreshOf(stored, p)
  OBVIOUS
<1>6. GivenInv'
  <2>1. \A y \in Actors : op'[y].list \in {op[y].list, Empty}
    BY <1>1
  <2> QED BY <1>1, <1>5, <2>1, IdleTypes DEF ProvInv, GivenInv, Given
<1>7. \A y \in Actors : /\ op'[y].key \in {None, op[y].key}
                        /\ op'[y].form.refresh \in {None, op[y].form.refresh}
                        /\ Tokened(y)' => /\ Tokened(y) /\ op'[y].key = op[y].key
                                          /\ op'[y].prov = op[y].prov
  BY <1>1, IdleTypes DEF Tokened, Writes
<1>8. LoginInv'
  BY <1>5, <1>7 DEF ProvInv, LoginInv, DoInv
<1>9. \A t \in Turns, p \in Providers : /\ Replaces(t, p)' <=> Replaces(t, p)
                                        /\ Replaces(t, p) => op'[t] = op[t]
  BY <1>1 DEF Replaces, Writes, Actors
<1>10. AnswerInv' /\ RefreshInv'
  BY <1>9 DEF ProvInv, AnswerInv, RefreshInv
<1> QED BY <1>2, <1>3, <1>4, <1>6, <1>8, <1>10 DEF ProvInv

\* A code is exchanged for tokens that nobody has seen.
LEMMA ExchangeStep == ASSUME ProvInv, NEW l \in Logins, Exchange(l) PROVE ProvInv'
<1> DEFINE q == op[l].prov
           pc1 == IF q \in Rotating THEN "read" ELSE "project"
           v == [op[l] EXCEPT !.pc = pc1, !.key = issued + 1]
<1>1. /\ l \in Actors /\ op[l].pc = "exchange" /\ q \in Providers
      /\ issued < MaxKeys /\ issued' = issued + 1
      /\ accepted' = [accepted EXCEPT ![q] = @ \cup {issued + 1}]
      /\ op' = [op EXCEPT ![l] = v]
      /\ UNCHANGED <<stored, page, overlapped, excused>>
  BY DEF Exchange, At, NewKey, Actors, ProvInv, DoInv
<1>2. issued + 1 \in Keys /\ issued \in Nat
  BY <1>1, BoundsAssumption DEF ProvInv, ProvTypeOK, Keys
<1>3. /\ v \in OpTypes /\ v.pc \in {"read", "project"} /\ v.prov = q /\ v.key = issued + 1
      /\ v.form = op[l].form /\ v.list = op[l].list
  BY <1>1, <1>2 DEF ProvInv, ProvTypeOK, OpTypes
<1> HIDE DEF v
<1>4. /\ op'[l] = v /\ \A y \in Actors \ {l} : op'[y] = op[y]
      /\ accepted'[q] = accepted[q] \cup {issued + 1}
      /\ \A p \in Providers \ {q} : accepted'[p] = accepted[p]
      /\ ProvTypeOK'
  BY <1>1, <1>2, <1>3, BoundsAssumption DEF ProvInv, ProvTypeOK
<1>5. OneAtATime'
  BY <1>1, <1>3, <1>4 DEF ProvInv, OneAtATime, Between
<1>6. DoInv'
  BY <1>1, <1>2, <1>3, <1>4, NoneAssumption DEF ProvInv, DoInv, Asks, Writes, Tokened
<1>7. \A p \in Providers : RefreshOf(page', p) = RefreshOf(page, p) /\ RefreshOf(stored', p) = RefreshOf(stored, p)
  BY <1>1
<1>8. GivenInv'
  BY <1>1, <1>2, <1>3, <1>4, <1>7 DEF ProvInv, GivenInv, Given
<1>9. issued + 1 \notin Given
  BY <1>2, NoneAssumption DEF Given
<1>10. LoginInv'
  <2> SUFFICES ASSUME ~ overlapped, NEW m \in Actors, Tokened(m)'
               PROVE  /\ op'[m].key \in accepted'[op'[m].prov]
                      /\ \A p \in Providers : RefreshOf(stored, p) # op'[m].key /\ RefreshOf(page, p) # op'[m].key
                      /\ \A y \in Actors : op'[y].form.refresh # op'[m].key /\ (y # m => op'[y].key # op'[m].key)
    BY <1>1, <1>7 DEF LoginInv
  <2>1. CASE m = l
    BY <1>1, <1>3, <1>4, <1>9, <2>1 DEF ProvInv, GivenInv
  <2>2. CASE m # l
    <3>1. Tokened(m) /\ op'[m] = op[m] /\ op[m].key \in Given /\ op[m].prov \in Providers
      BY <1>4, <2>2 DEF Tokened, Writes, ProvInv, GivenInv, DoInv
    <3>2. op[m].key \in accepted'[op[m].prov]
      BY <1>4, <3>1 DEF ProvInv, LoginInv
    <3> QED BY <1>3, <1>4, <1>9, <2>2, <3>1, <3>2 DEF ProvInv, LoginInv
  <2> QED BY <2>1, <2>2
<1>11. \A t \in Turns, p \in Providers : /\ Replaces(t, p)' <=> Replaces(t, p)
                                         /\ Replaces(t, p) => op'[t] = op[t]
  BY <1>1, <1>3, <1>4, ActorsAssumption DEF Replaces, Writes, Actors
<1>12. AnswerInv' /\ RefreshInv'
  <2>1. \A p \in Providers : accepted[p] \subseteq accepted'[p]
    BY <1>4
  <2> QED BY <1>1, <1>7, <1>11, <2>1 DEF ProvInv, AnswerInv, RefreshInv
<1> QED BY <1>4, <1>5, <1>6, <1>8, <1>10, <1>12 DEF ProvInv

\* The token server answers, or its answer is lost: a token that is replaced is
\* one that is stored.
LEMMA ServedStep ==
  ASSUME ProvInv, NEW t \in Turns, Answer(t) \/ LoseAnswer(t)
  PROVE  ProvInv'
<1> DEFINE q == op[t].prov
           r == RefreshOf(op[t].list, q)
<1>1. /\ t \in Actors /\ Asks(t) /\ q \in Providers /\ r # None
      /\ issued < MaxKeys /\ issued' = issued + 1
      /\ UNCHANGED <<stored, page, overlapped>>
  BY DEF Answer, LoseAnswer, At, Asks, NewKey, Actors, ProvInv, DoInv
<1>2. issued + 1 \in Keys /\ issued \in Nat /\ issued' \in 0..MaxKeys
  BY <1>1, BoundsAssumption DEF ProvInv, ProvTypeOK, Keys
<1>3. Presented(t) = r /\ op[t].list \in Lists
  BY <1>1 DEF Presented, RefreshOf, EntryOf, Blank, ProvInv, ProvTypeOK, OpTypes
<1>4. /\ accepted' \in [Providers -> SUBSET Keys]
      /\ accepted'[q] \subseteq accepted[q] \cup {issued + 1}
      /\ accepted[q] \ {r} \subseteq accepted'[q]
      /\ q \in Rotating => issued + 1 \in accepted'[q]
      /\ q \notin Rotating => accepted'[q] = accepted[q]
      /\ \A p \in Providers \ {q} : accepted'[p] = accepted[p]
  <2>1. accepted' = [accepted EXCEPT ![q] = Renewed(q, r, issued + 1)]
    BY <1>1, <1>3 DEF Answer, LoseAnswer
  <2> HIDE DEF r
  <2>2. Renewed(q, r, issued + 1) = IF q \in Rotating THEN (accepted[q] \ {r}) \cup {issued + 1} ELSE accepted[q]
    BY DEF Renewed
  <2> HIDE DEF q
  <2> QED BY <1>1, <1>2, <2>1, <2>2 DEF ProvInv, ProvTypeOK
<1>5. PICK v \in OpTypes :
        /\ op' = [op EXCEPT ![t] = v]
        /\ v.form \in {op[t].form, Blank} /\ v.list \in {op[t].list, Empty} /\ ~ Tokened(t)'
        /\ \/ /\ v.pc = "write" /\ v.key = issued + 1 /\ v.prov = q /\ v.do = op[t].do
              /\ v.list = op[t].list /\ excused' = excused
           \/ /\ v.pc = "idle" /\ v.key = None
              /\ excused' = excused \cup ({q} \cap Rotating)
  <2>1. CASE Answer(t)
    <3> DEFINE w == [op[t] EXCEPT !.pc = "write", !.key = issued + 1]
    <3>1. /\ w \in OpTypes /\ w.pc = "write" /\ w.key = issued + 1 /\ w.prov = q /\ w.do = op[t].do
          /\ w.list = op[t].list /\ w.form = op[t].form
      BY <1>1, <1>2 DEF ProvInv, ProvTypeOK, OpTypes
    <3>2. op' = [op EXCEPT ![t] = w] /\ excused' = excused
      BY <1>1, <2>1 DEF Answer
    <3> HIDE DEF w
    <3>3. op'[t] = w /\ w.do # "login"
      BY <1>1, <3>1, <3>2 DEF ProvInv, ProvTypeOK, DoInv
    <3> QED BY <3>1, <3>2, <3>3 DEF Tokened, Writes
  <2>2. CASE LoseAnswer(t)
    <3>1. op' = [op EXCEPT ![t] = Idle] /\ excused' = excused \cup ({q} \cap Rotating)
      BY <2>2 DEF LoseAnswer, Return
    <3>2. op'[t] = Idle
      BY <1>1, <3>1 DEF ProvInv, ProvTypeOK
    <3> QED BY <3>1, <3>2, IdleTypes DEF Tokened, Writes
  <2> QED BY <2>1, <2>2
<1>6. /\ op'[t] = v /\ \A y \in Actors \ {t} : op'[y] = op[y]
      /\ ProvTypeOK'
  BY <1>1, <1>2, <1>4, <1>5 DEF ProvInv, ProvTypeOK
<1>7. OneAtATime'
  BY <1>1, <1>5, <1>6 DEF ProvInv, OneAtATime, Between, Asks
<1>8. DoInv'
  <2>1. DoInv!(t)'
    BY <1>1, <1>2, <1>5, <1>6, NoneAssumption DEF ProvInv, DoInv, Asks, Writes, Tokened
  <2> QED BY <1>6, <2>1 DEF ProvInv, DoInv, Asks, Writes, Tokened
<1>9. \A p \in Providers : RefreshOf(page', p) = RefreshOf(page, p) /\ RefreshOf(stored', p) = RefreshOf(stored, p)
  BY <1>1
<1>10. GivenInv'
  <2>1. Given \subseteq Given' /\ 0..issued \subseteq 0..issued' /\ issued + 1 \in 0..issued'
    BY <1>1, <1>2 DEF Given
  <2>2. \A p \in Providers : accepted'[p] \subseteq 0..issued'
    BY <1>4, <2>1 DEF ProvInv, GivenInv
  <2>3. \A x \in Actors : /\ op'[x].key \in Given' /\ op'[x].form.refresh \in Given'
                          /\ \A p \in Providers : RefreshOf(op'[x].list, p) \in Given'
    <3>1. v.key \in Given' /\ v.form.refresh \in Given' /\ \A p \in Providers : RefreshOf(v.list, p) \in Given'
      BY <1>1, <1>5, <2>1, IdleTypes DEF ProvInv, GivenInv, Given
    <3> QED BY <1>6, <2>1, <3>1 DEF ProvInv, GivenInv
  <2> QED BY <1>9, <2>1, <2>2, <2>3 DEF ProvInv, GivenInv
<1>11. ~ overlapped => r = RefreshOf(stored, q) /\ \A y \in Actors \ {t} : ~ Between(y)
  BY <1>1 DEF ProvInv, OneAtATime, Between, Asks
<1>12. LoginInv'
  <2> SUFFICES ASSUME ~ overlapped, NEW l \in Actors, Tokened(l)'
               PROVE  /\ op'[l].key \in accepted'[op'[l].prov]
                      /\ \A p \in Providers : RefreshOf(stored, p) # op'[l].key /\ RefreshOf(page, p) # op'[l].key
                      /\ \A y \in Actors : op'[y].form.refresh # op'[l].key /\ (y # l => op'[y].key # op'[l].key)
    BY <1>1, <1>9 DEF LoginInv
  <2>1. l # t /\ Tokened(l) /\ op'[l] = op[l]
    BY <1>5, <1>6 DEF Tokened, Writes
  <2>2. op[l].key \in 0..issued /\ op[l].key # None /\ op[l].prov \in Providers
    BY <2>1 DEF ProvInv, GivenInv, Given, DoInv, Tokened, Writes
  <2>3. op[l].key # r
    BY <1>1, <1>11, <2>1 DEF ProvInv, LoginInv
  <2>4. op[l].key \in accepted'[op[l].prov]
    BY <1>4, <2>1, <2>2, <2>3 DEF ProvInv, LoginInv
  <2>5. v.key # op[l].key /\ v.form.refresh # op[l].key
    BY <1>1, <1>2, <1>5, <2>1, <2>2, IdleTypes DEF ProvInv, LoginInv
  <2> QED BY <1>6, <2>1, <2>4, <2>5 DEF ProvInv, LoginInv
<1>13. AnswerInv'
  <2> SUFFICES ASSUME ~ overlapped, NEW u \in Turns, NEW p \in Providers, Replaces(u, p)'
               PROVE  op'[u].key \in accepted'[p]
    BY <1>1 DEF AnswerInv
  <2>1. u = t
    BY <1>6, <1>11 DEF Replaces, Writes, Between, Actors
  <2>2. p = q /\ q \in Rotating /\ v.key = issued + 1
    BY <1>5, <1>6, <2>1 DEF Replaces, Writes
  <2> QED BY <1>4, <1>6, <2>1, <2>2
<1>14. RefreshInv'
  <2> SUFFICES ASSUME ~ overlapped, NEW p \in Providers \ excused', RefreshOf(stored, p) # None
               PROVE  RefreshOf(stored, p) \in accepted'[p] \/ \E u \in Turns : Replaces(u, p)'
    BY <1>1, <1>9 DEF RefreshInv
  <2>1. p \notin excused
    BY <1>5
  <2>2. \A u \in Turns : ~ Replaces(u, p)
    BY <1>1, <1>11 DEF Replaces, Writes, Between, Actors, Asks
  <2>3. RefreshOf(stored, p) \in accepted[p]
    BY <2>1, <2>2 DEF ProvInv, RefreshInv
  <2>4. CASE p # q \/ q \notin Rotating
    BY <1>4, <2>3, <2>4
  <2>5. CASE p = q /\ q \in Rotating
    <3>1. op[t].do = "refresh"
      BY <1>1, <2>5 DEF ProvInv, DoInv
    <3> QED BY <1>5, <1>6, <2>5, <3>1 DEF Replaces, Writes
  <2> QED BY <2>4, <2>5
<1> QED BY <1>6, <1>7, <1>8, <1>10, <1>12, <1>13, <1>14 DEF ProvInv

\* What a write leaves of the list that the actor read.
LEMMA WrittenEntries ==
  ASSUME ProvTypeOK, DoInv, NEW x \in Actors, Write(x)
  PROVE  LET list == op[x].list
             p    == op[x].prov
             do   == op[x].do
             key  == KeyOf(stored', p)
             refresh == RefreshOf(stored', p)
             same == refresh = RefreshOf(list, p)
         IN
         /\ stored' \in Lists /\ p \in Providers
         /\ \A q \in Providers \ {p} : /\ KeyOf(stored', q) = KeyOf(list, q)
                                       /\ RefreshOf(stored', q) = RefreshOf(list, q)
         /\ \/ do = "save" /\ refresh = op[x].form.refresh
               /\ key = (IF op[x].key = None THEN KeyOf(list, p) ELSE op[x].key)
            \/ do = "delete" /\ key = None /\ refresh = None
            \/ do = "manage" /\ same
               /\ key = (IF op[x].key = None THEN KeyOf(list, p) ELSE op[x].key)
            \/ do = "refresh" /\ key = op[x].key
               /\ IF p \in Rotating THEN refresh = op[x].key ELSE same
            \/ do = "renew" /\ key = op[x].key /\ same
            \/ do = "login" /\ key = op[x].key /\ refresh = op[x].key
<1> DEFINE list == op[x].list
           p    == op[x].prov
           do   == op[x].do
           e    == EntryOf(list, p)
           new  == ReplyOf(e, x)
           changed == [list EXCEPT ![p] = new]
<1>1. /\ list \in Lists /\ p \in Providers /\ op[x].key \in Keys \cup {None} /\ op[x].form \in Entry
      /\ do \in {"save", "delete", "manage", "refresh", "renew", "login"}
  BY DEF ProvTypeOK, OpTypes, DoInv, Write, At, Writes
<1>2. e \in Entry /\ e.key = KeyOf(list, p) /\ e.refresh = RefreshOf(list, p)
  BY <1>1, EntryTypes DEF KeyOf, RefreshOf
<1>3. /\ new \in Entry \cup {Absent}
      /\ new = Absent <=> do = "delete"
      /\ \/ /\ do = "save" /\ new.refresh = op[x].form.refresh
            /\ new.key = (IF op[x].key = None THEN e.key ELSE op[x].key)
         \/ do = "delete"
         \/ /\ do = "manage" /\ new.refresh = e.refresh
            /\ new.key = (IF op[x].key = None THEN e.key ELSE op[x].key)
         \/ /\ do = "refresh" /\ new.key = op[x].key
            /\ new.refresh = (IF p \in Rotating THEN op[x].key ELSE e.refresh)
         \/ do = "renew" /\ new.key = op[x].key /\ new.refresh = e.refresh
         \/ do = "login" /\ new.key = op[x].key /\ new.refresh = op[x].key
  <2> HIDE DEF e
  <2>1. CASE do = "save"
    <3> DEFINE k == IF op[x].key = None THEN e.key ELSE op[x].key
    <3>1. new = [op[x].form EXCEPT !.key = k]
      BY <2>1 DEF ReplyOf, Saved
    <3>2. k \in Keys \cup {None}
      BY <1>1, <1>2 DEF Entry
    <3> HIDE DEF k, new
    <3>3. new \in Entry /\ new.key = k /\ new.refresh = op[x].form.refresh
      BY <1>1, <3>1, <3>2 DEF Entry
    <3> QED BY <2>1, <3>3, NoneAssumption DEF k
  <2>2. CASE do = "delete"
    BY <2>2 DEF ReplyOf
  <2>3. CASE do = "manage"
    <3>1. new = IF op[x].key = None THEN e ELSE [e EXCEPT !.key = op[x].key, !.sealed = FALSE]
      BY <2>3 DEF ReplyOf, Managed
    <3> HIDE DEF new
    <3>2. new \in Entry /\ new.refresh = e.refresh
          /\ new.key = (IF op[x].key = None THEN e.key ELSE op[x].key)
      BY <1>1, <1>2, <3>1 DEF Entry
    <3> QED BY <2>3, <3>2, NoneAssumption
  <2>4. CASE do = "refresh"
    <3> DEFINE r == IF p \in Rotating THEN op[x].key ELSE e.refresh
    <3>1. new = [e EXCEPT !.key = op[x].key, !.refresh = r]
      BY <2>4 DEF ReplyOf, Refreshed
    <3>2. r \in Keys \cup {None}
      BY <1>1, <1>2 DEF Entry
    <3> HIDE DEF r, new
    <3>3. new \in Entry /\ new.key = op[x].key /\ new.refresh = r
      BY <1>1, <1>2, <3>1, <3>2 DEF Entry
    <3> QED BY <2>4, <3>3, NoneAssumption DEF r
  <2>5. CASE do = "renew"
    <3>1. new = [e EXCEPT !.key = op[x].key, !.sealed = FALSE]
      BY <2>5 DEF ReplyOf
    <3> HIDE DEF new
    <3>2. new \in Entry /\ new.refresh = e.refresh /\ new.key = op[x].key
      BY <1>1, <1>2, <3>1 DEF Entry
    <3> QED BY <2>5, <3>2, NoneAssumption
  <2>6. CASE do = "login"
    <3>1. new = [key |-> op[x].key, sealed |-> FALSE, refresh |-> op[x].key]
      BY <2>6 DEF ReplyOf
    <3> HIDE DEF new
    <3>2. new \in Entry /\ new.refresh = op[x].key /\ new.key = op[x].key
      BY <1>1, <3>1 DEF Entry
    <3> QED BY <2>6, <3>2, NoneAssumption
  <2> QED BY <1>1, <2>1, <2>2, <2>3, <2>4, <2>5, <2>6
<1> HIDE DEF new
<1>4. /\ changed \in Lists
      /\ \A q \in Providers \ {p} : KeyOf(changed, q) = KeyOf(list, q) /\ RefreshOf(changed, q) = RefreshOf(list, q)
      /\ new = Absent => KeyOf(changed, p) = None /\ RefreshOf(changed, p) = None
      /\ new # Absent => KeyOf(changed, p) = new.key /\ RefreshOf(changed, p) = new.refresh
  BY <1>1, <1>3, ChangedEntry
<1>5. stored' = IF Seals(x) THEN Sealed(changed) ELSE changed
  BY DEF Write, new
<1> HIDE DEF changed
<1>6. /\ stored' \in Lists
      /\ \A q \in Providers : KeyOf(stored', q) = KeyOf(changed, q) /\ RefreshOf(stored', q) = RefreshOf(changed, q)
  BY <1>4, <1>5, SealedEntries
<1> QED BY <1>1, <1>2, <1>3, <1>4, <1>6

LEMMA WriteStep == ASSUME ProvInv, NEW x \in Actors, Write(x) PROVE ProvInv'
<1> DEFINE p  == op[x].prov
           do == op[x].do
           v  == IF x = Page THEN [Idle EXCEPT !.pc = "reload"] ELSE Idle
<1>1. /\ Writes(x) /\ op' = [op EXCEPT ![x] = v]
      /\ excused' = IF do = "login" THEN excused \ {p}
                    ELSE IF do = "save" /\ op[x].form.refresh # RefreshOf(op[x].list, p)
                           THEN excused \cup {p} ELSE excused
      /\ UNCHANGED <<page, accepted, issued, overlapped>>
  BY DEF Write, At, Writes, RefreshOf
<1>2. /\ v \in OpTypes /\ v.pc \in {"idle", "reload"} /\ v.key = None /\ v.form = Blank /\ v.list = Empty
  BY IdleTypes DEF OpTypes
<1> HIDE DEF v
<1>3. op'[x] = v /\ \A y \in Actors \ {x} : op'[y] = op[y]
  BY <1>1 DEF ProvInv, ProvTypeOK
<1>4. /\ stored' \in Lists /\ p \in Providers
      /\ \A q \in Providers \ {p} : RefreshOf(stored', q) = RefreshOf(op[x].list, q)
      /\ \/ do = "save" /\ RefreshOf(stored', p) = op[x].form.refresh
         \/ do = "delete" /\ RefreshOf(stored', p) = None
         \/ do \in {"manage", "renew"} /\ RefreshOf(stored', p) = RefreshOf(op[x].list, p)
         \/ do = "refresh" /\ RefreshOf(stored', p) =
                                 (IF p \in Rotating THEN op[x].key ELSE RefreshOf(op[x].list, p))
         \/ do = "login" /\ RefreshOf(stored', p) = op[x].key
  BY WrittenEntries DEF ProvInv
<1>5. ProvTypeOK'
  BY <1>1, <1>2, <1>4 DEF ProvInv, ProvTypeOK
<1>6. OneAtATime'
  BY <1>1, <1>2, <1>3 DEF ProvInv, OneAtATime, Between, Writes
<1>7. DoInv'
  BY <1>2, <1>3 DEF ProvInv, DoInv, Asks, Writes, Tokened
<1>8. \A q \in Providers : RefreshOf(page', q) = RefreshOf(page, q)
  BY <1>1
<1>9. \A q \in Providers : RefreshOf(stored', q) \in
         {RefreshOf(op[x].list, q), op[x].form.refresh, op[x].key, None}
  BY <1>4
<1>10. GivenInv'
  <2>1. \A q \in Providers : RefreshOf(stored', q) \in Given
    BY <1>9 DEF ProvInv, GivenInv, Given
  <2>2. \A y \in Actors : /\ op'[y].key \in Given /\ op'[y].form.refresh \in Given
                          /\ \A q \in Providers : RefreshOf(op'[y].list, q) \in Given
    <3>1. v.key \in Given /\ v.form.refresh \in Given /\ \A q \in Providers : RefreshOf(v.list, q) \in Given
      BY <1>2, IdleTypes DEF Given
    <3> QED BY <1>3, <3>1 DEF ProvInv, GivenInv
  <2> QED BY <1>1, <1>8, <2>1, <2>2 DEF ProvInv, GivenInv, Given
<1>11. ~ overlapped => op[x].list = stored /\ \A y \in Actors \ {x} : ~ Between(y)
  BY <1>1 DEF ProvInv, OneAtATime, Between, Writes
<1>12. LoginInv'
  <2> SUFFICES ASSUME ~ overlapped, NEW l \in Actors, Tokened(l)'
               PROVE  /\ op'[l].key \in accepted[op'[l].prov]
                      /\ \A q \in Providers : RefreshOf(stored', q) # op'[l].key /\ RefreshOf(page, q) # op'[l].key
                      /\ \A y \in Actors : op'[y].form.refresh # op'[l].key /\ (y # l => op'[y].key # op'[l].key)
    BY <1>1, <1>8 DEF LoginInv
  <2>1. l # x /\ Tokened(l) /\ op'[l] = op[l]
    BY <1>2, <1>3 DEF Tokened, Writes
  <2>2. op[l].key # None
    BY <2>1 DEF ProvInv, DoInv
  <2>3. \A q \in Providers : RefreshOf(stored', q) # op[l].key
    BY <1>9, <1>11, <2>1, <2>2 DEF ProvInv, LoginInv
  <2> QED BY <1>2, <1>3, <2>1, <2>2, <2>3, IdleTypes DEF ProvInv, LoginInv
<1>13. ~ overlapped => \A t \in Turns, q \in Providers : ~ Replaces(t, q)'
  BY <1>2, <1>3, <1>11 DEF Replaces, Writes, Between, Actors
<1>14. RefreshInv'
  <2> SUFFICES ASSUME ~ overlapped, NEW q \in Providers \ excused', RefreshOf(stored', q) # None
               PROVE  RefreshOf(stored', q) \in accepted[q]
    BY <1>1 DEF RefreshInv
  <2>0. x \in Turns \/ do # "refresh"
    BY <1>1 DEF ProvInv, DoInv
  <2>1. ASSUME RefreshOf(stored', q) = RefreshOf(stored, q), q \notin excused,
               ~ (do = "refresh" /\ q = p /\ q \in Rotating)
        PROVE  RefreshOf(stored', q) \in accepted[q]
    <3>1. \A t \in Turns : ~ Replaces(t, q)
      BY <1>11, <2>1 DEF Replaces, Writes, Between, Actors
    <3> QED BY <2>1, <3>1 DEF ProvInv, RefreshInv
  <2>2. CASE q # p
    BY <1>1, <1>4, <1>11, <2>1, <2>2
  <2>3. CASE q = p
    <3>1. CASE do = "login"
      BY <1>1, <1>4, <2>3, <3>1 DEF ProvInv, LoginInv, Tokened
    <3>2. CASE do = "refresh" /\ q \in Rotating
      <4>1. Replaces(x, q) /\ x \in Turns
        BY <1>1, <2>0, <2>3, <3>2 DEF Replaces
      <4> QED BY <1>4, <2>3, <3>2, <4>1 DEF ProvInv, AnswerInv
    <3>3. CASE do # "login" /\ ~ (do = "refresh" /\ q \in Rotating)
      <4>1. q \notin excused
        BY <1>1, <3>3
      <4>2. RefreshOf(stored', q) = RefreshOf(stored, q)
        BY <1>1, <1>4, <1>11, <2>3, <3>3
      <4> QED BY <2>1, <3>3, <4>1, <4>2
    <3> QED BY <3>1, <3>2, <3>3
  <2> QED BY <2>2, <2>3
<1> QED BY <1>1, <1>5, <1>6, <1>7, <1>10, <1>12, <1>13, <1>14 DEF ProvInv, AnswerInv

LEMMA RestartStep == ASSUME ProvInv, Restart PROVE ProvInv'
<1>1. /\ stored' = Booted(stored) /\ op' = [x \in Actors |-> Idle] /\ page' = Empty
      /\ excused' = excused \cup {p \in Rotating : \E t \in Turns : At(t, "write") /\ op[t].prov = p}
      /\ UNCHANGED <<accepted, issued, overlapped>>
  BY DEF Restart
<1>2. stored' \in Lists /\ \A p \in Providers : RefreshOf(stored', p) = RefreshOf(stored, p)
  BY <1>1, BootedEntries DEF ProvInv, ProvTypeOK
<1>3. ProvTypeOK'
  BY <1>1, <1>2, IdleTypes DEF ProvInv, ProvTypeOK
<1>4. OneAtATime' /\ DoInv' /\ LoginInv' /\ AnswerInv'
  BY <1>1, IdleTypes
     DEF OneAtATime, DoInv, LoginInv, AnswerInv, Between, Asks, Writes, Tokened, Replaces, Actors
<1>5. GivenInv'
  <2>1. \A p \in Providers : RefreshOf(page', p) = None
    BY <1>1, IdleTypes
  <2> QED BY <1>1, <1>2, <2>1, IdleTypes DEF ProvInv, GivenInv, Given
<1>6. RefreshInv'
  <2>1. \A p \in Providers \ excused' : p \notin excused /\ \A t \in Turns : ~ Replaces(t, p)
    BY <1>1 DEF Replaces, Writes, At
  <2> QED BY <1>1, <1>2, <2>1 DEF ProvInv, RefreshInv
<1> QED BY <1>3, <1>4, <1>5, <1>6 DEF ProvInv

LEMMA ProvStep == ProvInv /\ [Next]_vars => ProvInv'
<1> SUFFICES ASSUME ProvInv, [Next]_vars PROVE ProvInv'
  OBVIOUS
<1>b. None \in Keys \cup {None} /\ issued \in 0..MaxKeys /\ MaxKeys \in Nat
  BY BoundsAssumption DEF ProvInv, ProvTypeOK
<1>n. NewKey => issued' \in Keys /\ issued' \in 0..MaxKeys /\ issued <= issued' /\ issued' = issued + 1
  BY <1>b DEF NewKey, Keys
<1>e. Edit => issued' = issued /\ issued' \in 0..MaxKeys /\ issued <= issued'
  BY <1>b DEF Edit
<1>1. ASSUME NEW p \in Providers, SaveProvider(p) PROVE ProvInv'
  <2>1. Page \in Actors /\ op[Page].pc = "idle" /\ UNCHANGED <<stored, page, accepted, excused>>
    BY <1>1 DEF SaveProvider, At, Actors
  <2>2. CASE NewKey /\ Read(Page, "save", p, issued', EntryOf(page, p), "write")
    <3>1. issued' \in Keys \cup {None}
      BY <2>2, <1>n
    <3> QED BY <1>n, <2>1, <2>2, <3>1, ReadStep
  <2>3. CASE Edit /\ Read(Page, "save", p, None, EntryOf(page, p), "write")
    BY <1>b, <1>e, <2>1, <2>3, ReadStep
  <2> QED BY <1>1, <2>2, <2>3 DEF SaveProvider
<1>2. ASSUME NEW p \in Providers, DeleteProvider(p) PROVE ProvInv'
  <2>1. Page \in Actors /\ op[Page].pc = "idle" /\ UNCHANGED <<stored, page, accepted, excused>>
        /\ Edit /\ Read(Page, "delete", p, None, Blank, "write")
    BY <1>2 DEF DeleteProvider, At, Actors
  <2> QED BY <1>b, <1>e, <2>1, ReadStep
<1>3. CASE Reload
  <2> DEFINE v == Idle
  <2>1. /\ Page \in Actors /\ op' = [op EXCEPT ![Page] = v] /\ ~ Writes(Page) /\ page' = stored
        /\ UNCHANGED <<stored, accepted, issued, overlapped, excused>>
    BY <1>3 DEF Reload, At, Return, Writes, Actors
  <2>2. v \in OpTypes /\ v.pc = "idle" /\ v.form = Blank /\ v.list = Empty /\ v.key = None
    BY IdleTypes
  <2> HIDE DEF v
  <2> QED BY <2>1, <2>2, LocalStep
<1>4. ASSUME NEW t \in Turns, NEW p \in Providers, ManageProvider(t, p) PROVE ProvInv'
  <2>1. t \in Actors /\ op[t].pc = "idle" /\ UNCHANGED <<stored, page, accepted, excused>>
    BY <1>4 DEF ManageProvider, At, Actors
  <2>2. CASE NewKey /\ Read(t, "manage", p, issued', Blank, "write")
    <3>1. issued' \in Keys \cup {None}
      BY <2>2, <1>n
    <3> QED BY <1>n, <2>1, <2>2, <3>1, ReadStep
  <2>3. CASE Edit /\ Read(t, "manage", p, None, Blank, "write")
    BY <1>b, <1>e, <2>1, <2>3, ReadStep
  <2> QED BY <1>4, <2>2, <2>3 DEF ManageProvider
<1>5. ASSUME NEW t \in Turns, NEW p \in Providers, BeginRefresh(t, p) \/ RefreshOnCommand(t, p)
      PROVE  ProvInv'
  <2>1. t \in Actors /\ op[t].pc = "idle" /\ UNCHANGED <<stored, page, accepted, excused, issued>>
        /\ Read(t, "refresh", p, None, Blank, "ask") /\ RefreshOf(stored, p) # None
    BY <1>5 DEF BeginRefresh, RefreshOnCommand, At, Actors, RefreshOf
  <2> QED BY <1>b, <2>1, ReadStep
<1>6. ASSUME NEW t \in Turns, NEW p \in Providers, BeginRenewal(t, p) \/ ForceRenewal(t, p)
      PROVE  ProvInv'
  <2>1. t \in Actors /\ op[t].pc = "idle" /\ UNCHANGED <<stored, page, accepted, excused, issued>>
        /\ Read(t, "renew", p, None, Blank, "ask") /\ RefreshOf(stored, p) # None /\ p \notin Rotating
    BY <1>6 DEF BeginRenewal, ForceRenewal, Renewable, At, Actors, RefreshOf
  <2> QED BY <1>b, <2>1, ReadStep
<1>7. ASSUME NEW x \in Turns \cup Logins,
             AskFails(x) \/ StopListening(x) \/ ExchangeFails(x)
      PROVE  ProvInv'
  <2> DEFINE v == Idle
  <2>1. /\ x \in Actors /\ op' = [op EXCEPT ![x] = v] /\ ~ Writes(x) /\ page' = page
        /\ UNCHANGED <<stored, accepted, issued, overlapped, excused>>
    BY <1>7 DEF AskFails, StopListening, ExchangeFails, At, Return, Writes, Actors
  <2>2. v \in OpTypes /\ v.pc = "idle" /\ v.form = Blank /\ v.list = Empty /\ v.key = None
    BY IdleTypes
  <2> HIDE DEF v
  <2> QED BY <2>1, <2>2, LocalStep
<1>8. ASSUME NEW l \in Logins, NEW p \in Providers, StartLogin(l, p) PROVE ProvInv'
  <2> DEFINE v == [Idle EXCEPT !.do = "login", !.pc = "browser", !.prov = p]
  <2>1. /\ l \in Actors /\ op' = [op EXCEPT ![l] = v] /\ ~ Writes(l) /\ page' = page
        /\ UNCHANGED <<stored, accepted, issued, overlapped, excused>>
    BY <1>8 DEF StartLogin, At, Writes, Actors
  <2>2. v \in OpTypes /\ v.pc = "browser" /\ v.prov = p /\ v.form = Blank /\ v.list = Empty /\ v.key = None
    BY IdleTypes DEF OpTypes
  <2> HIDE DEF v
  <2> QED BY <2>1, <2>2, LocalStep
<1>9. ASSUME NEW l \in Logins, Callback(l) PROVE ProvInv'
  <2> DEFINE v == [op[l] EXCEPT !.pc = "exchange"]
  <2>1. /\ l \in Actors /\ op' = [op EXCEPT ![l] = v] /\ op[l].pc = "browser" /\ page' = page
        /\ UNCHANGED <<stored, accepted, issued, overlapped, excused>>
    BY <1>9 DEF Callback, At, Actors
  <2>2. /\ v \in OpTypes /\ v.pc = "exchange" /\ v.prov = op[l].prov /\ v.form = op[l].form
        /\ v.list = op[l].list /\ v.key = op[l].key
    BY <2>1 DEF ProvInv, ProvTypeOK, OpTypes
  <2>3. op[l].prov \in Providers
    BY <2>1 DEF ProvInv, DoInv
  <2> HIDE DEF v
  <2> QED BY <2>1, <2>2, <2>3, LocalStep DEF Writes
<1>10. ASSUME NEW l \in Logins, DiscoverProject(l) PROVE ProvInv'
  <2> DEFINE v == [op[l] EXCEPT !.pc = "read"]
  <2>1. /\ l \in Actors /\ op' = [op EXCEPT ![l] = v] /\ op[l].pc = "project" /\ page' = page
        /\ UNCHANGED <<stored, accepted, issued, overlapped, excused>>
    BY <1>10 DEF DiscoverProject, At, Actors
  <2>2. /\ v \in OpTypes /\ v.pc = "read" /\ v.prov = op[l].prov /\ v.form = op[l].form
        /\ v.list = op[l].list /\ v.key = op[l].key
    BY <2>1 DEF ProvInv, ProvTypeOK, OpTypes
  <2> HIDE DEF v
  <2> QED BY <2>1, <2>2, LocalStep DEF Writes, Tokened
<1>11. ASSUME NEW l \in Logins, ReadForLogin(l) PROVE ProvInv'
  <2> DEFINE p == op[l].prov
             k == op[l].key
  <2>1. l \in Actors /\ op[l].pc = "read" /\ UNCHANGED <<stored, page, accepted, excused, issued>>
        /\ Read(l, "login", p, k, Blank, "write")
    BY <1>11 DEF ReadForLogin, At, Actors
  <2>2. p \in Providers /\ k \in Keys \cup {None}
    BY <2>1 DEF ProvInv, ProvTypeOK, OpTypes, DoInv
  <2> QED BY <1>b, <2>1, <2>2, ReadStep
<1>12. ASSUME NEW t \in Turns, Answer(t) \/ LoseAnswer(t) PROVE ProvInv'
  BY <1>12, ServedStep
<1>13. ASSUME NEW l \in Logins, Exchange(l) PROVE ProvInv'
  BY <1>13, ExchangeStep
<1>14. ASSUME NEW x \in Actors, Write(x) PROVE ProvInv'
  BY <1>14, WriteStep
<1>15. CASE Restart
  BY <1>15, RestartStep
<1>16. CASE UNCHANGED vars
  BY <1>16 DEF vars, ProvInv, ProvTypeOK, OneAtATime, DoInv, GivenInv, LoginInv, AnswerInv, RefreshInv,
               Between, Asks, Writes, Tokened, Replaces, Given
<1> QED BY <1>1, <1>2, <1>3, <1>4, <1>5, <1>6, <1>7, <1>8, <1>9, <1>10, <1>11, <1>12, <1>13, <1>14,
           <1>15, <1>16 DEF Next, TurnStep, LoginStep

-----------------------------------------------------------------------------
(* The theorems                                                            *)

\* However logins, refreshes, edits and restarts follow each other, the stored refresh
\* token is one that the provider still accepts, unless its replacement is about to be
\* written, an answer was lost, the page wrote an old entry, or two actors overlapped.
THEOREM StoredTokensWork == Spec => []RefreshTokensWork
<1>1. ProvInv => RefreshTokensWork
  <2> SUFFICES ASSUME ProvInv, NEW p \in Providers \ excused, EntryOf(stored, p).refresh # None,
                      ~ overlapped, ~ Awaited(p)
               PROVE  stored[p].refresh \in accepted[p]
    BY DEF RefreshTokensWork
  <2>1. \A t \in Turns : ~ Replaces(t, p)
    BY DEF Awaited, At, Replaces, Writes
  <2>2. RefreshOf(stored, p) = stored[p].refresh
    BY DEF RefreshOf, EntryOf, Blank
  <2>3. RefreshOf(stored, p) # None
    BY DEF RefreshOf
  <2> QED BY <2>1, <2>2, <2>3 DEF ProvInv, RefreshInv
<1> QED BY <1>1, ProvInit, ProvStep, PTL DEF Spec

\* Unless two actors have overlapped, a key changes only when an operation on its
\* provider writes the key it brought, or deletes the provider.
THEOREM KeysStay == Spec => NoKeyIsLost
<1> DEFINE Lost(p) ==
      KeyOf(stored, p) # None /\ KeyOf(stored, p)' # KeyOf(stored, p)
        => \/ overlapped
           \/ \E x \in Actors :
                /\ At(x, "write") /\ op[x].prov = p
                /\ op[x].do = "delete" \/ (op[x].key # None /\ KeyOf(stored, p)' = op[x].key)
<1>1. ProvInv /\ [Next]_vars => [\A p \in Providers : Lost(p)]_vars
  <2> SUFFICES ASSUME ProvInv, Next, NEW p \in Providers, KeyOf(stored, p) # None,
                      KeyOf(stored', p) # KeyOf(stored, p), ~ overlapped
               PROVE  \E x \in Actors :
                        /\ At(x, "write") /\ op[x].prov = p
                        /\ op[x].do = "delete" \/ (op[x].key # None /\ KeyOf(stored', p) = op[x].key)
    BY DEF KeyOf, EntryOf, Has
  <2>1. ~ Restart
    BY BootedEntries DEF Restart, ProvInv, ProvTypeOK
  <2>2. PICK x \in Actors : Write(x)
    BY <2>1 DEF Next, TurnStep, LoginStep, SaveProvider, DeleteProvider, Reload, ManageProvider,
                BeginRefresh, RefreshOnCommand, BeginRenewal, ForceRenewal, Answer, LoseAnswer, AskFails,
                StartLogin, Callback, StopListening, Exchange, ExchangeFails, DiscoverProject, ReadForLogin
  <2>3. Writes(x) /\ op[x].list = stored /\ At(x, "write")
    BY <2>2 DEF Write, At, Writes, ProvInv, OneAtATime, Between
  <2>4. op[x].do \in {"refresh", "renew", "login"} => op[x].key # None
    BY <2>3 DEF ProvInv, DoInv, Tokened
  <2> QED BY <2>2, <2>3, <2>4, WrittenEntries DEF ProvInv
<1> QED BY <1>1, ProvInit, ProvStep, PTL DEF Spec, NoKeyIsLost

-----------------------------------------------------------------------------
(* The requests to the providers.  Messages are sound, in the rows as in a *)
(* turn, when their results answer calls that were made and tell nothing   *)
(* untrue, and no two messages make the same call.  The guard keeps sound  *)
(* messages sound, the sanitizer puts each call's result behind it, and    *)
(* the conversions for the providers keep it there.                        *)

ToolCalls   == [id : Seq(Nat), call : Nat]
Blocks      == [kind : {"use", "result", "text"}, id : Seq(Nat), text : Int]
Messages    == [role : {"system", "user", "assistant", "tool"}, text : Int, calls : Seq(ToolCalls),
                blocks : Seq(Blocks), answers : Seq(Nat)]

\* The ids of the calls that a message makes.
MadeBy(m) ==
  IF m.role = "assistant" THEN {Pipeline!CallsOf(m)[k] : k \in DOMAIN Pipeline!CallsOf(m)} ELSE {}

\* The calls whose results are saved as such.
SavedResults == {chatRows[i].text : i \in {i \in DOMAIN chatRows : chatRows[i].role = "tool"}}

\* A call made in Anthropic's format has its result not saved as one, nor has
\* one whose result is said to be unavailable.
ProperResult(m) ==
  /\ m.calls = <<>> /\ m.blocks = <<>>
  /\ \E c \in 1..asked : /\ m.answers = <<c>>
                         /\ \/ m.text \in {c, Pipeline!Compacted, Pipeline!ContextCompacted}
                            \/ m.text = Pipeline!Unavailable /\ c \notin SavedResults
ProperCalls(m) ==
  /\ m.calls = <<>> \/ m.blocks = <<>>
  /\ \A k \in DOMAIN m.calls : m.calls[k].call \in 1..asked /\ m.calls[k].id = <<m.calls[k].call>>
  /\ \A k \in DOMAIN m.blocks : /\ m.blocks[k].kind = "use"
                                /\ \E c \in 1..asked : m.blocks[k].id = <<c>> /\ c \notin SavedResults
  /\ \A j, k \in DOMAIN Pipeline!CallsOf(m) : Pipeline!CallsOf(m)[j] = Pipeline!CallsOf(m)[k] => j = k
Proper(m) ==
  /\ m.role = "tool" => ProperResult(m)
  /\ m.role # "tool" => m.answers = <<>>
  /\ m.role = "assistant" => ProperCalls(m)
  /\ m.role # "assistant" => m.calls = <<>> /\ \A k \in DOMAIN m.blocks : m.blocks[k].kind = "result"

Apart(ms) == \A i, j \in DOMAIN ms : i # j => MadeBy(ms[i]) \cap MadeBy(ms[j]) = {}
Sound(ms) == ms \in Seq(Messages) /\ (\A i \in DOMAIN ms : Proper(ms[i])) /\ Apart(ms)

Results(ms, id) == {i \in DOMAIN ms : ms[i].role = "tool" /\ ms[i].answers = id}

PipeTypes ==
  /\ pc \in {"idle", "send", "reply", "tools"}
  /\ asked \in Nat /\ requests \in Nat /\ boundary \in Nat
  /\ left \in Seq(ToolCalls)
  /\ pc \in {"reply", "tools"} => requests # 0

\* A saved result is the call's own, and its row is behind that of the call.
RowInv ==
  /\ Sound(chatRows)
  /\ \A i \in DOMAIN chatRows :
       /\ chatRows[i].role = "tool" => chatRows[i].answers = <<chatRows[i].text>> /\ chatRows[i].text \in 1..asked
       /\ chatRows[i].role = "assistant" => chatRows[i].blocks = <<>>
  /\ \A i, a \in DOMAIN chatRows :
       chatRows[i].role = "tool" /\ chatRows[i].answers \in MadeBy(chatRows[a]) => a < i

\* A call whose result is saved has it in the first request.
FirstInv ==
  pc = "send" /\ requests = 0 =>
    \A i \in DOMAIN messages : \A k \in DOMAIN messages[i].calls :
      messages[i].calls[k].call \in SavedResults => Results(messages, messages[i].calls[k].id) # {}

\* While tools run: the message that called them, and since then only their
\* results and what the user is made to say.
Running(a) ==
  /\ a \in DOMAIN messages /\ messages[a].role = "assistant"
  /\ model # "claude" => messages[a].blocks = <<>>
  /\ \A j \in a + 1 .. Len(messages) :
       /\ messages[j].role \in {"user", "tool"}
       /\ messages[j].role = "tool" => /\ model # "claude"
                                       /\ messages[j].answers \in MadeBy(messages[a])
                                       /\ messages[j].answers = <<messages[j].text>>
  /\ \A j \in DOMAIN messages :
       messages[j].role = "tool" /\ messages[j].text = Pipeline!Unavailable =>
         messages[j].answers \notin MadeBy(messages[a])
  /\ \A k \in DOMAIN left : left[k].id \in MadeBy(messages[a]) /\ left[k].id = <<left[k].call>>
  /\ request.api = "openai" =>
       \A i \in DOMAIN request.messages : \A k \in DOMAIN request.messages[i].calls :
         <<request.messages[i].calls[k].call>> \notin MadeBy(messages[a])

RequestInv ==
  /\ request.api = "openai" =>
       \A i \in DOMAIN request.messages : \A k \in DOMAIN request.messages[i].calls :
         request.messages[i].calls[k].call \in 1..asked
  /\ RequestsArePaired

PipeInv == /\ PipeTypes /\ RowInv /\ Sound(messages) /\ FirstInv /\ RequestInv
           /\ pc = "tools" => \E a \in DOMAIN messages : Running(a)

\* Any set of numbers that is not empty has a least one.
LEMMA LeastExists ==
  ASSUME NEW U \in SUBSET Nat, U # {}
  PROVE  \E k \in U : \A n \in U : k <= n
<1> DEFINE R == OpToRel(<, Nat)
<1>1. IsWellFoundedOn(R, Nat)
  BY NatLessThanWellFounded
<1>2. PICK m \in U : \A n \in U : ~ (<<n, m>> \in R)
  <2> HIDE DEF R
  <2> QED BY <1>1, WFMin
<1>3. \A k, n \in Nat : ~ (<<n, k>> \in R) => k <= n
  BY DEF OpToRel
<1>4. \A n \in U : m <= n
  <2> HIDE DEF R
  <2> QED BY <1>2, <1>3
<1> QED BY <1>4

\* G gathers the first n sequences of ss, one behind the other.
Gathers(G, ss, n) == G = [i \in 1..n |-> IF i = 1 THEN ss[i] ELSE G[i - 1] \o ss[i]]

\* Flattening is a recursion, which has one solution; all that is used of it is
\* what one more sequence at its end does.
LEMMA GatheringExists ==
  ASSUME NEW ss, NEW n \in Nat
  PROVE  \E G : Gathers(G, ss, n)
<1> DEFINE U == {k \in Nat : ~ \E G : Gathers(G, ss, k)}
<1>1. SUFFICES ASSUME U # {} PROVE FALSE
  OBVIOUS
<1>2. PICK m \in U : \A k \in U : m <= k
  BY <1>1, LeastExists
<1>3. m # 0
  <2> DEFINE G == [i \in 1..0 |-> <<>>]
  <2>1. Gathers(G, ss, 0)
    BY DEF Gathers
  <2> QED BY <1>2, <2>1
<1>4. m \in Nat /\ m - 1 \in Nat
  BY <1>3
<1>5. PICK G : Gathers(G, ss, m - 1)
  BY <1>2, <1>4
<1> DEFINE H == [i \in 1..m |-> IF i < m THEN G[i] ELSE IF m = 1 THEN ss[1] ELSE G[m - 1] \o ss[m]]
<1>6. \A i \in 1..(m - 1) : H[i] = G[i]
  BY <1>4
<1>7. \A i \in 1..(m - 1) : G[i] = IF i = 1 THEN ss[i] ELSE G[i - 1] \o ss[i]
  BY <1>4, <1>5 DEF Gathers
<1>8. \A i \in 1..m : H[i] = IF i = 1 THEN ss[i] ELSE H[i - 1] \o ss[i]
  <2> TAKE i \in 1..m
  <2>1. CASE i \in 1..(m - 1)
    <3>1. i # 1 => i - 1 \in 1..(m - 1)
      BY <1>4, <2>1
    <3> HIDE DEF H
    <3> QED BY <1>6, <1>7, <2>1, <3>1
  <2>2. CASE i = m
    <3>1. m # 1 => m - 1 \in 1..(m - 1) /\ H[m - 1] = G[m - 1]
      BY <1>3, <1>4, <1>6
    <3>2. H[m] = IF m = 1 THEN ss[1] ELSE G[m - 1] \o ss[m]
      BY <2>2, <1>4
    <3> HIDE DEF H
    <3> QED BY <2>2, <3>1, <3>2
  <2> QED BY <1>4, <2>1, <2>2
<1>9. Gathers(H, ss, m)
  BY <1>8 DEF Gathers
<1> QED BY <1>2, <1>9

\* The first parts are gathered alike whatever follows them.
LEMMA GatheringAgrees ==
  ASSUME NEW ss, NEW tt, NEW G, NEW H, NEW n \in Nat, NEW m \in Nat, n <= m,
         Gathers(G, ss, n), Gathers(H, tt, m), \A i \in 1..n : ss[i] = tt[i]
  PROVE  \A i \in 1..n : G[i] = H[i]
<1> DEFINE U == {i \in 1..n : G[i] # H[i]}
<1>1. SUFFICES ASSUME U # {} PROVE FALSE
  OBVIOUS
<1>2. PICK k \in U : \A i \in U : k <= i
  <2> U \in SUBSET Nat
    OBVIOUS
  <2> HIDE DEF U
  <2> QED BY <1>1, LeastExists
<1>3. k \in 1..n /\ k \in 1..m /\ G[k] # H[k]
  BY <1>2
<1>4. /\ G[k] = IF k = 1 THEN ss[k] ELSE G[k - 1] \o ss[k]
      /\ H[k] = IF k = 1 THEN tt[k] ELSE H[k - 1] \o tt[k]
  BY <1>3 DEF Gathers
<1>5. k # 1 => G[k - 1] = H[k - 1]
  <2> HAVE k # 1
  <2>1. k - 1 \in 1..n /\ ~ (k <= k - 1)
    BY <1>3
  <2>2. k - 1 \notin U
    <3> HIDE DEF U
    <3> QED BY <1>2, <2>1
  <2> QED BY <2>1, <2>2
<1>6. ss[k] = tt[k]
  BY <1>3
<1> QED BY <1>3, <1>4, <1>5, <1>6

LEMMA GatheredIsSeq ==
  ASSUME NEW S, NEW n \in Nat, NEW ss \in Seq(Seq(S)), Len(ss) = n, NEW G, Gathers(G, ss, n)
  PROVE  \A i \in 1..n : G[i] \in Seq(S)
<1> DEFINE U == {i \in 1..n : G[i] \notin Seq(S)}
<1>1. SUFFICES ASSUME U # {} PROVE FALSE
  OBVIOUS
<1>2. PICK k \in U : \A i \in U : k <= i
  <2> U \in SUBSET Nat
    OBVIOUS
  <2> HIDE DEF U
  <2> QED BY <1>1, LeastExists
<1>3. k \in 1..n /\ G[k] \notin Seq(S) /\ ss[k] \in Seq(S)
  BY <1>2
<1>4. G[k] = IF k = 1 THEN ss[k] ELSE G[k - 1] \o ss[k]
  BY <1>3 DEF Gathers
<1>5. k # 1 => G[k - 1] \in Seq(S)
  <2> HAVE k # 1
  <2>1. k - 1 \in 1..n /\ ~ (k <= k - 1)
    BY <1>3
  <2>2. k - 1 \notin U
    <3> HIDE DEF U
    <3> QED BY <1>2, <2>1
  <2> QED BY <2>1, <2>2
<1> QED BY <1>3, <1>4, <1>5

LEMMA FlatNone == Pipeline!FlattenSeq(<<>>) = <<>>
BY DEF Pipeline!FlattenSeq

LEMMA FlatIsSeq ==
  ASSUME NEW S, NEW ss \in Seq(Seq(S))
  PROVE  Pipeline!FlattenSeq(ss) \in Seq(S)
<1>1. CASE Len(ss) = 0
  <2>1. Pipeline!FlattenSeq(ss) = ss /\ ss = <<>>
    BY <1>1 DEF Pipeline!FlattenSeq
  <2> QED BY <2>1
<1>2. CASE Len(ss) # 0
  <2> DEFINE n == Len(ss)
             G == CHOOSE F : Gathers(F, ss, n)
  <2>1. n \in Nat /\ n \in 1..n /\ Pipeline!FlattenSeq(ss) = G[n]
    BY <1>2 DEF Pipeline!FlattenSeq, Gathers
  <2>2. Gathers(G, ss, n)
    BY <2>1, GatheringExists
  <2> HIDE DEF G
  <2>3. \A i \in 1..n : G[i] \in Seq(S)
    BY <2>1, <2>2, GatheredIsSeq
  <2> QED BY <2>1, <2>3
<1> QED BY <1>1, <1>2

LEMMA FlatFollows ==
  ASSUME NEW n \in Nat, NEW ss, NEW tt, Len(ss) = n, Len(tt) = n + 1, \A i \in 1..n : ss[i] = tt[i]
  PROVE  /\ n = 0 => Pipeline!FlattenSeq(tt) = tt[1]
         /\ n # 0 => Pipeline!FlattenSeq(tt) = Pipeline!FlattenSeq(ss) \o tt[n + 1]
<1> DEFINE H == CHOOSE F : Gathers(F, tt, n + 1)
<1>1. n + 1 \in Nat /\ n + 1 # 0 /\ n + 1 \in 1..(n + 1)
  OBVIOUS
<1>2. Pipeline!FlattenSeq(tt) = H[n + 1]
  BY <1>1 DEF Pipeline!FlattenSeq, Gathers
<1>3. Gathers(H, tt, n + 1)
  BY <1>1, GatheringExists
<1> HIDE DEF H
<1>4. H[n + 1] = IF n + 1 = 1 THEN tt[n + 1] ELSE H[n + 1 - 1] \o tt[n + 1]
  <2>1. \A i \in 1..(n + 1) : H[i] = IF i = 1 THEN tt[i] ELSE H[i - 1] \o tt[i]
    BY <1>3 DEF Gathers
  <2> QED BY <1>1, <2>1
<1>5. CASE n = 0
  BY <1>2, <1>4, <1>5
<1>6. CASE n # 0
  <2> DEFINE G == CHOOSE F : Gathers(F, ss, n)
  <2>1. Pipeline!FlattenSeq(ss) = G[n]
    BY <1>6 DEF Pipeline!FlattenSeq, Gathers
  <2>2. Gathers(G, ss, n)
    BY GatheringExists
  <2> HIDE DEF G
  <2>3. \A i \in 1..n : G[i] = H[i]
    <3>1. n <= n + 1
      OBVIOUS
    <3> QED BY <1>1, <1>3, <2>2, <3>1, GatheringAgrees
  <2>4. n \in 1..n /\ n + 1 # 1 /\ n + 1 - 1 = n
    BY <1>6
  <2> QED BY <1>2, <1>4, <1>6, <2>1, <2>3, <2>4
<1> QED BY <1>5, <1>6

\* One more part at the end comes at the end of the whole.
LEMMA FlatOneMore ==
  ASSUME NEW S, NEW ss \in Seq(Seq(S)), NEW s \in Seq(S)
  PROVE  Pipeline!FlattenSeq(Append(ss, s)) = Pipeline!FlattenSeq(ss) \o s
<1> DEFINE tt == Append(ss, s)
<1>1. /\ Len(ss) \in Nat /\ Len(tt) = Len(ss) + 1 /\ tt[Len(ss) + 1] = s
      /\ \A i \in 1..Len(ss) : ss[i] = tt[i]
  OBVIOUS
<1>2. /\ Len(ss) = 0 => Pipeline!FlattenSeq(tt) = tt[1]
      /\ Len(ss) # 0 => Pipeline!FlattenSeq(tt) = Pipeline!FlattenSeq(ss) \o tt[Len(ss) + 1]
  <2> HIDE DEF tt
  <2> QED BY <1>1, FlatFollows
<1>3. CASE Len(ss) = 0
  <2>1. ss = <<>> /\ <<>> \o s = s
    BY <1>3
  <2>2. Pipeline!FlattenSeq(tt) = s
    <3> HIDE DEF tt
    <3> QED BY <1>1, <1>2, <1>3
  <2>3. Pipeline!FlattenSeq(ss) = <<>>
    BY <2>1, FlatNone
  <2> HIDE DEF tt
  <2>4. Pipeline!FlattenSeq(tt) = Pipeline!FlattenSeq(ss) \o s
    BY <2>1, <2>2, <2>3
  <2> QED BY <2>4 DEF tt
<1>4. CASE Len(ss) # 0
  <2> HIDE DEF tt
  <2>1. Pipeline!FlattenSeq(tt) = Pipeline!FlattenSeq(ss) \o s
    BY <1>1, <1>2, <1>4
  <2> QED BY <2>1 DEF tt
<1> QED BY <1>3, <1>4

\* Where the i-th of several sequences begins when they are joined.
Before(ss, i) == Len(Pipeline!FlattenSeq(SubSeq(ss, 1, i - 1)))

\* What stands where in two sequences that are joined.
LEMMA JoinPlaces ==
  ASSUME NEW S, NEW s \in Seq(S), NEW t \in Seq(S)
  PROVE  /\ s \o t \in Seq(S) /\ Len(s \o t) = Len(s) + Len(t) /\ Len(s) \in Nat /\ Len(t) \in Nat
         /\ \A j \in 1..Len(s) : (s \o t)[j] = s[j]
         /\ \A j \in 1..Len(t) : (s \o t)[Len(s) + j] = t[j]
OBVIOUS

LEMMA FlatStep ==
  ASSUME NEW S, NEW ss \in Seq(Seq(S)), NEW i \in 1..Len(ss)
  PROVE  Pipeline!FlattenSeq(SubSeq(ss, 1, i)) = Pipeline!FlattenSeq(SubSeq(ss, 1, i - 1)) \o ss[i]
<1>1. SubSeq(ss, 1, i - 1) \in Seq(Seq(S)) /\ ss[i] \in Seq(S)
  OBVIOUS
<1>2. SubSeq(ss, 1, i) = Append(SubSeq(ss, 1, i - 1), ss[i])
  OBVIOUS
<1> QED BY <1>1, <1>2, FlatOneMore

\* What the joined sequences are, place by place.
LEMMA FlatPrefix ==
  ASSUME NEW S, NEW ss \in Seq(Seq(S)), NEW n \in Nat, n <= Len(ss)
  PROVE  LET flat(k) == Pipeline!FlattenSeq(SubSeq(ss, 1, k)) IN
         /\ flat(n) \in Seq(S)
         /\ \A i \in 1..n : /\ Before(ss, i) \in Nat /\ Before(ss, i + 1) = Before(ss, i) + Len(ss[i])
                            /\ Before(ss, i + 1) <= Len(flat(n))
                            /\ \A j \in 1..Len(ss[i]) : flat(n)[Before(ss, i) + j] = ss[i][j]
         /\ \A i, j \in 1..n : i < j => Before(ss, i + 1) <= Before(ss, j)
         /\ \A p \in 1..Len(flat(n)) : \E i \in 1..n : Before(ss, i) < p /\ p <= Before(ss, i + 1)
<1> DEFINE flat(k) == Pipeline!FlattenSeq(SubSeq(ss, 1, k))
           B(k) == Before(ss, k)
           Good(m) ==
             /\ \A i \in 1..m : /\ B(i + 1) <= Len(flat(m))
                                /\ \A j \in 1..Len(ss[i]) : flat(m)[B(i) + j] = ss[i][j]
             /\ \A i, j \in 1..m : i < j => B(i + 1) <= B(j)
             /\ \A p \in 1..Len(flat(m)) : \E i \in 1..m : B(i) < p /\ p <= B(i + 1)
           U == {m \in 0..Len(ss) : ~ Good(m)}
<1>1. \A k \in 0..Len(ss) : flat(k) \in Seq(S) /\ B(k + 1) = Len(flat(k)) /\ Len(flat(k)) \in Nat
  <2> TAKE k \in 0..Len(ss)
  <2>1. SubSeq(ss, 1, k) \in Seq(Seq(S)) /\ k + 1 - 1 = k
    OBVIOUS
  <2>2. flat(k) \in Seq(S)
    BY <2>1, FlatIsSeq
  <2>3. B(k + 1) = Len(flat(k))
    <3>1. SubSeq(ss, 1, k + 1 - 1) = SubSeq(ss, 1, k)
      BY <2>1
    <3>2. B(k + 1) = Len(Pipeline!FlattenSeq(SubSeq(ss, 1, k + 1 - 1)))
      BY DEF Before
    <3> QED BY ONLY <3>1, <3>2
  <2> HIDE DEF flat, B
  <2> QED BY <2>2, <2>3
<1>2. \A i \in 1..Len(ss) : flat(i) = flat(i - 1) \o ss[i]
  BY FlatStep
<1>3. \A i \in 1..Len(ss) : B(i) \in Nat /\ B(i + 1) = B(i) + Len(ss[i]) /\ Len(ss[i]) \in Nat
  <2> TAKE i \in 1..Len(ss)
  <2>1. i \in 0..Len(ss) /\ i - 1 \in 0..Len(ss) /\ i - 1 + 1 = i /\ ss[i] \in Seq(S)
    OBVIOUS
  <2>2. B(i + 1) = Len(flat(i)) /\ B(i) = Len(flat(i - 1)) /\ flat(i - 1) \in Seq(S) /\ B(i) \in Nat
    <3> HIDE DEF flat, B
    <3> QED BY <1>1, <2>1
  <2>3. flat(i) = flat(i - 1) \o ss[i]
    BY <1>2
  <2> HIDE DEF flat, B
  <2>4. Len(flat(i - 1) \o ss[i]) = Len(flat(i - 1)) + Len(ss[i]) /\ Len(ss[i]) \in Nat
    BY <2>1, <2>2, JoinPlaces
  <2> QED BY ONLY <2>2, <2>3, <2>4
<1>4. U = {}
  <2> SUFFICES ASSUME U # {} PROVE FALSE
    OBVIOUS
  <2>1. PICK m \in U : \A i \in U : m <= i
    <3> U \in SUBSET Nat
      OBVIOUS
    <3> HIDE DEF U
    <3> QED BY LeastExists
  <2>2. m \in 0..Len(ss) /\ ~ Good(m)
    BY <2>1
  <2>3. CASE m = 0
    <3>1. SubSeq(ss, 1, 0) = <<>>
      OBVIOUS
    <3>2. flat(0) = <<>>
      BY <3>1, FlatNone
    <3> HIDE DEF flat, B
    <3> QED BY <2>2, <2>3, <3>2
  <2>4. CASE m # 0
    <3>1. m \in 1..Len(ss) /\ m - 1 \in 0..Len(ss) /\ m - 1 \in Nat /\ m \in Nat
      BY <2>2, <2>4
    <3>2. Good(m - 1)
      <4>1. m - 1 \notin U
        <5> HIDE DEF U
        <5> QED BY <2>1, <3>1
      <4> QED BY <4>1, <3>1
    <3>3. /\ flat(m) = flat(m - 1) \o ss[m] /\ flat(m - 1) \in Seq(S) /\ ss[m] \in Seq(S)
          /\ B(m) = Len(flat(m - 1)) /\ B(m + 1) = Len(flat(m)) /\ B(m + 1) = B(m) + Len(ss[m])
          /\ B(m) \in Nat /\ Len(ss[m]) \in Nat
      <4>1. m - 1 + 1 = m /\ ss[m] \in Seq(S) /\ m \in 0..Len(ss)
        BY <3>1
      <4> HIDE DEF flat, B
      <4> QED BY <1>1, <1>2, <1>3, <3>1, <4>1
    <3> HIDE DEF flat, B, U
    <3>8. B(m) = Len(flat(m - 1)) /\ B(m + 1) = Len(flat(m))
      BY ONLY <3>3
    <3>9. B(m + 1) = B(m) + Len(ss[m]) /\ B(m) \in Nat /\ Len(ss[m]) \in Nat
      BY ONLY <3>3
    <3>7. /\ B(m) = Len(flat(m - 1)) /\ B(m + 1) = Len(flat(m)) /\ B(m + 1) = B(m) + Len(ss[m])
          /\ B(m) \in Nat /\ Len(ss[m]) \in Nat
      BY <3>3
    <3>4. \A i \in 1..m : B(i + 1) <= Len(flat(m)) /\ \A j \in 1..Len(ss[i]) : flat(m)[B(i) + j] = ss[i][j]
      <4> TAKE i \in 1..m
      <4>1. CASE i = m
        <5>1. \A j \in 1..Len(ss[m]) : (flat(m - 1) \o ss[m])[Len(flat(m - 1)) + j] = ss[m][j]
          BY <3>3, JoinPlaces
        <5>2. B(m + 1) <= Len(flat(m))
          BY ONLY <3>7
        <5>3. \A j \in 1..Len(ss[m]) : flat(m)[B(m) + j] = ss[m][j]
          BY ONLY <3>3, <5>1
        <5> QED BY <4>1, <5>2, <5>3
      <4>2. CASE i # m
        <5>1. i \in 1..(m - 1) /\ i \in 1..Len(ss)
          BY <3>1, <4>2
        <5>2. B(i) \in Nat /\ B(i + 1) = B(i) + Len(ss[i]) /\ Len(ss[i]) \in Nat
          BY <1>3, <5>1
        <5>3. B(i + 1) <= Len(flat(m - 1)) /\ \A j \in 1..Len(ss[i]) : flat(m - 1)[B(i) + j] = ss[i][j]
          BY <3>2, <5>1
        <5>4. \A j \in 1..Len(flat(m - 1)) : (flat(m - 1) \o ss[m])[j] = flat(m - 1)[j]
          BY <3>3, JoinPlaces
        <5>5. Len(flat(m - 1)) \in Nat
          BY <3>3
        <5>6. \A j \in 1..Len(ss[i]) : B(i) + j \in 1..Len(flat(m - 1))
          BY ONLY <5>2, <5>3, <5>5
        <5>7. \A j \in 1..Len(ss[i]) : flat(m)[B(i) + j] = ss[i][j]
          BY ONLY <3>3, <5>3, <5>4, <5>6
        <5>8. B(i + 1) <= Len(flat(m))
          <6>1. B(i + 1) <= B(m)
            BY ONLY <3>8, <5>3, Zenon
          <6>2. B(m) <= B(m + 1) /\ B(m) \in Nat /\ B(m + 1) \in Nat
            BY ONLY <3>9
          <6>3. B(i + 1) \in Nat
            BY ONLY <5>2
          <6>4. B(i + 1) <= B(m + 1)
            BY ONLY <6>1, <6>2, <6>3
          <6> QED BY ONLY <3>8, <6>4, Zenon
        <5> QED BY <5>7, <5>8
      <4> QED BY <4>1, <4>2
    <3>5. \A i, j \in 1..m : i < j => B(i + 1) <= B(j)
      <4> TAKE i, j \in 1..m
      <4> HAVE i < j
      <4>1. i \in 1..(m - 1)
        BY <3>1
      <4>2. CASE j = m
        BY <3>2, <3>3, <4>1, <4>2
      <4>3. CASE j # m
        <5>1. j \in 1..(m - 1)
          BY <3>1, <4>3
        <5> QED BY <3>2, <4>1, <5>1
      <4> QED BY <4>2, <4>3
    <3>6. \A p \in 1..Len(flat(m)) : \E i \in 1..m : B(i) < p /\ p <= B(i + 1)
      <4> TAKE p \in 1..Len(flat(m))
      <4>1. CASE p <= Len(flat(m - 1))
        <5>1. p \in 1..Len(flat(m - 1))
          BY <3>3, <4>1
        <5>2. PICK i \in 1..(m - 1) : B(i) < p /\ p <= B(i + 1)
          BY <3>2, <5>1
        <5> QED BY <3>1, <5>2
      <4>2. CASE ~ (p <= Len(flat(m - 1)))
        <5>1. Len(flat(m - 1)) \in Nat /\ Len(flat(m)) \in Nat /\ p \in 1..Len(flat(m))
          BY <3>3, JoinPlaces
        <5>2. m \in 1..m
          BY <3>1
        <5>3. B(m) < p /\ p <= B(m + 1)
          BY ONLY <3>7, <4>2, <5>1
        <5> QED BY <5>2, <5>3
      <4> QED BY <4>1, <4>2
    <3> QED BY <2>2, <3>4, <3>5, <3>6
  <2> QED BY <2>3, <2>4
<1>5. n \in 0..Len(ss) /\ Good(n)
  <2>1. n \in 0..Len(ss) /\ n \notin U
    <3> HIDE DEF U
    <3> QED BY <1>4
  <2> HIDE DEF Good
  <2> QED BY <2>1
<1>6. flat(n) \in Seq(S)
  <2> HIDE DEF flat, B
  <2> QED BY <1>1, <1>5
<1>7. \A i \in 1..n : B(i) \in Nat /\ B(i + 1) = B(i) + Len(ss[i])
  <2> \A i \in 1..n : i \in 1..Len(ss)
    BY <1>5
  <2> HIDE DEF flat, B
  <2> QED BY <1>3
<1> HIDE DEF flat, B
<1>8. /\ flat(n) \in Seq(S)
      /\ \A i \in 1..n : /\ B(i) \in Nat /\ B(i + 1) = B(i) + Len(ss[i])
                         /\ B(i + 1) <= Len(flat(n))
                         /\ \A j \in 1..Len(ss[i]) : flat(n)[B(i) + j] = ss[i][j]
      /\ \A i, j \in 1..n : i < j => B(i + 1) <= B(j)
      /\ \A p \in 1..Len(flat(n)) : \E i \in 1..n : B(i) < p /\ p <= B(i + 1)
  BY <1>5, <1>6, <1>7
<1> QED BY <1>8 DEF flat, B

\* s is what several sequences make when they are joined, at[i] being how
\* much of it comes before the i-th.
Joined(at, ss, s) ==
  /\ \A i \in 1..Len(ss) :
       /\ at[i] \in Nat /\ at[i + 1] = at[i] + Len(ss[i]) /\ at[i + 1] <= Len(s)
       /\ \A j \in 1..Len(ss[i]) : s[at[i] + j] = ss[i][j]
  /\ \A i, j \in 1..Len(ss) : i < j => at[i + 1] <= at[j]
  /\ \A p \in 1..Len(s) : \E i \in 1..Len(ss) : \E j \in 1..Len(ss[i]) : p = at[i] + j
  /\ at[1] = 0 /\ at[Len(ss) + 1] = Len(s)

LEMMA FlatPlaces ==
  ASSUME NEW S, NEW ss \in Seq(Seq(S))
  PROVE  /\ Pipeline!FlattenSeq(ss) \in Seq(S)
         /\ \E at : Joined(at, ss, Pipeline!FlattenSeq(ss))
<1> DEFINE n == Len(ss)
           s == Pipeline!FlattenSeq(SubSeq(ss, 1, n))
           at == [i \in 1..(n + 1) |-> Before(ss, i)]
<1>1. n \in Nat /\ n <= Len(ss) /\ SubSeq(ss, 1, n) = ss
  OBVIOUS
<1>2. /\ s \in Seq(S)
      /\ \A i \in 1..n : /\ Before(ss, i) \in Nat /\ Before(ss, i + 1) = Before(ss, i) + Len(ss[i])
                         /\ Before(ss, i + 1) <= Len(s)
                         /\ \A j \in 1..Len(ss[i]) : s[Before(ss, i) + j] = ss[i][j]
      /\ \A i, j \in 1..n : i < j => Before(ss, i + 1) <= Before(ss, j)
      /\ \A p \in 1..Len(s) : \E i \in 1..n : Before(ss, i) < p /\ p <= Before(ss, i + 1)
  <2> HIDE DEF n
  <2> QED BY <1>1, FlatPrefix
<1>3. s = Pipeline!FlattenSeq(ss)
  BY <1>1
<1>4. \A i \in 1..n : i \in 1..(n + 1) /\ i + 1 \in 1..(n + 1)
  BY <1>1
<1>5. \A i \in 1..n : at[i] = Before(ss, i) /\ at[i + 1] = Before(ss, i + 1)
  BY <1>4
<1> HIDE DEF s, at
<1>6. \A i \in 1..n : /\ at[i] \in Nat /\ at[i + 1] = at[i] + Len(ss[i]) /\ at[i + 1] <= Len(s)
                      /\ \A j \in 1..Len(ss[i]) : s[at[i] + j] = ss[i][j]
  BY <1>2, <1>5
<1>7. \A i, j \in 1..n : i < j => at[i + 1] <= at[j]
  BY <1>2, <1>5
<1>8. \A p \in 1..Len(s) : \E i \in 1..n : \E j \in 1..Len(ss[i]) : p = at[i] + j
  <2> TAKE p \in 1..Len(s)
  <2>1. PICK i \in 1..n : at[i] < p /\ p <= at[i + 1]
    BY <1>2, <1>5
  <2>2. at[i] \in Nat /\ at[i + 1] = at[i] + Len(ss[i]) /\ Len(ss[i]) \in Nat
    BY <1>6
  <2>3. p - at[i] \in 1..Len(ss[i]) /\ p = at[i] + (p - at[i])
    BY <2>1, <2>2
  <2> QED BY <2>3
<1>10. Before(ss, 1) = 0
  <2>1. SubSeq(ss, 1, 1 - 1) = <<>>
    OBVIOUS
  <2>2. Before(ss, 1) = Len(Pipeline!FlattenSeq(SubSeq(ss, 1, 1 - 1)))
    BY DEF Before
  <2>3. Before(ss, 1) = Len(<<>>)
    BY ONLY <2>1, <2>2, FlatNone, Zenon
  <2> QED BY ONLY <2>3
<1>11. Before(ss, n + 1) = Len(s)
  <2>1. SubSeq(ss, 1, n + 1 - 1) = SubSeq(ss, 1, n)
    BY <1>1
  <2>2. Before(ss, n + 1) = Len(Pipeline!FlattenSeq(SubSeq(ss, 1, n + 1 - 1)))
    BY DEF Before
  <2> QED BY ONLY <2>1, <2>2 DEF s
<1>12. at[1] = 0 /\ at[Len(ss) + 1] = Len(s)
  <2>1. 1 \in 1..(n + 1) /\ n + 1 \in 1..(n + 1)
    BY <1>1
  <2> QED BY <1>10, <1>11, <2>1 DEF at
<1>9. Joined(at, ss, s)
  BY <1>6, <1>7, <1>8, <1>12 DEF Joined
<1> QED BY <1>2, <1>3, <1>9

\* Where each sequence is one long, places keep their distance.
LEMMA SingleSteps ==
  ASSUME NEW ss, NEW s, NEW at, Joined(at, ss, s), Len(ss) \in Nat,
         NEW i \in 1..Len(ss), NEW d \in Nat, i + d <= Len(ss) + 1,
         \A k \in i .. i + d - 1 : Len(ss[k]) = 1
  PROVE  at[i + d] = at[i] + d
<1> DEFINE U == {k \in 0..d : at[i + k] # at[i] + k}
<1>1. SUFFICES ASSUME U # {} PROVE FALSE
  <2>1. d \in 0..d
    OBVIOUS
  <2> QED BY <2>1
<1>2. PICK k \in U : \A j \in U : k <= j
  <2> U \in SUBSET Nat
    OBVIOUS
  <2> HIDE DEF U
  <2> QED BY <1>1, LeastExists
<1>3. k \in 0..d /\ at[i + k] # at[i] + k /\ at[i] \in Nat
  BY <1>2 DEF Joined
<1>4. k # 0
  BY <1>3
<1>5. k - 1 \in 0..d /\ ~ (k <= k - 1)
  BY <1>3, <1>4
<1>6. at[i + (k - 1)] = at[i] + (k - 1)
  <2>1. k - 1 \notin U
    <3> HIDE DEF U
    <3> QED BY <1>2, <1>5
  <2> QED BY <1>5, <2>1
<1>7. i + (k - 1) \in 1..Len(ss) /\ i + (k - 1) \in i .. i + d - 1 /\ i + (k - 1) + 1 = i + k
  BY <1>3, <1>4
<1>8. at[i + (k - 1) + 1] = at[i + (k - 1)] + Len(ss[i + (k - 1)])
  BY <1>7 DEF Joined
<1>9. at[i + k] = at[i] + (k - 1) + 1
  BY <1>6, <1>7, <1>8
<1>10. at[i] + (k - 1) + 1 = at[i] + k
  <2>1. \A x, y \in Nat : x + (y - 1) + 1 = x + y
    OBVIOUS
  <2>2. at[i] \in Nat /\ k \in Nat
    BY <1>3
  <2> QED BY ONLY <2>1, <2>2
<1> QED BY <1>3, <1>9, <1>10

LEMMA MadeTypes ==
  ASSUME NEW m \in Messages
  PROVE  /\ Pipeline!CallsOf(m) \in Seq(Seq(Nat))
         /\ Len(Pipeline!CallsOf(m)) = Len(m.calls) + Len(m.blocks)
         /\ \A k \in 1..Len(m.calls) : Pipeline!CallsOf(m)[k] = m.calls[k].id
         /\ \A k \in 1..Len(m.blocks) : Pipeline!CallsOf(m)[Len(m.calls) + k] = m.blocks[k].id
<1>1. m.calls \in Seq(ToolCalls) /\ m.blocks \in Seq(Blocks)
  BY DEF Messages
<1>0. /\ DOMAIN m.calls = 1..Len(m.calls) /\ Len(m.calls) \in Nat
      /\ DOMAIN m.blocks = 1..Len(m.blocks) /\ Len(m.blocks) \in Nat
      /\ \A k \in 1..Len(m.calls) : m.calls[k].id \in Seq(Nat)
      /\ \A k \in 1..Len(m.blocks) : m.blocks[k].id \in Seq(Nat)
  <2>1. /\ DOMAIN m.calls = 1..Len(m.calls) /\ Len(m.calls) \in Nat
        /\ DOMAIN m.blocks = 1..Len(m.blocks) /\ Len(m.blocks) \in Nat
        /\ \A k \in 1..Len(m.calls) : m.calls[k] \in ToolCalls
        /\ \A k \in 1..Len(m.blocks) : m.blocks[k] \in Blocks
    BY <1>1
  <2>2. /\ \A x \in ToolCalls : x.id \in Seq(Nat)
        /\ \A x \in Blocks : x.id \in Seq(Nat)
    BY DEF ToolCalls, Blocks
  <2> QED BY <2>1, <2>2
<1> DEFINE x == [k \in DOMAIN m.calls |-> m.calls[k].id]
           y == [k \in DOMAIN m.blocks |-> m.blocks[k].id]
<1>2. x \in Seq(Seq(Nat)) /\ Len(x) = Len(m.calls) /\ \A k \in 1..Len(m.calls) : x[k] = m.calls[k].id
  BY <1>0
<1>3. y \in Seq(Seq(Nat)) /\ Len(y) = Len(m.blocks) /\ \A k \in 1..Len(m.blocks) : y[k] = m.blocks[k].id
  BY <1>0
<1>4. Pipeline!CallsOf(m) = x \o y
  BY DEF Pipeline!CallsOf
<1> HIDE DEF x, y
<1>5. /\ x \o y \in Seq(Seq(Nat)) /\ Len(x \o y) = Len(x) + Len(y)
      /\ \A j \in 1..Len(x) : (x \o y)[j] = x[j]
      /\ \A j \in 1..Len(y) : (x \o y)[Len(x) + j] = y[j]
  <2>1. x \in Seq(Seq(Nat)) /\ y \in Seq(Seq(Nat))
    BY ONLY <1>2, <1>3
  <2> QED BY ONLY <2>1, JoinPlaces
<1>6. Len(Pipeline!CallsOf(m)) = Len(m.calls) + Len(m.blocks)
  BY ONLY <1>2, <1>3, <1>4, <1>5
<1>7. \A k \in 1..Len(m.calls) : Pipeline!CallsOf(m)[k] = m.calls[k].id
  BY ONLY <1>2, <1>4, <1>5
<1>8. \A k \in 1..Len(m.blocks) : Pipeline!CallsOf(m)[Len(m.calls) + k] = m.blocks[k].id
  BY ONLY <1>2, <1>3, <1>4, <1>5
<1> QED BY <1>4, <1>5, <1>6, <1>7, <1>8

\* A message without calls makes none, in whatever format.
LEMMA MakesNone ==
  ASSUME NEW m \in Messages, m.calls = <<>>, m.blocks = <<>> \/ m.role # "assistant"
  PROVE  MadeBy(m) = {}
<1>1. CASE m.role # "assistant"
  BY <1>1 DEF MadeBy
<1>2. CASE m.blocks = <<>>
  <2>1. Len(Pipeline!CallsOf(m)) = 0 /\ Pipeline!CallsOf(m) \in Seq(Seq(Nat))
    <3>1. Len(m.calls) = 0 /\ Len(m.blocks) = 0 /\ 0 + 0 = 0
      BY <1>2
    <3>2. Len(Pipeline!CallsOf(m)) = Len(m.calls) + Len(m.blocks) /\ Pipeline!CallsOf(m) \in Seq(Seq(Nat))
      BY MadeTypes
    <3> QED BY ONLY <3>1, <3>2
  <2>2. DOMAIN Pipeline!CallsOf(m) = {}
    BY <2>1
  <2> QED BY <2>2 DEF MadeBy
<1> QED BY <1>1, <1>2

LEMMA SoundNone == Sound(<<>>)
BY DEF Sound, Apart

LEMMA SoundOne ==
  ASSUME NEW m \in Messages, Proper(m)
  PROVE  Sound(<<m>>)
<1>1. <<m>> \in Seq(Messages) /\ \A i \in DOMAIN <<m>> : i = 1 /\ <<m>>[i] = m
  OBVIOUS
<1>2. Apart(<<m>>)
  BY <1>1 DEF Apart
<1>3. \A i \in DOMAIN <<m>> : Proper(<<m>>[i])
  BY <1>1
<1> QED BY <1>1, <1>2, <1>3 DEF Sound

\* Sequences that share no call.
Foreign(s, t) == \A i \in DOMAIN s, j \in DOMAIN t : MadeBy(s[i]) \cap MadeBy(t[j]) = {}

\* Sequences whose messages do not make the same calls can be joined.
LEMMA SoundJoin ==
  ASSUME NEW s, NEW t, Sound(s), Sound(t), Foreign(s, t)
  PROVE  Sound(s \o t)
<1>1. s \in Seq(Messages) /\ t \in Seq(Messages)
  BY DEF Sound
<1>2. /\ s \o t \in Seq(Messages) /\ Len(s \o t) = Len(s) + Len(t) /\ Len(s) \in Nat /\ Len(t) \in Nat
      /\ \A j \in 1..Len(s) : (s \o t)[j] = s[j]
      /\ \A j \in 1..Len(t) : (s \o t)[Len(s) + j] = t[j]
  BY <1>1, JoinPlaces
<1> DEFINE u == s \o t
<1>3. DOMAIN u = 1..Len(u) /\ DOMAIN s = 1..Len(s) /\ DOMAIN t = 1..Len(t)
  BY <1>1, <1>2
<1> HIDE DEF u
<1>4. \A i \in DOMAIN u : \/ i \in DOMAIN s /\ u[i] = s[i]
                          \/ i - Len(s) \in DOMAIN t /\ i \notin DOMAIN s /\ u[i] = t[i - Len(s)]
  <2> TAKE i \in DOMAIN u
  <2>1. i \in Nat /\ i >= 1 /\ i <= Len(s) + Len(t)
    BY <1>2, <1>3 DEF u
  <2>2. CASE i <= Len(s)
    BY <1>2, <1>3, <2>1, <2>2 DEF u
  <2>3. CASE ~ (i <= Len(s))
    <3>1. i - Len(s) \in 1..Len(t) /\ i = Len(s) + (i - Len(s))
      BY <1>2, <2>1, <2>3
    <3>2. u[Len(s) + (i - Len(s))] = t[i - Len(s)]
      BY <1>2, <3>1 DEF u
    <3> QED BY <1>3, <2>3, <3>1, <3>2
  <2> QED BY <2>2, <2>3
<1>5. \A i \in DOMAIN u : Proper(u[i])
  BY <1>4 DEF Sound
<1>6. Apart(u)
  <2> SUFFICES ASSUME NEW i \in DOMAIN u, NEW j \in DOMAIN u, i # j
              PROVE  MadeBy(u[i]) \cap MadeBy(u[j]) = {}
    BY DEF Apart
  <2>1. Apart(s) /\ Apart(t)
    BY DEF Sound
  <2>2. i - Len(s) # j - Len(s)
    BY <1>2, <1>3
  <2> QED BY <1>4, <2>1, <2>2 DEF Apart, Foreign
<1> QED BY <1>2, <1>5, <1>6 DEF Sound, u

\* A part of a sound sequence is sound.
LEMMA SoundPart ==
  ASSUME NEW ms, Sound(ms), NEW a \in Nat \ {0}, NEW b \in Nat, b <= Len(ms)
  PROVE  Sound(SubSeq(ms, a, b))
<1>1. ms \in Seq(Messages) /\ Len(ms) \in Nat
  BY DEF Sound
<1>2. /\ SubSeq(ms, a, b) \in Seq(Messages)
      /\ \A i \in DOMAIN SubSeq(ms, a, b) : /\ i \in Nat /\ a + i - 1 \in DOMAIN ms
                                            /\ SubSeq(ms, a, b)[i] = ms[a + i - 1]
  BY <1>1
<1> DEFINE u == SubSeq(ms, a, b)
<1> HIDE DEF u
<1>3. \A i \in DOMAIN u : Proper(u[i])
  BY <1>2 DEF Sound, u
<1>4. Apart(u)
  <2> SUFFICES ASSUME NEW i \in DOMAIN u, NEW j \in DOMAIN u, i # j
              PROVE  MadeBy(u[i]) \cap MadeBy(u[j]) = {}
    BY DEF Apart
  <2>1. a + i - 1 # a + j - 1 /\ a + i - 1 \in DOMAIN ms /\ a + j - 1 \in DOMAIN ms
    BY <1>2 DEF u
  <2> QED BY <1>2, <2>1 DEF Sound, Apart, u
<1> QED BY <1>2, <1>3, <1>4 DEF Sound, u

\* Rewriting a sound sequence message by message, each becoming messages that
\* make no more calls, leaves it sound.
LEMMA SoundFlat ==
  ASSUME NEW ms, Sound(ms), NEW ss, ss = [i \in DOMAIN ms |-> ss[i]],
         \A i \in DOMAIN ms : /\ Sound(ss[i])
                              /\ \A j \in DOMAIN ss[i] : MadeBy(ss[i][j]) \subseteq MadeBy(ms[i])
  PROVE  /\ ss \in Seq(Seq(Messages)) /\ Len(ss) = Len(ms) /\ Len(ss) \in Nat
         /\ Sound(Pipeline!FlattenSeq(ss))
<1>1. ms \in Seq(Messages) /\ DOMAIN ms = 1..Len(ms) /\ Len(ms) \in Nat
  BY DEF Sound
<1>2. \A i \in 1..Len(ms) : ss[i] \in Seq(Messages)
  BY <1>1 DEF Sound
<1>3. ss \in Seq(Seq(Messages)) /\ Len(ss) = Len(ms)
  <2>1. ss = [i \in 1..Len(ms) |-> ss[i]]
    BY <1>1
  <2>2. ss \in [1..Len(ms) -> Seq(Messages)]
    BY ONLY <1>2, <2>1, Zenon
  <2> QED BY <1>1, <2>2
<1> DEFINE s == Pipeline!FlattenSeq(ss)
<1>4. s \in Seq(Messages) /\ \E at : Joined(at, ss, s)
  BY <1>3, FlatPlaces
<1> HIDE DEF s
<1>5. PICK at : Joined(at, ss, s)
  BY <1>4
<1>6. \A p \in DOMAIN s : \E i \in DOMAIN ms : \E j \in DOMAIN ss[i] : p = at[i] + j /\ s[p] = ss[i][j]
  <2> TAKE p \in DOMAIN s
  <2>1. p \in 1..Len(s)
    BY <1>4
  <2>2. PICK i \in 1..Len(ss) : \E j \in 1..Len(ss[i]) : p = at[i] + j
    BY <1>5, <2>1 DEF Joined
  <2>3. PICK j \in 1..Len(ss[i]) : p = at[i] + j
    BY <2>2
  <2>4. s[at[i] + j] = ss[i][j]
    BY <1>5 DEF Joined
  <2>5. i \in DOMAIN ms /\ j \in DOMAIN ss[i]
    BY <1>1, <1>2, <1>3
  <2> QED BY <2>3, <2>4, <2>5
<1>7. \A p \in DOMAIN s : Proper(s[p])
  BY <1>6 DEF Sound
<1>8. Apart(s)
  <2> SUFFICES ASSUME NEW p \in DOMAIN s, NEW q \in DOMAIN s, p # q
              PROVE  MadeBy(s[p]) \cap MadeBy(s[q]) = {}
    BY DEF Apart
  <2>1. PICK i \in DOMAIN ms : \E j \in DOMAIN ss[i] : p = at[i] + j /\ s[p] = ss[i][j]
    BY <1>6
  <2>2. PICK j \in DOMAIN ss[i] : p = at[i] + j /\ s[p] = ss[i][j]
    BY <2>1
  <2>3. PICK k \in DOMAIN ms : \E l \in DOMAIN ss[k] : q = at[k] + l /\ s[q] = ss[k][l]
    BY <1>6
  <2>4. PICK l \in DOMAIN ss[k] : q = at[k] + l /\ s[q] = ss[k][l]
    BY <2>3
  <2>5. CASE i = k
    <3>1. j # l
      BY <2>2, <2>4, <2>5
    <3>2. Apart(ss[i])
      BY DEF Sound
    <3> QED BY <2>2, <2>4, <2>5, <3>1, <3>2 DEF Apart
  <2>6. CASE i # k
    <3>1. MadeBy(ms[i]) \cap MadeBy(ms[k]) = {}
      BY <2>6 DEF Sound, Apart
    <3> QED BY <2>2, <2>4, <3>1
  <2> QED BY <2>5, <2>6
<1> QED BY <1>1, <1>3, <1>4, <1>7, <1>8 DEF Sound, s

\* The least and the greatest of a set of places.
LEMMA MinIs ==
  ASSUME NEW T \in SUBSET Nat, T # {}
  PROVE  Pipeline!Min(T) \in T /\ \A y \in T : Pipeline!Min(T) <= y
<1>1. \E x \in T : \A y \in T : x <= y
  BY LeastExists
<1> QED BY <1>1 DEF Pipeline!Min

LEMMA MaxIs ==
  ASSUME NEW n \in Nat, NEW T \in SUBSET (0..n), T # {}
  PROVE  Pipeline!Max(T) \in T /\ \A y \in T : y <= Pipeline!Max(T)
<1> DEFINE U == {n - x : x \in T}
<1>1. U \in SUBSET Nat /\ U # {}
  <2>1. \A x \in T : n - x \in Nat
    OBVIOUS
  <2>2. PICK x \in T : TRUE
    OBVIOUS
  <2>3. n - x \in U
    OBVIOUS
  <2> QED BY <2>1, <2>3, Zenon
<1>2. PICK u \in U : \A w \in U : u <= w
  <2> HIDE DEF U
  <2> QED BY <1>1, LeastExists
<1>3. PICK x \in T : u = n - x
  BY <1>2
<1>4. \A y \in T : x >= y
  <2> TAKE y \in T
  <2>1. n - y \in U
    OBVIOUS
  <2>2. n - x <= n - y
    BY <1>2, <1>3, <2>1
  <2> QED BY <2>2
<1>5. \E z \in T : \A y \in T : z >= y
  BY <1>4
<1>6. Pipeline!Max(T) \in T /\ \A y \in T : Pipeline!Max(T) >= y
  BY <1>5 DEF Pipeline!Max
<1> QED BY <1>6

\* What is kept of a sequence.
LEMMA KeepIs ==
  ASSUME NEW S, NEW s \in Seq(S), NEW P
  PROVE  LET kept == Pipeline!Keep(s, P) IN
         /\ kept \in Seq(S)
         /\ \A p \in DOMAIN kept : \E k \in DOMAIN s : k \in P /\ kept[p] = s[k]
         /\ \A k \in DOMAIN s : k \in P => \E p \in DOMAIN kept : kept[p] = s[k]
         /\ DOMAIN s \subseteq P => kept = s
<1> DEFINE ss == [i \in DOMAIN s |-> IF i \in P THEN <<s[i]>> ELSE <<>>]
           kept == Pipeline!FlattenSeq(ss)
<1>1. /\ DOMAIN s = 1..Len(s) /\ Len(s) \in Nat /\ \A i \in 1..Len(s) : s[i] \in S
      /\ Pipeline!Keep(s, P) = kept
  BY DEF Pipeline!Keep, Pipeline!Flat
<1>2. ss \in Seq(Seq(S)) /\ Len(ss) = Len(s)
  <2>1. ss \in [1..Len(s) -> Seq(S)]
    BY <1>1
  <2> QED BY <1>1, <2>1
<1>3. \A i \in 1..Len(s) : ss[i] = IF i \in P THEN <<s[i]>> ELSE <<>>
  BY <1>1
<1> HIDE DEF ss, kept
<1>4. kept \in Seq(S) /\ \E at : Joined(at, ss, kept)
  BY <1>2, FlatPlaces DEF kept
<1>5. PICK at : Joined(at, ss, kept)
  BY <1>4
<1>6. DOMAIN kept = 1..Len(kept) /\ Len(kept) \in Nat
  BY <1>4
<1>7. \A i \in 1..Len(s) : i \in P => Len(ss[i]) = 1 /\ ss[i][1] = s[i]
  <2> TAKE i \in 1..Len(s)
  <2> HAVE i \in P
  <2>1. ss[i] = <<s[i]>>
    BY <1>3
  <2> QED BY <2>1
<1>11. \A i \in 1..Len(s) : i \notin P => Len(ss[i]) = 0
  <2> TAKE i \in 1..Len(s)
  <2> HAVE i \notin P
  <2>1. ss[i] = <<>>
    BY <1>3
  <2> QED BY <2>1
<1>8. \A p \in DOMAIN kept : \E k \in DOMAIN s : k \in P /\ kept[p] = s[k]
  <2> TAKE p \in DOMAIN kept
  <2>1. PICK i \in 1..Len(ss) : \E j \in 1..Len(ss[i]) : p = at[i] + j
    BY <1>5, <1>6 DEF Joined
  <2>2. PICK j \in 1..Len(ss[i]) : p = at[i] + j
    BY <2>1
  <2>3. kept[p] = ss[i][j]
    BY <1>5, <2>2 DEF Joined
  <2>4. i \in P
    <3>1. j \in 1..0 => FALSE
      OBVIOUS
    <3> QED BY <1>2, <1>11, <2>2, <3>1
  <2>5. j = 1
    <3>1. Len(ss[i]) = 1
      BY <1>2, <1>7, <2>4
    <3> QED BY <3>1
  <2> QED BY <1>1, <1>2, <1>7, <2>3, <2>4, <2>5
<1>9. \A k \in DOMAIN s : k \in P => at[k] + 1 \in DOMAIN kept /\ kept[at[k] + 1] = s[k]
  <2> TAKE k \in DOMAIN s
  <2> HAVE k \in P
  <2>1. k \in 1..Len(ss) /\ Len(ss[k]) = 1 /\ ss[k][1] = s[k]
    BY <1>1, <1>2, <1>7
  <2>2. at[k] \in Nat /\ at[k + 1] = at[k] + Len(ss[k]) /\ at[k + 1] <= Len(kept) /\ kept[at[k] + 1] = ss[k][1]
    <3>1. 1 \in 1..Len(ss[k])
      BY <2>1
    <3> QED BY <1>5, <2>1, <3>1 DEF Joined
  <2> QED BY <1>6, <2>1, <2>2
<1>10. DOMAIN s \subseteq P => kept = s
  <2> HAVE DOMAIN s \subseteq P
  <2>1. \A i \in 1..Len(ss) : Len(ss[i]) = 1
    BY <1>1, <1>2, <1>7
  <2>2. \A d \in 0..Len(s) : at[1 + d] = d
    <3> TAKE d \in 0..Len(s)
    <3>1. CASE Len(s) = 0
      BY <1>5, <3>1 DEF Joined
    <3>2. CASE Len(s) # 0
      <4>1. at[1 + d] = at[1] + d
        <5>1. /\ Len(ss) \in Nat /\ 1 \in 1..Len(ss) /\ d \in Nat /\ 1 + d <= Len(ss) + 1
              /\ \A k \in 1 .. 1 + d - 1 : Len(ss[k]) = 1
          BY <1>1, <1>2, <2>1, <3>2
        <5> QED BY <1>5, <5>1, SingleSteps
      <4> QED BY <1>5, <4>1 DEF Joined
    <3> QED BY <3>1, <3>2
  <2>3. Len(kept) = Len(s)
    <3>1. Len(s) \in 0..Len(s) /\ 1 + Len(s) = Len(ss) + 1
      BY <1>1, <1>2
    <3>2. at[Len(ss) + 1] = Len(s)
      BY <2>2, <3>1
    <3> QED BY <1>5, <3>2 DEF Joined
  <2>4. \A k \in 1..Len(s) : kept[k] = s[k]
    <3> TAKE k \in 1..Len(s)
    <3>1. at[1 + (k - 1)] = k - 1 /\ 1 + (k - 1) = k /\ k - 1 + 1 = k
      BY <2>2
    <3> QED BY <1>1, <1>9, <3>1
  <2> QED BY <1>1, <1>4, <1>6, <2>3, <2>4
<1> QED BY <1>1, <1>4, <1>8, <1>9, <1>10

\* A sound sequence stays sound when messages are dropped.
LEMMA SoundKept ==
  ASSUME NEW ms, Sound(ms), NEW P
  PROVE  Sound(Pipeline!Keep(ms, P))
<1> DEFINE ss == [i \in DOMAIN ms |-> IF i \in P THEN <<ms[i]>> ELSE <<>>]
<1>1. \A i \in DOMAIN ms : ms[i] \in Messages /\ Proper(ms[i])
  BY DEF Sound
<1>2. \A i \in DOMAIN ms : ss[i] = <<ms[i]>> \/ ss[i] = <<>>
  OBVIOUS
<1>3. ss = [i \in DOMAIN ms |-> ss[i]]
  OBVIOUS
<1>4. Pipeline!Keep(ms, P) = Pipeline!FlattenSeq(ss)
  BY DEF Pipeline!Keep, Pipeline!Flat
<1> HIDE DEF ss
<1>5. \A i \in DOMAIN ms : /\ Sound(ss[i])
                           /\ \A j \in DOMAIN ss[i] : MadeBy(ss[i][j]) \subseteq MadeBy(ms[i])
  <2> TAKE i \in DOMAIN ms
  <2>1. Sound(ss[i])
    BY <1>1, <1>2, SoundNone, SoundOne
  <2>2. \A j \in DOMAIN ss[i] : ss[i][j] = ms[i]
    BY <1>2
  <2> QED BY <2>1, <2>2
<1> QED BY <1>3, <1>4, <1>5, SoundFlat

\* The places of two sequences that are joined.
LEMMA InFirst ==
  \A x, y \in Nat : \A k \in 1..x : k \in 1..(x + y)
OBVIOUS

LEMMA InSecond ==
  \A x, y \in Nat : \A k \in 1..y : x + k \in 1..(x + y)
OBVIOUS

\* The messages that make the call, in OpenAI's format.
Callers(ms, id) == {i \in 1..Len(ms) : \E k \in DOMAIN ms[i].calls : ms[i].calls[k].id = id}

\* The owner of a result is the last that makes its call.
LEMMA OwnerIs ==
  ASSUME NEW ms \in Seq(Messages), NEW id
  PROVE  /\ Pipeline!Owner(ms, id) \in 0..Len(ms)
         /\ Pipeline!Owner(ms, id) = 0 <=> Callers(ms, id) = {}
         /\ Pipeline!Owner(ms, id) # 0 => Pipeline!Owner(ms, id) \in Callers(ms, id)
<1>1. Pipeline!Owner(ms, id) = IF Callers(ms, id) # {} THEN Pipeline!Max(Callers(ms, id)) ELSE 0
  BY DEF Pipeline!Owner, Pipeline!SelectLastInSeq, Pipeline!Has, Callers
<1>2. Len(ms) \in Nat /\ Callers(ms, id) \in SUBSET (0..Len(ms)) /\ Callers(ms, id) \in SUBSET (1..Len(ms))
  BY DEF Callers
<1>3. CASE Callers(ms, id) = {}
  BY <1>1, <1>2, <1>3
<1>4. CASE Callers(ms, id) # {}
  <2>1. Pipeline!Max(Callers(ms, id)) \in Callers(ms, id)
    BY <1>2, <1>4, MaxIs
  <2> QED BY <1>1, <1>2, <1>4, <2>1
<1> QED BY <1>3, <1>4

\* The ids of a message's calls are among those it makes.
LEMMA CallIsMade ==
  ASSUME NEW m \in Messages, Proper(m)
  PROVE  /\ m.calls # <<>> => m.role = "assistant"
         /\ m.role # "assistant" => DOMAIN m.calls = {}
         /\ \A k \in DOMAIN m.calls : m.calls[k].id \in MadeBy(m) /\ m.calls[k] \in ToolCalls
         /\ m.role = "assistant" => \A k \in DOMAIN m.blocks : m.blocks[k].id \in MadeBy(m)
<1>1. /\ m.calls \in Seq(ToolCalls) /\ m.blocks \in Seq(Blocks)
      /\ DOMAIN m.calls = 1..Len(m.calls) /\ Len(m.calls) \in Nat
      /\ DOMAIN m.blocks = 1..Len(m.blocks) /\ Len(m.blocks) \in Nat
      /\ \A k \in DOMAIN m.calls : m.calls[k] \in ToolCalls
  <2>1. m.calls \in Seq(ToolCalls) /\ m.blocks \in Seq(Blocks)
    BY DEF Messages
  <2> QED BY <2>1
<1>2. m.calls # <<>> => m.role = "assistant"
  BY DEF Proper
<1>3. m.role # "assistant" => DOMAIN m.calls = {}
  <2> HAVE m.role # "assistant"
  <2>1. m.calls = <<>>
    BY <1>2
  <2> QED BY <2>1
<1>4. /\ DOMAIN Pipeline!CallsOf(m) = 1..(Len(m.calls) + Len(m.blocks))
      /\ \A k \in 1..Len(m.calls) : Pipeline!CallsOf(m)[k] = m.calls[k].id
      /\ \A k \in 1..Len(m.blocks) : Pipeline!CallsOf(m)[Len(m.calls) + k] = m.blocks[k].id
  <2>1. /\ Pipeline!CallsOf(m) \in Seq(Seq(Nat))
        /\ Len(Pipeline!CallsOf(m)) = Len(m.calls) + Len(m.blocks)
    BY MadeTypes
  <2>2. DOMAIN Pipeline!CallsOf(m) = 1..Len(Pipeline!CallsOf(m))
    BY ONLY <2>1
  <2> QED BY <2>1, <2>2, MadeTypes
<1>5. \A k \in DOMAIN m.calls : m.calls[k].id \in MadeBy(m)
  <2> TAKE k \in DOMAIN m.calls
  <2>1. m.role = "assistant"
    BY <1>3
  <2>2. k \in DOMAIN Pipeline!CallsOf(m) /\ Pipeline!CallsOf(m)[k] = m.calls[k].id
    <3>1. k \in 1..Len(m.calls) /\ k \in 1..(Len(m.calls) + Len(m.blocks))
      <4>1. k \in 1..Len(m.calls) /\ Len(m.calls) \in Nat /\ Len(m.blocks) \in Nat
        BY <1>1, Zenon
      <4> QED BY ONLY <4>1, InFirst, Zenon
    <3> QED BY ONLY <1>4, <3>1
  <2> QED BY <2>1, <2>2 DEF MadeBy
<1>6. m.role = "assistant" => \A k \in DOMAIN m.blocks : m.blocks[k].id \in MadeBy(m)
  <2> HAVE m.role = "assistant"
  <2> TAKE k \in DOMAIN m.blocks
  <2>1. Len(m.calls) + k \in DOMAIN Pipeline!CallsOf(m) /\ Pipeline!CallsOf(m)[Len(m.calls) + k] = m.blocks[k].id
    <3>1. k \in 1..Len(m.blocks) /\ Len(m.calls) + k \in 1..(Len(m.calls) + Len(m.blocks))
      <4>1. k \in 1..Len(m.blocks) /\ Len(m.calls) \in Nat /\ Len(m.blocks) \in Nat
        BY <1>1, Zenon
      <4> QED BY ONLY <4>1, InSecond, Zenon
    <3> QED BY ONLY <1>4, <3>1
  <2> QED BY <2>1 DEF MadeBy
<1> QED BY <1>1, <1>2, <1>3, <1>5, <1>6

\* In a sound sequence the call has one caller.
LEMMA OneOwner ==
  ASSUME NEW ms, Sound(ms), NEW a \in DOMAIN ms, NEW k \in DOMAIN ms[a].calls
  PROVE  Pipeline!Owner(ms, ms[a].calls[k].id) = a
<1> DEFINE id == ms[a].calls[k].id
           o == Pipeline!Owner(ms, id)
<1>1. ms \in Seq(Messages) /\ DOMAIN ms = 1..Len(ms) /\ \A i \in DOMAIN ms : ms[i] \in Messages /\ Proper(ms[i])
  BY DEF Sound
<1>2. a \in Callers(ms, id)
  BY <1>1 DEF Callers
<1>3. o \in Callers(ms, id)
  BY <1>1, <1>2, OwnerIs
<1> HIDE DEF o
<1>4. o \in DOMAIN ms /\ \E j \in DOMAIN ms[o].calls : ms[o].calls[j].id = id
  BY <1>1, <1>3 DEF Callers
<1>5. id \in MadeBy(ms[o])
  BY <1>1, <1>4, CallIsMade
<1>6. id \in MadeBy(ms[a])
  BY <1>1, CallIsMade
<1>7. o = a
  BY <1>4, <1>5, <1>6 DEF Sound, Apart
<1> QED BY <1>7 DEF o

\* Where the results of a message end.
LEMMA EndIs ==
  ASSUME NEW ms \in Seq(Messages), NEW a \in DOMAIN ms
  PROVE  LET e == Pipeline!EndOfResults(ms, a) IN
         /\ e \in a..Len(ms) /\ e \in DOMAIN ms
         /\ e = Len(ms) \/ ms[e + 1].role # "tool"
         /\ \A j \in a + 1 .. e : ms[j].role = "tool"
<1> DEFINE T == {i \in a..Len(ms) : i = Len(ms) \/ ms[i + 1].role # "tool"}
           e == Pipeline!Min(T)
<1>1. T \in SUBSET Nat /\ Len(ms) \in T
  OBVIOUS
<1>2. e \in T /\ \A y \in T : e <= y
  <2> HIDE DEF T
  <2> QED BY <1>1, MinIs
<1>3. Pipeline!EndOfResults(ms, a) = e
  BY DEF Pipeline!EndOfResults
<1>4. e \in a..Len(ms) /\ (e = Len(ms) \/ ms[e + 1].role # "tool") /\ e \in DOMAIN ms
  BY <1>2
<1>5. \A j \in a + 1 .. e : ms[j].role = "tool"
  <2> TAKE j \in a + 1 .. e
  <2>1. j - 1 \in a..Len(ms) /\ ~ (e <= j - 1) /\ j - 1 + 1 = j
    BY <1>4
  <2>2. j - 1 \notin T
    <3> HIDE DEF T
    <3> QED BY <1>2, <2>1
  <2> QED BY <2>1, <2>2
<1> QED BY <1>3, <1>4, <1>5

LEMMA AskedIs ==
  ASSUME NEW ms \in Seq(Messages), NEW i \in DOMAIN ms
  PROVE  LET a == Pipeline!AskedBy(ms, i) IN
         /\ a \in 0..i
         /\ a # 0 => /\ a \in DOMAIN ms /\ ms[a].role # "tool"
                     /\ i = Len(ms) \/ ms[i + 1].role # "tool"
                     /\ \A j \in a + 1 .. i : ms[j].role = "tool"
<1> DEFINE T == {0} \cup {a \in 1..i : ms[a].role # "tool"}
           a == Pipeline!Max(T)
<1>1. i \in Nat /\ i \in 1..Len(ms) /\ Len(ms) \in Nat
  OBVIOUS
<1>2. T \in SUBSET (0..i) /\ T # {}
  BY <1>1
<1>3. a \in T /\ \A y \in T : y <= a
  <2> HIDE DEF T
  <2> QED BY <1>1, <1>2, MaxIs
<1>4. Pipeline!AskedBy(ms, i) = IF i < Len(ms) /\ ms[i + 1].role = "tool" THEN 0 ELSE a
  BY DEF Pipeline!AskedBy
<1>5. a \in 0..i
  BY <1>2, <1>3
<1>6. \A j \in a + 1 .. i : ms[j].role = "tool"
  <2> TAKE j \in a + 1 .. i
  <2>1. ~ (j <= a) /\ j \in 1..i
    BY <1>1, <1>5
  <2>2. j \notin T
    <3> HIDE DEF T
    <3> QED BY <1>3, <2>1
  <2> QED BY <2>1, <2>2
<1>7. a # 0 => a \in DOMAIN ms /\ ms[a].role # "tool"
  BY <1>1, <1>3
<1> HIDE DEF a, T
<1> QED BY <1>1, <1>4, <1>5, <1>6, <1>7

\* Where the results of a message end, it is the one that asked.
LEMMA AskedAtEnd ==
  ASSUME NEW ms \in Seq(Messages), NEW a \in DOMAIN ms, ms[a].role # "tool"
  PROVE  Pipeline!AskedBy(ms, Pipeline!EndOfResults(ms, a)) = a
<1> DEFINE e == Pipeline!EndOfResults(ms, a)
           T == {0} \cup {b \in 1..e : ms[b].role # "tool"}
           b == Pipeline!Max(T)
<1>1. /\ e \in a..Len(ms) /\ e \in DOMAIN ms
      /\ e = Len(ms) \/ ms[e + 1].role # "tool"
      /\ \A j \in a + 1 .. e : ms[j].role = "tool"
  BY EndIs
<1> HIDE DEF e
<1>2. a \in T /\ T \in SUBSET (0..e) /\ e \in Nat /\ T # {}
  BY <1>1
<1>3. b \in T /\ \A y \in T : y <= b
  <2> HIDE DEF T
  <2> QED BY <1>2, MaxIs
<1>4. Pipeline!AskedBy(ms, e) = b
  BY <1>1 DEF Pipeline!AskedBy
<1>5. b \in 0..e /\ a <= b
  <2> HIDE DEF T
  <2> QED BY <1>2, <1>3
<1>6. b \in a + 1 .. e => FALSE
  <2> HAVE b \in a + 1 .. e
  <2>1. ms[b].role = "tool"
    BY <1>1
  <2>2. b # 0 /\ b \in {c \in 1..e : ms[c].role # "tool"}
    BY <1>3
  <2> QED BY <2>1, <2>2
<1> HIDE DEF b
<1>7. b = a
  BY <1>1, <1>5, <1>6
<1> QED BY <1>4, <1>7 DEF e

\* Part of a sound sequence, a message without calls, and a later part.
LEMMA SoundAround ==
  ASSUME NEW ms, Sound(ms), NEW m \in Messages, Proper(m), MadeBy(m) = {},
         NEW a \in 0..Len(ms), NEW b \in a..Len(ms)
  PROVE  LET s == SubSeq(ms, 1, a) \o <<m>> \o SubSeq(ms, b + 1, Len(ms)) IN
         Sound(s) /\ Len(s) = a + 1 + (Len(ms) - b)
<1>1. ms \in Seq(Messages) /\ Len(ms) \in Nat /\ a \in Nat /\ b \in Nat /\ a <= Len(ms)
  BY DEF Sound
<1>2. Sound(SubSeq(ms, 1, a)) /\ Sound(SubSeq(ms, b + 1, Len(ms))) /\ Sound(<<m>>)
  <2>1. 1 \in Nat \ {0} /\ b + 1 \in Nat \ {0} /\ Len(ms) <= Len(ms)
    BY <1>1
  <2> QED BY <1>1, <2>1, SoundPart, SoundOne
<1> DEFINE s == SubSeq(ms, 1, a)
           t == SubSeq(ms, b + 1, Len(ms))
           n == <<m>>
<1>3. /\ s \in Seq(Messages) /\ Len(s) = a /\ \A i \in DOMAIN s : i \in 1..a /\ i \in DOMAIN ms /\ s[i] = ms[i]
  BY <1>1
<1>4. t \in Seq(Messages) /\ Len(t) = Len(ms) - b
  BY <1>1
<1>10. \A i \in DOMAIN t : b + i \in DOMAIN ms /\ b + i > a /\ t[i] = ms[b + i]
  BY <1>1
<1>5. n \in Seq(Messages) /\ Len(n) = 1 /\ \A i \in DOMAIN n : n[i] = m
  OBVIOUS
<1> HIDE DEF s, t, n
<1>6. Foreign(s, n)
  BY <1>5 DEF Foreign
<1>7. Sound(s \o n)
  BY <1>2, <1>6, SoundJoin DEF s, n
<1>8. /\ s \o n \in Seq(Messages) /\ Len(s \o n) = a + 1
      /\ \A j \in 1..a : (s \o n)[j] = s[j]
      /\ (s \o n)[a + 1] = m
  <2>1. /\ Len(s \o n) = Len(s) + Len(n)
        /\ \A j \in 1..Len(s) : (s \o n)[j] = s[j]
        /\ \A j \in 1..Len(n) : (s \o n)[Len(s) + j] = n[j]
    <3>1. s \in Seq(Messages) /\ n \in Seq(Messages)
      BY <1>3, <1>5
    <3> QED BY ONLY <3>1, JoinPlaces
  <2>2. 1 \in 1..Len(n) /\ n[1] = m
    BY <1>5
  <2> QED BY <1>3, <1>5, <1>7, <2>1, <2>2 DEF Sound
<1>9. Foreign(s \o n, t)
  <2> SUFFICES ASSUME NEW i \in DOMAIN (s \o n), NEW j \in DOMAIN t
               PROVE  MadeBy((s \o n)[i]) \cap MadeBy(t[j]) = {}
    BY DEF Foreign
  <2>1. i \in 1..(a + 1)
    BY <1>8
  <2>2. CASE i \in 1..a
    <3>1. i \in DOMAIN s
      BY <1>3, <2>2
    <3>2. i \in DOMAIN ms /\ (s \o n)[i] = ms[i]
      BY <1>3, <1>8, <2>2, <3>1
    <3>3. b + j \in DOMAIN ms /\ b + j > a /\ t[j] = ms[b + j]
      BY <1>10
    <3>4. i # b + j
      BY <1>1, <2>2, <3>3
    <3> QED BY <3>2, <3>3, <3>4 DEF Sound, Apart
  <2>3. CASE i \notin 1..a
    <3>1. i = a + 1
      BY <1>1, <2>1, <2>3
    <3> QED BY <1>8, <3>1
  <2> QED BY <2>2, <2>3
<1>11. Sound(s \o n \o t)
  BY <1>2, <1>7, <1>9, SoundJoin DEF t
<1>12. Len(s \o n \o t) = a + 1 + (Len(ms) - b)
  <2>1. Len((s \o n) \o t) = Len(s \o n) + Len(t)
    BY <1>8, <1>4, JoinPlaces
  <2> QED BY ONLY <1>4, <1>8, <2>1
<1> QED BY <1>11, <1>12 DEF s, t, n

\* A result may be inserted anywhere.
LEMMA SoundInserted ==
  ASSUME NEW ms, Sound(ms), NEW m \in Messages, Proper(m), m.role = "tool", NEW a \in DOMAIN ms
  PROVE  /\ Sound(Pipeline!InsertAfterResults(ms, a, m))
         /\ Len(Pipeline!InsertAfterResults(ms, a, m)) = Len(ms) + 1
<1> DEFINE e == Pipeline!EndOfResults(ms, a)
           s == Pipeline!InsertAfterResults(ms, a, m)
<1>1. ms \in Seq(Messages) /\ Len(ms) \in Nat /\ DOMAIN ms = 1..Len(ms)
  BY DEF Sound
<1>2. e \in a..Len(ms)
  BY <1>1, EndIs
<1>3. s = SubSeq(ms, 1, (e + 1) - 1) \o <<m>> \o SubSeq(ms, e + 1, Len(ms))
  BY DEF Pipeline!InsertAfterResults, Pipeline!InsertAt
<1> HIDE DEF e, s
<1>4. e \in Nat /\ (e + 1) - 1 = e /\ e \in 0..Len(ms) /\ e \in e..Len(ms)
  BY <1>1, <1>2
<1>5. s = SubSeq(ms, 1, e) \o <<m>> \o SubSeq(ms, e + 1, Len(ms))
  BY ONLY <1>3, <1>4, Zenon
<1>6. MadeBy(m) = {}
  BY DEF MadeBy
<1>7. Sound(s) /\ Len(s) = e + 1 + (Len(ms) - e)
  BY <1>4, <1>5, <1>6, SoundAround
<1>8. e + 1 + (Len(ms) - e) = Len(ms) + 1
  BY ONLY <1>1, <1>4
<1> QED BY <1>7, <1>8 DEF s

\* f[0] is basis, and every step leads from one value to the next.
Steps(f, S, n, basis, step) ==
  f \in [0..n -> S] /\ f[0] = basis /\ \A k \in 1..n : f[k] = step[k][f[k - 1]]

\* A function defined by recursion over places is what its definition says.
LEMMA RecursionExists ==
  ASSUME NEW S, NEW n \in Nat, NEW basis \in S, NEW step \in [1..n -> [S -> S]]
  PROVE  \E f : Steps(f, S, n, basis, step)
<1> DEFINE Up(m, f) == Steps(f, S, m, basis, step)
           U == {m \in 0..n : ~ \E f : Up(m, f)}
<1>1. U = {}
  <2> SUFFICES ASSUME U # {} PROVE FALSE
    OBVIOUS
  <2>1. PICK m \in U : \A j \in U : m <= j
    <3> U \in SUBSET Nat
      OBVIOUS
    <3> HIDE DEF U
    <3> QED BY LeastExists
  <2>2. m \in 0..n /\ ~ \E f : Up(m, f)
    BY <2>1
  <2>3. CASE m = 0
    <3>1. Up(0, [k \in 0..0 |-> basis])
      BY DEF Steps
    <3> HIDE DEF Up
    <3> QED BY <2>2, <2>3, <3>1
  <2>4. CASE m # 0
    <3>1. m \in 1..n /\ m - 1 \in 0..n /\ ~ (m <= m - 1)
      BY <2>2, <2>4
    <3>2. m - 1 \notin U
      <4> HIDE DEF U
      <4> QED BY <2>1, <3>1
    <3>3. \E f : Up(m - 1, f)
      BY <3>1, <3>2
    <3>4. PICK f : Up(m - 1, f)
      <4> HIDE DEF Up
      <4> QED BY <3>3
    <3>5. f[m - 1] \in S /\ m - 1 \in 0..(m - 1)
      BY <3>1, <3>4 DEF Steps
    <3>6. step[m] \in [S -> S]
      BY <3>1
    <3>7. step[m][f[m - 1]] \in S
      BY <3>5, <3>6
    <3> DEFINE g == [k \in 0..m |-> IF k = m THEN step[m][f[m - 1]] ELSE f[k]]
    <3>8. \A k \in 0..m : k # m => k \in 0..(m - 1)
      BY <3>1
    <3>9. g \in [0..m -> S]
      BY <3>4, <3>7, <3>8 DEF Steps
    <3>10. g[0] = basis
      BY <2>4, <3>1, <3>4 DEF Steps
    <3>11. \A k \in 1..m : g[k] = step[k][g[k - 1]]
      <4> TAKE k \in 1..m
      <4>1. k - 1 \in 0..m /\ k - 1 # m /\ k \in 0..m
        BY <3>1
      <4>2. g[k - 1] = f[k - 1]
        BY <4>1
      <4>3. CASE k = m
        BY <4>1, <4>2, <4>3
      <4>4. CASE k # m
        <5>1. k \in 1..(m - 1)
          BY <3>1, <4>4
        <5>2. g[k] = f[k] /\ f[k] = step[k][f[k - 1]]
          BY <3>4, <4>1, <4>4, <5>1 DEF Steps
        <5> QED BY <4>2, <5>2
      <4> QED BY <4>3, <4>4
    <3> HIDE DEF g
    <3>12. Up(m, g)
      BY <3>9, <3>10, <3>11 DEF Steps
    <3> HIDE DEF Up
    <3> QED BY <2>2, <3>12
  <2> QED BY <2>3, <2>4
<1>2. \E f : Up(n, f)
  <2>1. n \in 0..n /\ n \notin U
    <3> HIDE DEF U
    <3> QED BY <1>1
  <2> HIDE DEF Up
  <2> QED BY <2>1
<1> QED BY <1>2

\* Messages that are moved stay behind a message that makes their call.
LEMMA RelocatedSound ==
  ASSUME NEW ms, Sound(ms)
  PROVE  Sound(Pipeline!Relocated(ms))
<1> DEFINE stray == {i \in Pipeline!Tools(ms) : LET a == Pipeline!Owner(ms, ms[i].answers)
                                                IN  a > 0 /\ ~Pipeline!Adjacent(ms, i, a)}
           rest == Pipeline!Drop(ms, stray)
           moved == Pipeline!Keep(ms, stray)
           n == Len(moved)
           o(k) == Pipeline!Owner(rest, moved[k].answers)
           Puts(f) == f = [k \in 0..n |-> IF k = 0 THEN rest
                                          ELSE Pipeline!InsertAfterResults(f[k - 1], o(k), moved[k])]
           S == {s \in Seq(Messages) : Sound(s) /\ Len(s) >= Len(rest)}
           step == [k \in 1..n |-> [s \in S |-> Pipeline!InsertAfterResults(s, o(k), moved[k])]]
<1>1. Pipeline!Relocated(ms) = (CHOOSE f : Puts(f))[n]
  BY DEF Pipeline!Relocated
<1>2. ms \in Seq(Messages) /\ DOMAIN ms = 1..Len(ms) /\ \A i \in DOMAIN ms : ms[i] \in Messages /\ Proper(ms[i])
  BY DEF Sound
<1>3. /\ Sound(rest) /\ Sound(moved)
      /\ rest \in Seq(Messages) /\ moved \in Seq(Messages) /\ n \in Nat /\ Len(rest) \in Nat
  <2>1. Sound(rest) /\ Sound(moved)
    BY SoundKept DEF Pipeline!Drop
  <2> HIDE DEF rest, moved
  <2> QED BY <2>1 DEF Sound
<1>4. \A i \in stray : /\ i \in DOMAIN ms /\ ms[i].role = "tool"
                       /\ \E c \in DOMAIN ms : /\ ms[c].role # "tool"
                                               /\ \E k \in DOMAIN ms[c].calls : ms[c].calls[k].id = ms[i].answers
  <2> TAKE i \in stray
  <2>1. i \in DOMAIN ms /\ ms[i].role = "tool" /\ Pipeline!Owner(ms, ms[i].answers) > 0
    BY DEF Pipeline!Tools
  <2>2. PICK c \in 1..Len(ms) : \E k \in DOMAIN ms[c].calls : ms[c].calls[k].id = ms[i].answers
    <3>1. Pipeline!Owner(ms, ms[i].answers) \in 0..Len(ms)
      BY <1>2, OwnerIs
    <3>2. Pipeline!Owner(ms, ms[i].answers) # 0
      BY <2>1, <3>1
    <3>3. Pipeline!Owner(ms, ms[i].answers) \in Callers(ms, ms[i].answers)
      BY <1>2, <3>2, OwnerIs
    <3> QED BY <3>3 DEF Callers
  <2>3. c \in DOMAIN ms /\ DOMAIN ms[c].calls # {}
    BY <1>2, <2>2
  <2>4. ms[c].role # "tool"
    <3>1. ms[c].role # "assistant" => DOMAIN ms[c].calls = {}
      BY <1>2, <2>3, CallIsMade
    <3> QED BY <2>3, <3>1
  <2> QED BY <2>1, <2>2, <2>3, <2>4
<1>5. \A k \in 1..n : moved[k] \in Messages /\ Proper(moved[k]) /\ moved[k].role = "tool" /\ o(k) \in 1..Len(rest)
  <2> TAKE k \in 1..n
  <2>1. k \in DOMAIN moved
    <3> HIDE DEF moved
    <3> QED BY <1>3
  <2>2. PICK i \in DOMAIN ms : i \in stray /\ moved[k] = ms[i]
    BY <1>2, <2>1, KeepIs
  <2>3. PICK c \in DOMAIN ms : /\ ms[c].role # "tool"
                               /\ \E j \in DOMAIN ms[c].calls : ms[c].calls[j].id = ms[i].answers
    <3> HIDE DEF stray
    <3> QED BY <1>4, <2>2
  <2>4. c \in DOMAIN ms \ stray
    <3> HIDE DEF stray
    <3> QED BY <1>4, <2>3
  <2>5. \E p \in DOMAIN rest : rest[p] = ms[c]
    <3>1. \A P : c \in P => \E p \in DOMAIN Pipeline!Keep(ms, P) : Pipeline!Keep(ms, P)[p] = ms[c]
      BY <1>2, KeepIs
    <3>2. rest = Pipeline!Keep(ms, DOMAIN ms \ stray)
      BY DEF Pipeline!Drop
    <3> HIDE DEF rest, stray
    <3> QED BY <2>4, <3>1, <3>2
  <2>6. PICK p \in DOMAIN rest : rest[p] = ms[c]
    BY <2>5
  <2>10. moved[k].answers = ms[i].answers
    <3> HIDE DEF moved, stray
    <3> QED BY <2>2
  <2> HIDE DEF rest, moved, stray, n
  <2>7. p \in Callers(rest, ms[i].answers)
    BY <1>3, <2>3, <2>6 DEF Callers
  <2>8. Pipeline!Owner(rest, ms[i].answers) \in 1..Len(rest)
    <3>1. Pipeline!Owner(rest, ms[i].answers) \in 0..Len(rest) /\ Pipeline!Owner(rest, ms[i].answers) # 0
      BY <1>3, <2>7, OwnerIs
    <3> QED BY <1>3, <3>1
  <2>9. o(k) \in 1..Len(rest)
    BY <2>8, <2>10
  <2>11. ms[i].role = "tool"
    BY <1>4, <2>2
  <2> QED BY <1>2, <2>2, <2>9, <2>11
<1> HIDE DEF rest, moved, stray, n
<1>6. step \in [1..n -> [S -> S]]
  <2> SUFFICES ASSUME NEW s \in S, NEW k \in 1..n
               PROVE  Pipeline!InsertAfterResults(s, o(k), moved[k]) \in S
    OBVIOUS
  <2>1. s \in Seq(Messages) /\ Sound(s) /\ Len(s) \in Nat /\ Len(s) >= Len(rest)
    OBVIOUS
  <2>2. o(k) \in DOMAIN s
    <3>1. o(k) \in 1..Len(rest)
      BY <1>5
    <3> HIDE DEF o
    <3> QED BY <1>3, <2>1, <3>1
  <2> DEFINE t == Pipeline!InsertAfterResults(s, o(k), moved[k])
  <2>3. Sound(t) /\ Len(t) = Len(s) + 1
    BY <1>5, <2>1, <2>2, SoundInserted
  <2> HIDE DEF t, o
  <2>4. t \in Seq(Messages)
    BY <2>3 DEF Sound
  <2>5. Len(t) >= Len(rest)
    BY ONLY <1>3, <2>1, <2>3
  <2>6. t \in S
    BY <2>3, <2>4, <2>5
  <2> QED BY <2>6 DEF t
<1>7. rest \in S
  BY <1>3
<1>8. \E f : Puts(f)
  <2>0. PICK f : Steps(f, S, n, rest, step)
    <3> HIDE DEF S, step
    <3>1. n \in Nat
      BY <1>3
    <3> QED BY ONLY <1>6, <1>7, <3>1, RecursionExists
  <2>1. f \in [0..n -> S] /\ f[0] = rest /\ \A k \in 1..n : f[k] = step[k][f[k - 1]]
    <3> HIDE DEF S, step
    <3> QED BY <2>0 DEF Steps
  <2>2. \A k \in 1..n : f[k] = Pipeline!InsertAfterResults(f[k - 1], o(k), moved[k])
    <3> TAKE k \in 1..n
    <3>1. k - 1 \in 0..n
      BY <1>3
    <3>2. f[k - 1] \in S
      <4> HIDE DEF S
      <4> QED BY <2>1, <3>1
    <3>3. f[k] = step[k][f[k - 1]]
      BY <2>1
    <3> HIDE DEF S, o
    <3> QED BY <3>2, <3>3
  <2>3. \A k \in 0..n : f[k] = IF k = 0 THEN rest ELSE Pipeline!InsertAfterResults(f[k - 1], o(k), moved[k])
    <3> TAKE k \in 0..n
    <3>1. CASE k = 0
      BY <2>1, <3>1
    <3>2. CASE k # 0
      <4>1. k \in 1..n
        BY <1>3, <3>2
      <4> HIDE DEF o
      <4> QED BY <2>2, <3>2, <4>1
    <3> QED BY <3>1, <3>2
  <2>4. f = [k \in 0..n |-> f[k]]
    <3> HIDE DEF S
    <3> QED BY <2>1
  <2> HIDE DEF o
  <2>5. Puts(f)
    BY <2>3, <2>4
  <2> QED BY <2>5
<1> DEFINE put == CHOOSE f : Puts(f)
<1>9. Puts(put)
  <2> HIDE DEF Puts
  <2> QED BY <1>8
<1> HIDE DEF put
<1>10. \A k \in 0..n : put[k] = IF k = 0 THEN rest ELSE Pipeline!InsertAfterResults(put[k - 1], o(k), moved[k])
  <2> HIDE DEF o
  <2> QED BY <1>9
<1> HIDE DEF Puts
<1> DEFINE U == {k \in 0..n : put[k] \notin S}
<1>11. U = {}
  <2> SUFFICES ASSUME U # {} PROVE FALSE
    OBVIOUS
  <2>1. PICK k \in U : \A j \in U : k <= j
    <3> U \in SUBSET Nat
      OBVIOUS
    <3> HIDE DEF U
    <3> QED BY LeastExists
  <2>2. k \in 0..n /\ put[k] \notin S
    BY <2>1
  <2>3. k # 0
    <3> HIDE DEF S, o
    <3> QED BY <1>7, <1>10, <2>2
  <2>4. k \in 1..n /\ k - 1 \in 0..n /\ ~ (k <= k - 1)
    BY <1>3, <2>2, <2>3
  <2>5. put[k - 1] \in S
    <3>1. k - 1 \notin U
      <4> HIDE DEF U
      <4> QED BY <2>1, <2>4
    <3> HIDE DEF S
    <3> QED BY <2>4, <3>1
  <2>6. put[k] = step[k][put[k - 1]]
    <3>1. put[k] = Pipeline!InsertAfterResults(put[k - 1], o(k), moved[k])
      <4> HIDE DEF o
      <4> QED BY <1>10, <2>2, <2>3
    <3> HIDE DEF S, o
    <3> QED BY <2>4, <2>5, <3>1
  <2>7. step[k][put[k - 1]] \in S
    <3> HIDE DEF S, step
    <3>1. step[k] \in [S -> S]
      BY <1>6, <2>4
    <3> QED BY ONLY <2>5, <3>1
  <2> HIDE DEF S, step
  <2> QED BY <2>2, <2>6, <2>7
<1>12. put[n] \in S
  <2>1. n \in 0..n
    BY <1>3
  <2> HIDE DEF S
  <2> QED BY <1>11, <2>1
<1>13. Pipeline!Relocated(ms) = put[n]
  BY <1>1 DEF put
<1> QED BY <1>12, <1>13

\* What the guard drops, makes up and compacts leaves the messages sound.
LEMMA OrphansSound ==
  ASSUME NEW ms, Sound(ms)
  PROVE  Sound(Pipeline!WithoutOrphans(ms))
BY SoundKept DEF Pipeline!WithoutOrphans, Pipeline!Drop

\* Messages that make no calls are apart.
LEMMA SoundTools ==
  ASSUME NEW s \in Seq(Messages), \A j \in DOMAIN s : Proper(s[j]) /\ s[j].role = "tool"
  PROVE  Sound(s)
BY DEF Sound, Apart, MadeBy

\* Messages may change if they make no other calls.
LEMMA SoundMapped ==
  ASSUME NEW ms, Sound(ms), NEW s, s = [i \in DOMAIN ms |-> s[i]],
         \A i \in DOMAIN ms : s[i] \in Messages /\ Proper(s[i]) /\ MadeBy(s[i]) \subseteq MadeBy(ms[i])
  PROVE  Sound(s) /\ DOMAIN s = DOMAIN ms
<1>1. ms \in Seq(Messages) /\ DOMAIN ms = 1..Len(ms) /\ Len(ms) \in Nat
  BY DEF Sound
<1>2. s \in [1..Len(ms) -> Messages]
  <2>1. s = [i \in 1..Len(ms) |-> s[i]]
    BY <1>1
  <2>2. \A i \in 1..Len(ms) : s[i] \in Messages
    BY <1>1
  <2> QED BY ONLY <2>1, <2>2, Zenon
<1>3. s \in Seq(Messages) /\ DOMAIN s = DOMAIN ms
  BY <1>1, <1>2
<1>4. Apart(s)
  BY <1>3 DEF Sound, Apart
<1> QED BY <1>3, <1>4 DEF Sound

\* What the constructors of messages make.
LEMMA MessageIs ==
  ASSUME NEW role \in {"system", "user", "assistant", "tool"}, NEW words \in Int, NEW calls \in Seq(ToolCalls),
         NEW blocks \in Seq(Blocks), NEW answers \in Seq(Nat)
  PROVE  [role |-> role, text |-> words, calls |-> calls, blocks |-> blocks, answers |-> answers] \in Messages
BY DEF Messages

LEMMA ToolIs ==
  ASSUME NEW c \in Nat, NEW words \in Int
  PROVE  LET m == Pipeline!ToolResult(<<c>>, words) IN
         /\ m \in Messages /\ m.role = "tool" /\ m.answers = <<c>> /\ m.text = words
         /\ m.calls = <<>> /\ m.blocks = <<>> /\ MadeBy(m) = {}
<1> DEFINE m == Pipeline!ToolResult(<<c>>, words)
<1>1. m = [role |-> "tool", text |-> words, calls |-> <<>>, blocks |-> <<>>, answers |-> <<c>>]
  BY DEF Pipeline!ToolResult, Pipeline!Says
<1>2. <<c>> \in Seq(Nat) /\ <<>> \in Seq(ToolCalls) /\ <<>> \in Seq(Blocks)
  OBVIOUS
<1>3. m \in Messages
  BY <1>1, <1>2, MessageIs
<1> HIDE DEF m
<1> QED BY <1>1, <1>3 DEF MadeBy, m

LEMMA ToolProper ==
  ASSUME NEW c \in 1..asked, NEW words \in Int, asked \in Nat,
         \/ words \in {c, Pipeline!Compacted, Pipeline!ContextCompacted}
         \/ words = Pipeline!Unavailable /\ c \notin SavedResults
  PROVE  /\ Pipeline!ToolResult(<<c>>, words) \in Messages
         /\ Pipeline!ToolResult(<<c>>, words).role = "tool"
         /\ Proper(Pipeline!ToolResult(<<c>>, words))
<1>1. c \in Nat
  OBVIOUS
<1> DEFINE m == Pipeline!ToolResult(<<c>>, words)
<1>2. /\ m \in Messages /\ m.role = "tool" /\ m.answers = <<c>> /\ m.text = words
      /\ m.calls = <<>> /\ m.blocks = <<>> /\ MadeBy(m) = {}
  BY <1>1, ToolIs
<1> HIDE DEF m
<1>3. ProperResult(m)
  BY <1>2 DEF ProperResult
<1> QED BY <1>2, <1>3 DEF Proper, m

\* Each call has a result.
Complete(ms) ==
  \A i \in DOMAIN ms : \A k \in DOMAIN ms[i].calls : Results(ms, ms[i].calls[k].id) # {}

\* What a call is, in OpenAI's format.
LEMMA CallsAreAsked ==
  ASSUME NEW ms, Sound(ms), NEW a \in DOMAIN ms, NEW k \in DOMAIN ms[a].calls
  PROVE  /\ ms[a].role = "assistant" /\ ms[a].calls[k].call \in 1..asked
         /\ ms[a].calls[k].id = <<ms[a].calls[k].call>> /\ ms[a].blocks = <<>>
         /\ ms[a].calls[k] \in ToolCalls /\ ms[a].calls \in Seq(ToolCalls)
<1>1. ms[a] \in Messages /\ Proper(ms[a])
  BY DEF Sound
<1>2. ms[a].role = "assistant" /\ ms[a].calls[k] \in ToolCalls /\ ms[a].calls # <<>>
  <2>1. DOMAIN ms[a].calls # {}
    OBVIOUS
  <2> QED BY <1>1, <2>1, CallIsMade
<1> QED BY <1>1, <1>2 DEF Proper, ProperCalls, Messages

\* A message and results behind it.
LEMMA WithTools ==
  ASSUME NEW m \in Messages, Proper(m), NEW v \in Seq(Messages),
         \A j \in DOMAIN v : Proper(v[j]) /\ v[j].role = "tool"
  PROVE  LET s == <<m>> \o v IN
         /\ s \in Seq(Messages) /\ Len(s) = 1 + Len(v) /\ Len(v) \in Nat /\ s[1] = m
         /\ \A k \in DOMAIN v : 1 + k \in 1..Len(s) /\ s[1 + k] = v[k]
         /\ \A k \in 1..Len(s) : k = 1 \/ (k - 1 \in DOMAIN v /\ s[k] = v[k - 1])
         /\ Sound(s)
         /\ \A j \in DOMAIN s : MadeBy(s[j]) \subseteq MadeBy(m)
<1>1. PICK u : u = <<m>>
  OBVIOUS
<1>2. u \in Seq(Messages) /\ v \in Seq(Messages) /\ Len(u) = 1 /\ u[1] = m /\ DOMAIN u = {1}
  BY <1>1
<1>3. /\ u \o v \in Seq(Messages) /\ Len(u \o v) = Len(u) + Len(v) /\ Len(v) \in Nat
      /\ \A j \in 1..Len(u) : (u \o v)[j] = u[j]
      /\ \A j \in 1..Len(v) : (u \o v)[Len(u) + j] = v[j]
  <2>1. u \in Seq(Messages) /\ v \in Seq(Messages)
    BY <1>2
  <2> QED BY ONLY <2>1, JoinPlaces
<1>4. 1 \in 1..Len(u) /\ DOMAIN v = 1..Len(v)
  BY <1>2
<1>5. (u \o v)[1] = m /\ Len(u \o v) = 1 + Len(v) /\ \A j \in 1..Len(v) : (u \o v)[1 + j] = v[j]
  BY ONLY <1>2, <1>3, <1>4
<1>6. \A k \in 1..Len(v) : 1 + k \in 1..(1 + Len(v))
  BY <1>3
<1>7. \A k \in 1..(1 + Len(v)) : k = 1 \/ (k - 1 \in 1..Len(v) /\ k = 1 + (k - 1))
  BY <1>3
<1>8. \A k \in 1..(1 + Len(v)) : k = 1 \/ (k - 1 \in 1..Len(v) /\ (u \o v)[k] = v[k - 1])
  BY ONLY <1>5, <1>7
<1>9. Sound(u) /\ Sound(v)
  BY <1>1, <1>2, SoundOne, SoundTools
<1>10. \A j \in DOMAIN v : MadeBy(v[j]) = {}
  BY DEF MadeBy
<1>11. Foreign(u, v)
  BY <1>10 DEF Foreign
<1>12. Sound(u \o v)
  BY <1>9, <1>11, SoundJoin
<1>13. \A j \in DOMAIN (u \o v) : MadeBy((u \o v)[j]) \subseteq MadeBy(m)
  <2> TAKE j \in DOMAIN (u \o v)
  <2>1. DOMAIN (u \o v) = 1..(1 + Len(v))
    BY <1>3, <1>5
  <2> QED BY <1>4, <1>5, <1>8, <1>10, <2>1
<1> QED BY <1>1, <1>3, <1>4, <1>5, <1>6, <1>8, <1>12, <1>13

LEMMA CompletedSound ==
  ASSUME NEW ms, Sound(ms), asked \in Nat
  PROVE  Sound(Pipeline!Completed(ms)) /\ Complete(Pipeline!Completed(ms))
<1> DEFINE a(i) == Pipeline!AskedBy(ms, i)
           P(i) == {k \in DOMAIN ms[a(i)].calls :
                      /\ Pipeline!Owner(ms, ms[a(i)].calls[k].id) = a(i)
                      /\ ~ \E j \in DOMAIN ms : ms[j].answers = ms[a(i)].calls[k].id}
           made(i) == IF a(i) = 0 THEN <<>> ELSE Pipeline!Keep(ms[a(i)].calls, P(i))
           t(i) == [k \in DOMAIN made(i) |-> Pipeline!ToolResult(made(i)[k].id, Pipeline!ContextCompacted)]
           ss == [i \in DOMAIN ms |-> <<ms[i]>> \o t(i)]
           s == Pipeline!FlattenSeq(ss)
<1>1. Pipeline!Completed(ms) = s
  BY DEF Pipeline!Completed, Pipeline!Flat, Pipeline!Has
<1> HIDE DEF a, P, made, t, ss, s
<1>2. /\ ms \in Seq(Messages) /\ DOMAIN ms = 1..Len(ms) /\ Len(ms) \in Nat
      /\ \A i \in DOMAIN ms : ms[i] \in Messages /\ Proper(ms[i])
  BY DEF Sound
<1>3. \A i \in DOMAIN ms :
        /\ made(i) \in Seq(ToolCalls)
        /\ \A k \in DOMAIN made(i) : made(i)[k].call \in 1..asked /\ made(i)[k].id = <<made(i)[k].call>>
  <2> TAKE i \in DOMAIN ms
  <2>1. CASE a(i) = 0
    <3>1. made(i) = <<>>
      BY <2>1 DEF made
    <3> QED BY <3>1
  <2>2. CASE a(i) # 0
    <3>1. a(i) \in DOMAIN ms
      BY <1>2, <2>2, AskedIs DEF a
    <3>2. ms[a(i)].calls \in Seq(ToolCalls)
      BY <1>2, <3>1 DEF Messages
    <3>3. made(i) = Pipeline!Keep(ms[a(i)].calls, P(i))
      BY <2>2 DEF made
    <3>4. /\ made(i) \in Seq(ToolCalls)
          /\ \A k \in DOMAIN made(i) : \E j \in DOMAIN ms[a(i)].calls : made(i)[k] = ms[a(i)].calls[j]
      BY <3>2, <3>3, KeepIs
    <3> QED BY <3>1, <3>4, CallsAreAsked
  <2> QED BY <2>1, <2>2
<1>4. \A i \in DOMAIN ms :
        /\ t(i) \in Seq(Messages) /\ DOMAIN t(i) = DOMAIN made(i)
        /\ \A k \in DOMAIN t(i) : /\ t(i)[k].role = "tool" /\ Proper(t(i)[k]) /\ t(i)[k].calls = <<>>
                                  /\ t(i)[k].answers = made(i)[k].id
  <2> TAKE i \in DOMAIN ms
  <2>1. \A k \in DOMAIN made(i) :
          LET m == Pipeline!ToolResult(made(i)[k].id, Pipeline!ContextCompacted) IN
          m \in Messages /\ m.role = "tool" /\ Proper(m) /\ m.calls = <<>> /\ m.answers = made(i)[k].id
    <3> TAKE k \in DOMAIN made(i)
    <3>1. made(i)[k].call \in 1..asked /\ made(i)[k].id = <<made(i)[k].call>>
      BY <1>3
    <3>2. PICK c : c = made(i)[k].call
      OBVIOUS
    <3>3. c \in 1..asked /\ c \in Nat /\ made(i)[k].id = <<c>>
      BY <3>1, <3>2
    <3>4. Pipeline!ContextCompacted \in Int
      BY DEF Pipeline!ContextCompacted
    <3>5. /\ Pipeline!ToolResult(<<c>>, Pipeline!ContextCompacted) \in Messages
          /\ Pipeline!ToolResult(<<c>>, Pipeline!ContextCompacted).role = "tool"
          /\ Proper(Pipeline!ToolResult(<<c>>, Pipeline!ContextCompacted))
      BY <3>3, <3>4, ToolProper
    <3>6. /\ Pipeline!ToolResult(<<c>>, Pipeline!ContextCompacted).calls = <<>>
          /\ Pipeline!ToolResult(<<c>>, Pipeline!ContextCompacted).answers = <<c>>
      BY <3>3, <3>4, ToolIs
    <3> QED BY ONLY <3>3, <3>5, <3>6
  <2>2. made(i) \in Seq(ToolCalls)
    BY <1>3
  <2>3. t(i) \in [DOMAIN made(i) -> Messages]
    BY <2>1 DEF t
  <2>4. t(i) \in Seq(Messages) /\ DOMAIN t(i) = DOMAIN made(i)
    BY <2>2, <2>3
  <2>5. \A k \in DOMAIN made(i) : t(i)[k] = Pipeline!ToolResult(made(i)[k].id, Pipeline!ContextCompacted)
    BY DEF t
  <2> QED BY <2>1, <2>4, <2>5
<1>5. \A i \in DOMAIN ms :
        /\ ss[i] \in Seq(Messages) /\ Len(ss[i]) = 1 + Len(t(i)) /\ Len(t(i)) \in Nat /\ ss[i][1] = ms[i]
        /\ \A k \in DOMAIN t(i) : 1 + k \in 1..Len(ss[i]) /\ ss[i][1 + k] = t(i)[k]
        /\ \A k \in 1..Len(ss[i]) : k = 1 \/ (k - 1 \in DOMAIN t(i) /\ ss[i][k] = t(i)[k - 1])
        /\ Sound(ss[i])
        /\ \A j \in DOMAIN ss[i] : MadeBy(ss[i][j]) \subseteq MadeBy(ms[i])
  <2> TAKE i \in DOMAIN ms
  <2>1. PICK v : v = t(i)
    OBVIOUS
  <2>2. ss[i] = <<ms[i]>> \o v
    BY <2>1 DEF ss
  <2>3. v \in Seq(Messages) /\ \A j \in DOMAIN v : Proper(v[j]) /\ v[j].role = "tool"
    BY <1>4, <2>1
  <2>4. ms[i] \in Messages /\ Proper(ms[i])
    BY <1>2
  <2> QED BY <2>1, <2>2, <2>3, <2>4, WithTools
<1>6. ss = [i \in DOMAIN ms |-> ss[i]]
  BY DEF ss
<1>7. ss \in Seq(Seq(Messages)) /\ Len(ss) = Len(ms) /\ Sound(s)
  BY <1>5, <1>6, SoundFlat DEF s
<1>8. s \in Seq(Messages) /\ DOMAIN s = 1..Len(s)
  BY <1>7 DEF Sound
<1>9. PICK at : Joined(at, ss, s)
  BY <1>7, FlatPlaces DEF s
<1>10. \A i \in DOMAIN ms : \A j \in 1..Len(ss[i]) : at[i] + j \in DOMAIN s /\ s[at[i] + j] = ss[i][j]
  <2> TAKE i \in DOMAIN ms
  <2> TAKE j \in 1..Len(ss[i])
  <2>1. i \in 1..Len(ss)
    BY <1>2, <1>7
  <2>2. at[i] \in Nat /\ at[i + 1] = at[i] + Len(ss[i]) /\ at[i + 1] <= Len(s) /\ s[at[i] + j] = ss[i][j]
    BY <1>9, <2>1 DEF Joined
  <2>3. at[i] + Len(ss[i]) <= Len(s)
    BY <2>2
  <2>4. Len(ss[i]) \in Nat /\ Len(s) \in Nat
    BY <1>5, <1>8
  <2>5. at[i] + j \in 1..Len(s)
    <3>1. \A x, l, n \in Nat : \A y \in 1..l : x + l <= n => x + y \in 1..n
      OBVIOUS
    <3>2. at[i] \in Nat /\ j \in 1..Len(ss[i])
      BY <2>2
    <3> QED BY ONLY <2>3, <2>4, <3>1, <3>2
  <2> QED BY <1>8, <2>2, <2>5
<1>11. \A x \in DOMAIN ms : \A k \in DOMAIN ms[x].calls : Results(s, ms[x].calls[k].id) # {}
  <2> TAKE x \in DOMAIN ms
  <2> TAKE k \in DOMAIN ms[x].calls
  <2> DEFINE id == ms[x].calls[k].id
  <2>1. ms[x].role = "assistant" /\ id = <<ms[x].calls[k].call>> /\ ms[x].calls \in Seq(ToolCalls)
    BY CallsAreAsked
  <2>2. CASE \E j \in DOMAIN ms : ms[j].answers = id
    <3>1. PICK j \in DOMAIN ms : ms[j].answers = id
      BY <2>2
    <3>2. ms[j].role = "tool"
      <4>1. ms[j].role # "tool" => ms[j].answers = <<>>
        BY <1>2 DEF Proper
      <4>2. id # <<>>
        BY <2>1
      <4> QED BY <3>1, <4>1, <4>2
    <3>3. 1 \in 1..Len(ss[j]) /\ ss[j][1] = ms[j]
      BY <1>5
    <3>4. at[j] + 1 \in DOMAIN s /\ s[at[j] + 1] = ms[j]
      BY <1>10, <3>3
    <3> QED BY <3>1, <3>2, <3>4 DEF Results
  <2>3. CASE ~ \E j \in DOMAIN ms : ms[j].answers = id
    <3>1. PICK e : e = Pipeline!EndOfResults(ms, x)
      OBVIOUS
    <3>2. e \in DOMAIN ms
      BY <1>2, <3>1, EndIs
    <3>3. a(e) = x
      BY <1>2, <2>1, <3>1, AskedAtEnd DEF a
    <3>4. Pipeline!Owner(ms, id) = x
      BY OneOwner
    <3>5. k \in P(e)
      BY <2>3, <3>3, <3>4 DEF P
    <3>6. x # 0
      BY <1>2
    <3>7. made(e) = Pipeline!Keep(ms[x].calls, P(e))
      BY <3>3, <3>6 DEF made
    <3>8. \E p \in DOMAIN made(e) : made(e)[p] = ms[x].calls[k]
      BY <2>1, <3>5, <3>7, KeepIs
    <3>9. PICK p \in DOMAIN made(e) : made(e)[p] = ms[x].calls[k]
      BY <3>8
    <3>10. p \in DOMAIN t(e) /\ t(e)[p].role = "tool" /\ t(e)[p].answers = id
      BY <1>4, <3>2, <3>9
    <3>11. 1 + p \in 1..Len(ss[e]) /\ ss[e][1 + p] = t(e)[p]
      BY <1>5, <3>2, <3>10
    <3>12. at[e] + (1 + p) \in DOMAIN s /\ s[at[e] + (1 + p)] = t(e)[p]
      BY <1>10, <3>2, <3>11
    <3> QED BY <3>10, <3>12 DEF Results
  <2> QED BY <2>2, <2>3
<1>12. \A p \in DOMAIN s : \/ s[p].calls = <<>>
                           \/ \E x \in DOMAIN ms : s[p] = ms[x]
  <2> TAKE p \in DOMAIN s
  <2>1. PICK i \in 1..Len(ss) : \E j \in 1..Len(ss[i]) : p = at[i] + j
    BY <1>8, <1>9 DEF Joined
  <2>2. PICK j \in 1..Len(ss[i]) : p = at[i] + j
    BY <2>1
  <2>3. i \in DOMAIN ms /\ s[p] = ss[i][j]
    BY <1>2, <1>7, <1>10, <2>2
  <2>4. j = 1 \/ (j - 1 \in DOMAIN t(i) /\ ss[i][j] = t(i)[j - 1])
    BY <1>5, <2>3
  <2> QED BY <1>4, <1>5, <2>3, <2>4
<1>13. Complete(s)
  BY <1>11, <1>12 DEF Complete
<1> QED BY <1>1, <1>7, <1>13

\* What the program says makes no calls.
LEMMA SaysIs ==
  ASSUME NEW role \in {"system", "user", "assistant"}, NEW words \in Int
  PROVE  LET m == Pipeline!Says(role, words) IN
         /\ m \in Messages /\ m.role = role /\ m.text = words /\ m.calls = <<>> /\ m.blocks = <<>> /\ m.answers = <<>>
         /\ Proper(m) /\ MadeBy(m) = {} /\ Pipeline!CallsOf(m) = <<>>
<1> DEFINE m == Pipeline!Says(role, words)
<1>1. m = [role |-> role, text |-> words, calls |-> <<>>, blocks |-> <<>>, answers |-> <<>>]
  BY DEF Pipeline!Says, Pipeline!NoId
<1>2. <<>> \in Seq(Nat) /\ <<>> \in Seq(ToolCalls) /\ <<>> \in Seq(Blocks)
  OBVIOUS
<1>3. m \in Messages
  BY <1>1, <1>2, MessageIs
<1>4. m.role = role /\ m.text = words /\ m.calls = <<>> /\ m.blocks = <<>> /\ m.answers = <<>>
  BY <1>1
<1> HIDE DEF m
<1>5. MadeBy(m) = {}
  BY <1>3, <1>4, MakesNone
<1>6. Pipeline!CallsOf(m) = <<>>
  <2>1. Len(Pipeline!CallsOf(m)) = Len(m.calls) + Len(m.blocks) /\ Pipeline!CallsOf(m) \in Seq(Seq(Nat))
    BY <1>3, MadeTypes
  <2>2. Len(m.calls) = 0 /\ Len(m.blocks) = 0
    BY <1>4
  <2>3. Len(Pipeline!CallsOf(m)) = 0
    BY ONLY <2>1, <2>2
  <2> QED BY <2>1, <2>3
<1>7. Proper(m)
  <2>1. DOMAIN m.calls = {} /\ DOMAIN m.blocks = {} /\ DOMAIN Pipeline!CallsOf(m) = {}
    BY <1>4, <1>6
  <2>2. ProperCalls(m)
    BY <1>4, <2>1 DEF ProperCalls
  <2> QED BY <1>4, <2>1, <2>2 DEF Proper
<1> QED BY <1>3, <1>4, <1>5, <1>6, <1>7 DEF m

LEMMA TextChanged ==
  ASSUME NEW m \in Messages, NEW words \in Int
  PROVE  [m EXCEPT !.text = words] \in Messages
BY DEF Messages

\* Whatever the guard does to messages that are sound, they stay it.
LEMMA RepairedSound ==
  ASSUME NEW ms, Sound(ms), asked \in Nat
  PROVE  Sound(Pipeline!Repaired(ms)) /\ Complete(Pipeline!Repaired(ms))
BY RelocatedSound, OrphansSound, CompletedSound DEF Pipeline!Repaired

LEMMA ShrunkSound ==
  ASSUME NEW ms, Sound(ms), NEW s \in Pipeline!Shrunk(ms)
  PROVE  Sound(s)
<1> DEFINE free == DOMAIN ms \ Pipeline!Protected(ms)
           compacted(to) == [i \in DOMAIN ms |-> IF i \in free \cap Pipeline!Tools(ms) /\ i < to
                                                THEN [ms[i] EXCEPT !.text = Pipeline!Compacted] ELSE ms[i]]
<1>1. \E to : s = compacted(to) \/ \E u, P : s = Pipeline!Drop(u, P) /\ u = compacted(to)
  BY DEF Pipeline!Shrunk
<1>2. \A to : Sound(compacted(to))
  <2> TAKE to
  <2>1. \A i \in DOMAIN ms : ms[i] \in Messages /\ Proper(ms[i])
    BY DEF Sound
  <2>2. \A i \in Pipeline!Tools(ms) :
          LET m == [ms[i] EXCEPT !.text = Pipeline!Compacted] IN
          m \in Messages /\ Proper(m) /\ MadeBy(m) \subseteq MadeBy(ms[i])
    <3> TAKE i \in Pipeline!Tools(ms)
    <3>1. i \in DOMAIN ms /\ ms[i].role = "tool" /\ ms[i] \in Messages /\ Proper(ms[i])
      BY <2>1 DEF Pipeline!Tools
    <3> DEFINE m == [ms[i] EXCEPT !.text = Pipeline!Compacted]
    <3>2. m \in Messages
      <4>1. Pipeline!Compacted \in Int
        BY DEF Pipeline!Compacted
      <4> QED BY <3>1, <4>1, TextChanged
    <3>3. m.role = "tool" /\ m.calls = ms[i].calls /\ m.blocks = ms[i].blocks /\ m.answers = ms[i].answers /\ m.text = Pipeline!Compacted
      BY <3>1 DEF Messages
    <3> HIDE DEF m
    <3>4. ProperResult(m)
      BY <3>1, <3>3 DEF Proper, ProperResult
    <3>5. Proper(m)
      BY <3>1, <3>3, <3>4 DEF Proper
    <3>6. MadeBy(m) = {}
      BY <3>3 DEF MadeBy
    <3>7. m \in Messages /\ Proper(m) /\ MadeBy(m) \subseteq MadeBy(ms[i])
      BY <3>2, <3>5, <3>6
    <3> QED BY <3>7 DEF m
  <2>3. compacted(to) = [i \in DOMAIN ms |-> compacted(to)[i]]
    OBVIOUS
  <2>4. \A i \in DOMAIN ms : /\ compacted(to)[i] \in Messages /\ Proper(compacted(to)[i])
                             /\ MadeBy(compacted(to)[i]) \subseteq MadeBy(ms[i])
    <3> TAKE i \in DOMAIN ms
    <3>1. CASE i \in free \cap Pipeline!Tools(ms) /\ i < to
      <4>1. compacted(to)[i] = [ms[i] EXCEPT !.text = Pipeline!Compacted]
        BY <3>1
      <4> HIDE DEF compacted, free
      <4> QED BY <2>2, <3>1, <4>1
    <3>2. CASE ~ (i \in free \cap Pipeline!Tools(ms) /\ i < to)
      <4>1. compacted(to)[i] = ms[i]
        BY <3>2
      <4> HIDE DEF compacted, free
      <4> QED BY <2>1, <4>1
    <3> QED BY <3>1, <3>2
  <2> HIDE DEF compacted
  <2> QED BY <2>3, <2>4, SoundMapped
<1> HIDE DEF compacted
<1> QED BY <1>1, <1>2, SoundKept DEF Pipeline!Drop

LEMMA EnforcedSound ==
  ASSUME NEW ms, Sound(ms), asked \in Nat, NEW s \in Pipeline!Enforced(ms)
  PROVE  Sound(s) /\ Complete(s)
<1>1. PICK u \in Pipeline!Shrunk(ms) : s = Pipeline!Repaired(u)
  BY DEF Pipeline!Enforced
<1> QED BY <1>1, ShrunkSound, RepairedSound

LEMMA SummarisedSound ==
  ASSUME NEW ms, Sound(ms), asked \in Nat, HeadKept \in Nat, TailKept \in Nat, NEW s \in Pipeline!Summarised(ms)
  PROVE  Sound(s)
<1> DEFINE m == Pipeline!Says("assistant", Pipeline!Said)
           u == SubSeq(ms, 1, HeadKept) \o <<m>> \o SubSeq(ms, Len(ms) - TailKept + 1, Len(ms))
<1>1. \/ s = ms
      \/ ~ (Len(ms) <= HeadKept + TailKept + 2) /\ s = Pipeline!Repaired(u)
  BY DEF Pipeline!Summarised
<1>2. SUFFICES ASSUME ~ (Len(ms) <= HeadKept + TailKept + 2) PROVE Sound(u)
  BY <1>1, RepairedSound
<1>3. m \in Messages /\ Proper(m) /\ MadeBy(m) = {}
  BY SaysIs DEF Pipeline!Said
<1>4. Len(ms) \in Nat
  BY DEF Sound
<1>5. HeadKept \in 0..Len(ms) /\ Len(ms) - TailKept \in HeadKept..Len(ms)
  BY <1>2, <1>4
<1> HIDE DEF m
<1> QED BY <1>3, <1>5, SoundAround

\* Each place of s is one of the parts.
Spread(at, ss, s) ==
  /\ \A i \in 1..Len(ss) :
       at[i] \in Nat /\ \A j \in 1..Len(ss[i]) : at[i] + j \in DOMAIN s /\ s[at[i] + j] = ss[i][j]
  /\ \A p \in DOMAIN s : \E i \in 1..Len(ss) : \E j \in 1..Len(ss[i]) : p = at[i] + j /\ s[p] = ss[i][j]

\* A message and what is put behind it.
LEMMA JoinedIs ==
  ASSUME NEW S, NEW ss \in Seq(Seq(S)), NEW s \in Seq(S), NEW at, Joined(at, ss, s)
  PROVE  Spread(at, ss, s)
<1>1. DOMAIN s = 1..Len(s) /\ Len(s) \in Nat /\ \A i \in 1..Len(ss) : Len(ss[i]) \in Nat
  OBVIOUS
<1>2. \A i \in 1..Len(ss) : /\ at[i] \in Nat
                            /\ \A j \in 1..Len(ss[i]) : at[i] + j \in DOMAIN s /\ s[at[i] + j] = ss[i][j]
  <2> TAKE i \in 1..Len(ss)
  <2>1. at[i] \in Nat /\ at[i + 1] = at[i] + Len(ss[i]) /\ at[i + 1] <= Len(s)
    BY DEF Joined
  <2>2. at[i] + Len(ss[i]) <= Len(s)
    BY <2>1
  <2>3. \A x, l, n \in Nat : \A y \in 1..l : x + l <= n => x + y \in 1..n
    OBVIOUS
  <2>4. at[i] \in Nat /\ Len(ss[i]) \in Nat /\ Len(s) \in Nat
    BY <1>1, <2>1
  <2>5. \A j \in 1..Len(ss[i]) : at[i] + j \in 1..Len(s)
    BY ONLY <2>2, <2>3, <2>4
  <2>6. \A j \in 1..Len(ss[i]) : s[at[i] + j] = ss[i][j]
    BY DEF Joined
  <2> QED BY <1>1, <2>4, <2>5, <2>6
<1>3. \A p \in DOMAIN s : \E i \in 1..Len(ss) : \E j \in 1..Len(ss[i]) : p = at[i] + j
  BY <1>1 DEF Joined
<1>4. \A p \in DOMAIN s : \E i \in 1..Len(ss) : \E j \in 1..Len(ss[i]) : p = at[i] + j /\ s[p] = ss[i][j]
  <2> TAKE p \in DOMAIN s
  <2>1. PICK i \in 1..Len(ss) : \E j \in 1..Len(ss[i]) : p = at[i] + j
    BY <1>3
  <2>2. PICK j \in 1..Len(ss[i]) : p = at[i] + j
    BY <2>1
  <2>3. s[at[i] + j] = ss[i][j]
    BY <1>2
  <2>4. s[p] = ss[i][j]
    BY ONLY <2>2, <2>3, Zenon
  <2> QED BY <2>2, <2>4
<1> QED BY ONLY <1>2, <1>4 DEF Spread

\* Each call has a result, or is one whose result was not saved.
Answerable(ms) ==
  \A i \in DOMAIN ms : \A id \in MadeBy(ms[i]) :
    Results(ms, id) # {} \/ \E c \in 1..asked : id = <<c>> /\ c \notin SavedResults

\* An id is that of a call, which in Anthropic's format has no saved result.
LEMMA MadeIds ==
  ASSUME NEW m \in Messages, Proper(m), NEW id \in MadeBy(m)
  PROVE  /\ m.role = "assistant" /\ Pipeline!MakesCalls(m)
         /\ \E c \in 1..asked : id = <<c>>
         /\ \/ \E k \in DOMAIN m.calls : id = m.calls[k].id
            \/ \E c \in 1..asked : id = <<c>> /\ c \notin SavedResults
<1>1. m.role = "assistant"
  BY DEF MadeBy
<1>2. PICK k \in DOMAIN Pipeline!CallsOf(m) : id = Pipeline!CallsOf(m)[k]
  BY <1>1 DEF MadeBy
<1>3. /\ Len(m.calls) \in Nat /\ Len(m.blocks) \in Nat
      /\ DOMAIN m.calls = 1..Len(m.calls) /\ DOMAIN m.blocks = 1..Len(m.blocks)
  <2>1. m.calls \in Seq(ToolCalls) /\ m.blocks \in Seq(Blocks)
    BY DEF Messages
  <2> QED BY <2>1
<1>4. /\ Pipeline!CallsOf(m) \in Seq(Seq(Nat))
      /\ Len(Pipeline!CallsOf(m)) = Len(m.calls) + Len(m.blocks)
      /\ \A j \in 1..Len(m.calls) : Pipeline!CallsOf(m)[j] = m.calls[j].id
      /\ \A j \in 1..Len(m.blocks) : Pipeline!CallsOf(m)[Len(m.calls) + j] = m.blocks[j].id
  BY MadeTypes
<1>5. k \in 1..(Len(m.calls) + Len(m.blocks))
  <2>1. DOMAIN Pipeline!CallsOf(m) = 1..Len(Pipeline!CallsOf(m))
    BY <1>4
  <2>2. DOMAIN Pipeline!CallsOf(m) = 1..(Len(m.calls) + Len(m.blocks))
    BY ONLY <1>4, <2>1, Zenon
  <2> QED BY ONLY <1>2, <2>2, Zenon
<1>6. ProperCalls(m)
  BY <1>1 DEF Proper
<1>7. CASE k \in 1..Len(m.calls)
  <2>1. id = m.calls[k].id /\ k \in DOMAIN m.calls
    BY <1>2, <1>3, <1>4, <1>7
  <2> QED BY <1>1, <1>2, <1>6, <2>1 DEF ProperCalls, Pipeline!MakesCalls
<1>8. CASE k \notin 1..Len(m.calls)
  <2>1. PICK j : j = k - Len(m.calls)
    OBVIOUS
  <2>2. j \in 1..Len(m.blocks) /\ k = Len(m.calls) + j
    <3>1. \A x, y \in Nat : \A z \in 1..(x + y) : z \notin 1..x => z - x \in 1..y /\ z = x + (z - x)
      OBVIOUS
    <3>2. k - Len(m.calls) \in 1..Len(m.blocks) /\ k = Len(m.calls) + (k - Len(m.calls))
      BY ONLY <1>3, <1>5, <1>8, <3>1
    <3> QED BY ONLY <2>1, <3>2
  <2>3. id = m.blocks[j].id /\ j \in DOMAIN m.blocks
    BY <1>2, <1>3, <1>4, <2>2
  <2>4. \E c \in 1..asked : m.blocks[j].id = <<c>> /\ c \notin SavedResults
    BY <1>6, <2>3 DEF ProperCalls
  <2> QED BY <1>1, <1>2, <2>3, <2>4 DEF Pipeline!MakesCalls
<1> QED BY <1>7, <1>8

LEMMA CompleteAnswerable ==
  ASSUME NEW ms, Sound(ms), Complete(ms)
  PROVE  Answerable(ms)
<1> SUFFICES ASSUME NEW i \in DOMAIN ms, NEW id \in MadeBy(ms[i])
             PROVE  Results(ms, id) # {} \/ \E c \in 1..asked : id = <<c>> /\ c \notin SavedResults
  BY DEF Answerable
<1>1. ms[i] \in Messages /\ Proper(ms[i])
  BY DEF Sound
<1> QED BY <1>1, MadeIds DEF Complete

\* The result of a call is its own.
LEMMA ResultForIs ==
  ASSUME NEW ms, Sound(ms), Answerable(ms), asked \in Nat, NEW i \in DOMAIN ms, NEW id \in MadeBy(ms[i])
  PROVE  LET r == Pipeline!ResultFor(ms, id) IN
         r \in Messages /\ Proper(r) /\ r.role = "tool" /\ r.answers = id
<1>1. /\ ms \in Seq(Messages) /\ DOMAIN ms = 1..Len(ms) /\ Len(ms) \in Nat
      /\ \A j \in DOMAIN ms : ms[j] \in Messages /\ Proper(ms[j])
  BY DEF Sound
<1> DEFINE T == {j \in 1..Len(ms) : ms[j].role = "tool" /\ ms[j].answers = id}
           at == IF T # {} THEN Pipeline!Min(T) ELSE 0
<1>2. Pipeline!ResultFor(ms, id) = IF at = 0 THEN Pipeline!ToolResult(id, Pipeline!Unavailable) ELSE ms[at]
  BY DEF Pipeline!ResultFor, Pipeline!SelectInSeq
<1>3. T = Results(ms, id) /\ T \in SUBSET Nat /\ T \in SUBSET (1..Len(ms))
  BY <1>1 DEF Results
<1>4. CASE T # {}
  <2>1. at \in T
    <3>1. Pipeline!Min(T) \in T
      <4> HIDE DEF T
      <4> QED BY <1>3, <1>4, MinIs
    <3> QED BY <1>4, <3>1
  <2>2. at \in 1..Len(ms) /\ ms[at].role = "tool" /\ ms[at].answers = id /\ at # 0
    <3> HIDE DEF at
    <3> QED BY <1>1, <2>1
  <2> HIDE DEF at
  <2> QED BY <1>1, <1>2, <2>2
<1>5. CASE T = {}
  <2>1. PICK c \in 1..asked : id = <<c>> /\ c \notin SavedResults
    BY <1>3, <1>5 DEF Answerable
  <2>2. Pipeline!ResultFor(ms, id) = Pipeline!ToolResult(<<c>>, Pipeline!Unavailable)
    BY <1>2, <1>5, <2>1
  <2>3. Pipeline!Unavailable \in Int /\ c \in Nat
    BY DEF Pipeline!Unavailable
  <2>4. /\ Pipeline!ToolResult(<<c>>, Pipeline!Unavailable) \in Messages
        /\ Pipeline!ToolResult(<<c>>, Pipeline!Unavailable).role = "tool"
        /\ Proper(Pipeline!ToolResult(<<c>>, Pipeline!Unavailable))
    BY <2>1, <2>3, ToolProper
  <2>5. Pipeline!ToolResult(<<c>>, Pipeline!Unavailable).answers = <<c>>
    BY <2>3, ToolIs
  <2> QED BY ONLY <2>1, <2>2, <2>4, <2>5
<1> QED BY <1>4, <1>5

\* Calls are followed by their results, and each result is behind its call.
Followed(s) ==
  /\ \A a \in DOMAIN s : Pipeline!MakesCalls(s[a]) =>
       \A k \in DOMAIN Pipeline!CallsOf(s[a]) :
         a + k \in DOMAIN s /\ s[a + k].role = "tool" /\ s[a + k].answers = Pipeline!CallsOf(s[a])[k]
  /\ \A i \in DOMAIN s : s[i].role = "tool" =>
       \E a \in DOMAIN s : /\ Pipeline!MakesCalls(s[a])
                           /\ \E k \in DOMAIN Pipeline!CallsOf(s[a]) : i = a + k

LEMMA PairedIs ==
  ASSUME NEW ms, Sound(ms), Answerable(ms), asked \in Nat
  PROVE  Sound(Pipeline!Paired(ms)) /\ Followed(Pipeline!Paired(ms))
<1> DEFINE ids(i) == Pipeline!CallsOf(ms[i])
           t(i) == IF Pipeline!MakesCalls(ms[i])
                   THEN [k \in DOMAIN ids(i) |-> Pipeline!ResultFor(ms, ids(i)[k])] ELSE <<>>
           ss == [i \in DOMAIN ms |-> IF ms[i].role = "tool" THEN <<>>
                                      ELSE IF ~Pipeline!MakesCalls(ms[i]) THEN <<ms[i]>>
                                      ELSE <<ms[i]>> \o [k \in DOMAIN ids(i) |-> Pipeline!ResultFor(ms, ids(i)[k])]]
           s == Pipeline!FlattenSeq(ss)
<1>1. Pipeline!Paired(ms) = s
  BY DEF Pipeline!Paired, Pipeline!Flat
<1>2. /\ ms \in Seq(Messages) /\ DOMAIN ms = 1..Len(ms) /\ Len(ms) \in Nat
      /\ \A i \in DOMAIN ms : ms[i] \in Messages /\ Proper(ms[i])
  BY DEF Sound
<1>3. \A i \in DOMAIN ms :
        /\ t(i) \in Seq(Messages)
        /\ \A k \in DOMAIN t(i) : Proper(t(i)[k]) /\ t(i)[k].role = "tool"
        /\ Pipeline!MakesCalls(ms[i]) => /\ DOMAIN t(i) = DOMAIN ids(i)
                                         /\ \A k \in DOMAIN ids(i) : t(i)[k].answers = ids(i)[k]
        /\ ~ Pipeline!MakesCalls(ms[i]) => DOMAIN t(i) = {}
  <2> TAKE i \in DOMAIN ms
  <2>1. CASE ~ Pipeline!MakesCalls(ms[i])
    <3>1. t(i) = <<>>
      BY <2>1
    <3> HIDE DEF t
    <3> QED BY <2>1, <3>1
  <2>2. CASE Pipeline!MakesCalls(ms[i])
    <3>1. \A k \in DOMAIN ids(i) : ids(i)[k] \in MadeBy(ms[i])
      BY <2>2 DEF MadeBy, Pipeline!MakesCalls
    <3>2. \A k \in DOMAIN ids(i) :
            LET r == Pipeline!ResultFor(ms, ids(i)[k]) IN
            r \in Messages /\ Proper(r) /\ r.role = "tool" /\ r.answers = ids(i)[k]
      <4> HIDE DEF ids
      <4> QED BY <3>1, ResultForIs
    <3>3. t(i) = [k \in DOMAIN ids(i) |-> Pipeline!ResultFor(ms, ids(i)[k])]
      BY <2>2
    <3>4. DOMAIN ids(i) = 1..Len(ids(i)) /\ Len(ids(i)) \in Nat
      <4>1. ids(i) \in Seq(Seq(Nat))
        BY <1>2, MadeTypes
      <4> HIDE DEF ids
      <4> QED BY <4>1
    <3> HIDE DEF t, ids
    <3>5. t(i) \in [1..Len(ids(i)) -> Messages]
      BY <3>2, <3>3, <3>4
    <3>6. t(i) \in Seq(Messages) /\ DOMAIN t(i) = DOMAIN ids(i)
      BY <3>4, <3>5
    <3>7. \A k \in DOMAIN ids(i) : t(i)[k] = Pipeline!ResultFor(ms, ids(i)[k])
      BY <3>3
    <3> QED BY <2>2, <3>2, <3>6, <3>7
  <2> QED BY <2>1, <2>2
<1>4. \A i \in DOMAIN ms :
        /\ ss[i] \in Seq(Messages) /\ Sound(ss[i])
        /\ \A j \in DOMAIN ss[i] : MadeBy(ss[i][j]) \subseteq MadeBy(ms[i])
        /\ ms[i].role = "tool" => 1..Len(ss[i]) = {}
        /\ ms[i].role # "tool" =>
             /\ 1 \in 1..Len(ss[i]) /\ ss[i][1] = ms[i]
             /\ \A k \in DOMAIN t(i) : 1 + k \in 1..Len(ss[i]) /\ ss[i][1 + k] = t(i)[k]
             /\ \A k \in 1..Len(ss[i]) : k = 1 \/ (k - 1 \in DOMAIN t(i) /\ ss[i][k] = t(i)[k - 1])
  <2> TAKE i \in DOMAIN ms
  <2>0. ms[i] \in Messages /\ Proper(ms[i])
    BY <1>2
  <2>1. CASE ms[i].role = "tool"
    <3>1. ss[i] = <<>>
      BY <2>1
    <3>2. <<>> \in Seq(Messages) /\ 1..Len(<<>>) = {} /\ \A j \in DOMAIN <<>> : FALSE
      OBVIOUS
    <3> HIDE DEF ss
    <3> QED BY <2>1, <3>1, <3>2, SoundNone
  <2>2. CASE ms[i].role # "tool"
    <3>1. PICK v : v = t(i)
      OBVIOUS
    <3>2. v \in Seq(Messages) /\ \A j \in DOMAIN v : Proper(v[j]) /\ v[j].role = "tool"
      <4> HIDE DEF t
      <4> QED BY <1>3, <3>1
    <3>3. ss[i] = <<ms[i]>> \o v
      <4>1. CASE Pipeline!MakesCalls(ms[i])
        BY <2>2, <3>1, <4>1
      <4>2. CASE ~ Pipeline!MakesCalls(ms[i])
        <5>1. ss[i] = <<ms[i]>> /\ v = <<>>
          BY <2>2, <3>1, <4>2
        <5>2. <<ms[i]>> \o <<>> = <<ms[i]>>
          OBVIOUS
        <5> QED BY <5>1, <5>2
      <4> QED BY <4>1, <4>2
    <3> HIDE DEF ss, t
    <3>4. LET u == <<ms[i]>> \o v IN
          /\ u \in Seq(Messages) /\ Len(u) = 1 + Len(v) /\ Len(v) \in Nat /\ u[1] = ms[i]
          /\ \A k \in DOMAIN v : 1 + k \in 1..Len(u) /\ u[1 + k] = v[k]
          /\ \A k \in 1..Len(u) : k = 1 \/ (k - 1 \in DOMAIN v /\ u[k] = v[k - 1])
          /\ Sound(u)
          /\ \A j \in DOMAIN u : MadeBy(u[j]) \subseteq MadeBy(ms[i])
      BY <2>0, <3>2, WithTools
    <3>5. 1 \in 1..(1 + Len(v))
      BY <3>4
    <3> QED BY <2>2, <3>1, <3>3, <3>4, <3>5
  <2> QED BY <2>1, <2>2
<1>5. ss = [i \in DOMAIN ms |-> ss[i]]
  OBVIOUS
<1> HIDE DEF ss, s, t
<1>6. ss \in Seq(Seq(Messages)) /\ Len(ss) = Len(ms) /\ Sound(s)
  BY <1>4, <1>5, SoundFlat DEF s
<1>7. s \in Seq(Messages)
  BY <1>6 DEF Sound
<1>8. PICK at : Joined(at, ss, s)
  BY <1>6, FlatPlaces DEF s
<1>9. /\ \A i \in DOMAIN ms : /\ at[i] \in Nat
                              /\ \A j \in 1..Len(ss[i]) : at[i] + j \in DOMAIN s /\ s[at[i] + j] = ss[i][j]
      /\ \A p \in DOMAIN s : \E i \in DOMAIN ms : \E j \in 1..Len(ss[i]) : p = at[i] + j /\ s[p] = ss[i][j]
  <2>1. 1..Len(ss) = DOMAIN ms
    BY <1>2, <1>6
  <2>2. ss \in Seq(Seq(Messages)) /\ s \in Seq(Messages) /\ Joined(at, ss, s)
    BY <1>6, <1>7, <1>8
  <2>3. /\ \A i \in 1..Len(ss) : /\ at[i] \in Nat
                                 /\ \A j \in 1..Len(ss[i]) : at[i] + j \in DOMAIN s /\ s[at[i] + j] = ss[i][j]
        /\ \A p \in DOMAIN s : \E i \in 1..Len(ss) : \E j \in 1..Len(ss[i]) : p = at[i] + j /\ s[p] = ss[i][j]
    <3>1. Spread(at, ss, s)
      BY ONLY <2>2, JoinedIs
    <3> QED BY ONLY <3>1 DEF Spread
  <2> QED BY ONLY <2>1, <2>3
<1>10. \A i \in DOMAIN ms : Pipeline!MakesCalls(ms[i]) =>
         /\ ms[i].role # "tool" /\ at[i] + 1 \in DOMAIN s /\ s[at[i] + 1] = ms[i]
         /\ \A k \in DOMAIN ids(i) : /\ at[i] + 1 + k \in DOMAIN s /\ s[at[i] + 1 + k].role = "tool"
                                     /\ s[at[i] + 1 + k].answers = ids(i)[k]
  <2> TAKE i \in DOMAIN ms
  <2> HAVE Pipeline!MakesCalls(ms[i])
  <2>1. ms[i].role # "tool"
    BY DEF Pipeline!MakesCalls
  <2>2. at[i] + 1 \in DOMAIN s /\ s[at[i] + 1] = ms[i]
    BY <1>4, <1>9, <2>1
  <2>3. \A k \in DOMAIN ids(i) : /\ at[i] + 1 + k \in DOMAIN s /\ s[at[i] + 1 + k].role = "tool"
                                 /\ s[at[i] + 1 + k].answers = ids(i)[k]
    <3> TAKE k \in DOMAIN ids(i)
    <3>1. k \in DOMAIN t(i) /\ t(i)[k].role = "tool" /\ t(i)[k].answers = ids(i)[k]
      <4> HIDE DEF ids
      <4> QED BY <1>3
    <3>2. 1 + k \in 1..Len(ss[i]) /\ ss[i][1 + k] = t(i)[k]
      <4> HIDE DEF ids
      <4> QED BY <1>4, <2>1, <3>1
    <3>3. at[i] + (1 + k) \in DOMAIN s /\ s[at[i] + (1 + k)] = t(i)[k]
      <4> HIDE DEF ids
      <4> QED BY <1>9, <3>2
    <3>4. at[i] + (1 + k) = at[i] + 1 + k
      <4>1. at[i] \in Nat /\ k \in Nat
        <5>1. ids(i) \in Seq(Seq(Nat))
          BY <1>2, MadeTypes
        <5>2. k \in DOMAIN ids(i)
          OBVIOUS
        <5> HIDE DEF ids
        <5> QED BY <1>9, <5>1, <5>2
      <4> QED BY ONLY <4>1
    <3> HIDE DEF ids
    <3> QED BY <3>1, <3>3, <3>4
  <2> HIDE DEF ids
  <2> QED BY <2>1, <2>2, <2>3
<1>11. \A p \in DOMAIN s :
         \/ s[p].role # "tool" /\ \E i \in DOMAIN ms : p = at[i] + 1 /\ s[p] = ms[i]
         \/ /\ s[p].role = "tool"
            /\ \E i \in DOMAIN ms : Pipeline!MakesCalls(ms[i]) /\ \E k \in DOMAIN ids(i) : p = at[i] + 1 + k
  <2> TAKE p \in DOMAIN s
  <2>1. PICK i \in DOMAIN ms : \E j \in 1..Len(ss[i]) : p = at[i] + j /\ s[p] = ss[i][j]
    BY <1>9
  <2>2. PICK j \in 1..Len(ss[i]) : p = at[i] + j /\ s[p] = ss[i][j]
    BY <2>1
  <2>3. ms[i].role # "tool"
    BY <1>4, <2>2
  <2>4. CASE j = 1
    BY <1>4, <2>2, <2>3, <2>4
  <2>5. CASE j # 1
    <3>1. j - 1 \in DOMAIN t(i) /\ ss[i][j] = t(i)[j - 1]
      BY <1>4, <2>3, <2>5
    <3>2. Pipeline!MakesCalls(ms[i]) /\ j - 1 \in DOMAIN ids(i) /\ t(i)[j - 1].role = "tool"
      <4> HIDE DEF ids
      <4> QED BY <1>3, <3>1
    <3>3. p = at[i] + 1 + (j - 1)
      <4>1. at[i] \in Nat /\ j \in Nat /\ p = at[i] + j
        BY <1>9, <2>2
      <4> QED BY ONLY <4>1
    <3> HIDE DEF ids
    <3> QED BY <2>2, <3>1, <3>2, <3>3
  <2> QED BY <2>4, <2>5
<1>12. Followed(s)
  <2>1. ASSUME NEW a \in DOMAIN s, Pipeline!MakesCalls(s[a]), NEW k \in DOMAIN Pipeline!CallsOf(s[a])
        PROVE  a + k \in DOMAIN s /\ s[a + k].role = "tool" /\ s[a + k].answers = Pipeline!CallsOf(s[a])[k]
    <3>1. s[a].role # "tool"
      BY <2>1 DEF Pipeline!MakesCalls
    <3>2. PICK i \in DOMAIN ms : a = at[i] + 1 /\ s[a] = ms[i]
      BY <1>11, <3>1
    <3> QED BY <1>10, <2>1, <3>2
  <2>2. ASSUME NEW i \in DOMAIN s, s[i].role = "tool"
        PROVE  \E a \in DOMAIN s : /\ Pipeline!MakesCalls(s[a])
                                   /\ \E k \in DOMAIN Pipeline!CallsOf(s[a]) : i = a + k
    <3>1. PICK x \in DOMAIN ms : Pipeline!MakesCalls(ms[x]) /\ \E k \in DOMAIN ids(x) : i = at[x] + 1 + k
      BY <1>11, <2>2
    <3> QED BY <1>10, <3>1
  <2> QED BY <2>1, <2>2 DEF Followed
<1> QED BY <1>1, <1>6, <1>12

\* No call is answered twice, so the deduplication leaves all as it is.
LEMMA DeduplicatedIs ==
  ASSUME NEW s, Sound(s), Followed(s)
  PROVE  Pipeline!Deduplicated(s) = s
<1>1. /\ s \in Seq(Messages) /\ DOMAIN s = 1..Len(s) /\ \A i \in DOMAIN s : s[i] \in Messages /\ Proper(s[i])
  BY DEF Sound
<1>2. ASSUME NEW i \in Pipeline!Tools(s), NEW j \in Pipeline!Tools(s), s[j].answers = s[i].answers
      PROVE  i = j
  <2>1. i \in DOMAIN s /\ j \in DOMAIN s /\ s[i].role = "tool" /\ s[j].role = "tool"
    BY DEF Pipeline!Tools
  <2>2. PICK a \in DOMAIN s : Pipeline!MakesCalls(s[a]) /\ \E k \in DOMAIN Pipeline!CallsOf(s[a]) : i = a + k
    BY <2>1 DEF Followed
  <2>3. PICK k \in DOMAIN Pipeline!CallsOf(s[a]) : i = a + k
    BY <2>2
  <2>4. PICK b \in DOMAIN s : Pipeline!MakesCalls(s[b]) /\ \E l \in DOMAIN Pipeline!CallsOf(s[b]) : j = b + l
    BY <2>1 DEF Followed
  <2>5. PICK l \in DOMAIN Pipeline!CallsOf(s[b]) : j = b + l
    BY <2>4
  <2>6. s[i].answers = Pipeline!CallsOf(s[a])[k] /\ s[j].answers = Pipeline!CallsOf(s[b])[l]
    BY <2>2, <2>3, <2>4, <2>5 DEF Followed
  <2>7. s[i].answers \in MadeBy(s[a]) /\ s[i].answers \in MadeBy(s[b])
    BY <1>2, <2>2, <2>4, <2>6 DEF MadeBy, Pipeline!MakesCalls
  <2>8. a = b
    BY <2>7 DEF Sound, Apart
  <2>9. k = l
    BY <1>1, <1>2, <2>2, <2>6, <2>8 DEF Proper, ProperCalls, Pipeline!MakesCalls
  <2> QED BY <2>3, <2>5, <2>8, <2>9
<1> DEFINE P == DOMAIN s \ {i \in Pipeline!Tools(s) :
                              \E j \in Pipeline!Tools(s) : j < i /\ s[j].answers = s[i].answers}
<1>3. DOMAIN s \subseteq P
  <2>1. \A i \in Pipeline!Tools(s) : ~ (i < i)
    BY <1>1 DEF Pipeline!Tools
  <2> QED BY <1>2, <2>1
<1>4. Pipeline!Deduplicated(s) = Pipeline!Keep(s, P)
  BY DEF Pipeline!Deduplicated, Pipeline!Drop
<1> HIDE DEF P
<1> QED BY <1>1, <1>3, <1>4, KeepIs

\* The last pass of the sanitizer, for Anthropic.
LEMMA OrderedIs ==
  ASSUME NEW ms, Sound(ms), Followed(ms)
  PROVE  Sound(Pipeline!Ordered(ms)) /\ Followed(Pipeline!Ordered(ms))
<1> DEFINE a(i) == Pipeline!AskedBy(ms, i)
           ids(i) == Pipeline!CallsOf(ms[a(i)])
           none(i) == a(i) = 0 \/ ~Pipeline!MakesCalls(ms[a(i)]) \/ i - a(i) >= Len(ids(i))
           start == Pipeline!SelectInSeq(ms, LAMBDA m : m.role # "system")
           made(i) == IF none(i) THEN <<>>
                      ELSE Pipeline!Keep(ids(i), {k \in DOMAIN ids(i) :
                                                    \A j \in a(i) + 1 .. i : ms[j].answers # ids(i)[k]})
           blank == Pipeline!Says("user", Pipeline!Blank)
           pre(i) == IF i = start /\ ms[i].role # "user" THEN <<blank>> ELSE <<>>
           ss == [i \in DOMAIN ms |->
                    pre(i) \o <<ms[i]>> \o
                    [k \in DOMAIN made(i) |-> Pipeline!ToolResult(made(i)[k], Pipeline!Unavailable)]]
<1>1. Pipeline!Ordered(ms) = Pipeline!FlattenSeq(ss)
  BY DEF Pipeline!Ordered, Pipeline!Flat
<1>2. /\ ms \in Seq(Messages) /\ DOMAIN ms = 1..Len(ms) /\ Len(ms) \in Nat
      /\ \A i \in DOMAIN ms : ms[i] \in Messages /\ Proper(ms[i])
  BY DEF Sound
<1>3. \A i \in DOMAIN ms : none(i)
  <2> TAKE i \in DOMAIN ms
  <2> SUFFICES ASSUME ~ none(i) PROVE FALSE
    OBVIOUS
  <2>1. a(i) # 0 /\ Pipeline!MakesCalls(ms[a(i)]) /\ ~ (i - a(i) >= Len(ids(i)))
    OBVIOUS
  <2>2. a(i) \in DOMAIN ms /\ a(i) \in 0..i /\ (i = Len(ms) \/ ms[i + 1].role # "tool")
    BY <1>2, <2>1, AskedIs
  <2>3. Len(ids(i)) \in Nat /\ DOMAIN ids(i) = 1..Len(ids(i))
    <3>1. ids(i) \in Seq(Seq(Nat))
      BY <1>2, <2>2, MadeTypes
    <3> HIDE DEF ids
    <3> QED BY <3>1
  <2> HIDE DEF a, ids
  <2>4. i \in Nat /\ a(i) \in Nat /\ i + 1 \in Nat
    BY <1>2, <2>2
  <2>5. i - a(i) + 1 \in 1..Len(ids(i)) /\ a(i) + (i - a(i) + 1) = i + 1
    <3>1. a(i) <= i
      BY <2>2
    <3>2. \A x, y, l \in Nat : y <= x /\ ~ (x - y >= l) => x - y + 1 \in 1..l /\ y + (x - y + 1) = x + 1
      OBVIOUS
    <3> QED BY ONLY <2>1, <2>3, <2>4, <3>1, <3>2
  <2>6. i + 1 \in DOMAIN ms /\ ms[i + 1].role = "tool"
    <3>1. \A k \in DOMAIN ids(i) : a(i) + k \in DOMAIN ms /\ ms[a(i) + k].role = "tool"
      BY <2>1, <2>2 DEF Followed, ids
    <3>2. i - a(i) + 1 \in DOMAIN ids(i)
      BY <2>3, <2>5
    <3> QED BY ONLY <2>5, <3>1, <3>2
  <2> QED BY <1>2, <2>2, <2>6
<1>4. \A i \in DOMAIN ms : ss[i] = pre(i) \o <<ms[i]>> \o <<>>
  <2> TAKE i \in DOMAIN ms
  <2>1. made(i) = <<>>
    BY <1>3
  <2> HIDE DEF made
  <2>2. [k \in DOMAIN made(i) |-> Pipeline!ToolResult(made(i)[k], Pipeline!Unavailable)] = <<>>
    BY <2>1
  <2>3. ss[i] = pre(i) \o <<ms[i]>> \o
                [k \in DOMAIN made(i) |-> Pipeline!ToolResult(made(i)[k], Pipeline!Unavailable)]
    OBVIOUS
  <2> QED BY <2>2, <2>3
<1>10. start \in Nat /\ \A i \in DOMAIN ms : ms[i].role # "system" => start <= i
  <2> DEFINE I == {i \in 1..Len(ms) : ms[i].role # "system"}
  <2>1. start = IF I # {} THEN Pipeline!Min(I) ELSE 0
    BY DEF Pipeline!SelectInSeq
  <2>2. I \in SUBSET Nat /\ \A i \in DOMAIN ms : ms[i].role # "system" => i \in I
    BY <1>2
  <2> HIDE DEF start, I
  <2>3. CASE I = {}
    BY <2>1, <2>2, <2>3
  <2>4. CASE I # {}
    <3>1. Pipeline!Min(I) \in I /\ \A i \in I : Pipeline!Min(I) <= i
      BY <2>2, <2>4, MinIs
    <3> QED BY <2>1, <2>2, <2>4, <3>1
  <2> QED BY <2>3, <2>4
<1> HIDE DEF start, none, ids, a, made
<1>5. blank \in Messages /\ Proper(blank) /\ MadeBy(blank) = {} /\ blank.role = "user"
  BY SaysIs DEF Pipeline!Blank
<1> HIDE DEF blank
<1>6. ss = [i \in DOMAIN ms |-> ss[i]]
  OBVIOUS
<1> HIDE DEF ss
<1>7. \A i \in DOMAIN ms :
        /\ Sound(ss[i])
        /\ \A j \in DOMAIN ss[i] : MadeBy(ss[i][j]) \subseteq MadeBy(ms[i])
        /\ Len(ss[i]) \in {1, 2} /\ ss[i][Len(ss[i])] = ms[i]
        /\ Len(ss[i]) = 2 => ss[i][1] = blank /\ i = start
  <2> TAKE i \in DOMAIN ms
  <2>1. Sound(<<ms[i]>>) /\ Sound(<<blank>>) /\ ms[i] \in Messages
    BY <1>2, <1>5, SoundOne
  <2>2. CASE i = start /\ ms[i].role # "user"
    <3>1. ss[i] = <<blank>> \o <<ms[i]>> \o <<>>
      BY <1>4, <2>2
    <3>3. Foreign(<<blank>>, <<ms[i]>>)
      <4>1. \A j \in DOMAIN <<blank>> : <<blank>>[j] = blank
        OBVIOUS
      <4> QED BY <1>5, <4>1 DEF Foreign
    <3>4. Sound(<<blank>> \o <<ms[i]>>)
      BY <2>1, <3>3, SoundJoin
    <3>5. PICK u, v : u = <<blank>> /\ v = <<ms[i]>>
      OBVIOUS
    <3>6. u \in Seq(Messages) /\ v \in Seq(Messages) /\ Len(u) = 1 /\ Len(v) = 1 /\ u[1] = blank /\ v[1] = ms[i]
      BY <1>5, <2>1, <3>5
    <3>7. ss[i] = u \o v /\ Sound(ss[i])
      <4>1. ss[i] = (u \o v) \o <<>>
        BY <3>1, <3>5
      <4>2. (u \o v) \o <<>> = u \o v
        <5>1. u \o v \in Seq(Messages)
          BY <3>6
        <5>2. \A w \in Seq(Messages) : w \o <<>> = w
          OBVIOUS
        <5> QED BY ONLY <5>1, <5>2
      <4>3. ss[i] = u \o v
        BY ONLY <4>1, <4>2, Zenon
      <4> QED BY <3>4, <3>5, <4>3
    <3>8. \A j \in DOMAIN ss[i] : ss[i][j] = blank \/ ss[i][j] = ms[i]
      <4>1. /\ u \o v \in Seq(Messages) /\ Len(u \o v) = Len(u) + Len(v)
            /\ \A j \in 1..Len(u) : (u \o v)[j] = u[j]
            /\ \A j \in 1..Len(v) : (u \o v)[Len(u) + j] = v[j]
        <5>1. u \in Seq(Messages) /\ v \in Seq(Messages)
          BY <3>6
        <5> QED BY ONLY <5>1, JoinPlaces
      <4>2. 1 \in 1..Len(u) /\ 1 \in 1..Len(v) /\ Len(u) + 1 = 2 /\ Len(u) + Len(v) = 2
        BY <3>6
      <4>3. (u \o v)[1] = blank /\ (u \o v)[2] = ms[i] /\ Len(u \o v) = 2
        BY ONLY <3>6, <4>1, <4>2
      <4>4. DOMAIN (u \o v) = 1..2
        BY <4>1, <4>3
      <4>5. \A j \in 1..2 : j = 1 \/ j = 2
        OBVIOUS
      <4> QED BY <3>7, <4>3, <4>4, <4>5
    <3>9. Len(u \o v) = 2 /\ (u \o v)[1] = blank /\ (u \o v)[2] = ms[i]
      <4>1. /\ Len(u \o v) = Len(u) + Len(v)
            /\ \A j \in 1..Len(u) : (u \o v)[j] = u[j]
            /\ \A j \in 1..Len(v) : (u \o v)[Len(u) + j] = v[j]
        <5>1. u \in Seq(Messages) /\ v \in Seq(Messages)
          BY <3>6
        <5> QED BY ONLY <5>1, JoinPlaces
      <4>2. 1 \in 1..Len(u) /\ 1 \in 1..Len(v) /\ Len(u) + 1 = 2 /\ Len(u) + Len(v) = 2
        BY <3>6
      <4> QED BY ONLY <3>6, <4>1, <4>2
    <3> QED BY <1>5, <2>2, <3>7, <3>8, <3>9
  <2>3. CASE ~ (i = start /\ ms[i].role # "user")
    <3>1. ss[i] = <<>> \o <<ms[i]>> \o <<>>
      BY <1>4, <2>3
    <3>2. <<>> \o <<ms[i]>> \o <<>> = <<ms[i]>>
      OBVIOUS
    <3>3. \A j \in DOMAIN <<ms[i]>> : <<ms[i]>>[j] = ms[i]
      OBVIOUS
    <3>4. ss[i] = <<ms[i]>>
      BY <3>1, <3>2
    <3>5. Len(<<ms[i]>>) = 1 /\ <<ms[i]>>[1] = ms[i]
      OBVIOUS
    <3> QED BY <2>1, <3>3, <3>4, <3>5
  <2> QED BY <2>2, <2>3
<1> DEFINE s == Pipeline!FlattenSeq(ss)
<1>8. Sound(s) /\ ss \in Seq(Seq(Messages)) /\ Len(ss) = Len(ms)
  BY <1>2, <1>6, <1>7, SoundFlat
<1>9. PICK at : Joined(at, ss, s)
  BY <1>8, FlatPlaces
<1> HIDE DEF s
<1>11. 1..Len(ss) = DOMAIN ms /\ Len(ss) \in Nat /\ s \in Seq(Messages)
  BY <1>2, <1>8 DEF Sound
<1>12. /\ \A i \in DOMAIN ms : at[i] \in Nat
       /\ \A i \in DOMAIN ms : \A j \in 1..Len(ss[i]) : at[i] + j \in DOMAIN s /\ s[at[i] + j] = ss[i][j]
       /\ \A p \in DOMAIN s : \E i \in DOMAIN ms : \E j \in 1..Len(ss[i]) : p = at[i] + j /\ s[p] = ss[i][j]
  <2>1. Spread(at, ss, s)
    BY ONLY <1>8, <1>9, <1>11, JoinedIs
  <2> QED BY ONLY <1>11, <2>1 DEF Spread
\* Each message is the last of what becomes of it.
<1>13. \A i \in DOMAIN ms : /\ at[i + 1] = at[i] + Len(ss[i]) /\ at[i + 1] \in Nat
                            /\ at[i + 1] \in DOMAIN s /\ s[at[i + 1]] = ms[i]
  <2> TAKE i \in DOMAIN ms
  <2>1. at[i + 1] = at[i] + Len(ss[i])
    BY <1>9, <1>11 DEF Joined
  <2>2. Len(ss[i]) \in 1..Len(ss[i]) /\ Len(ss[i]) \in Nat /\ ss[i][Len(ss[i])] = ms[i]
    BY <1>7
  <2>3. at[i] + Len(ss[i]) \in DOMAIN s /\ s[at[i] + Len(ss[i])] = ms[i] /\ at[i] \in Nat
    BY <1>12, <2>2
  <2> QED BY <2>1, <2>2, <2>3
\* No message comes between calls and their results.
<1>14. ASSUME NEW i \in DOMAIN ms, Pipeline!MakesCalls(ms[i]), NEW k \in DOMAIN Pipeline!CallsOf(ms[i])
       PROVE  i + k \in DOMAIN ms /\ at[i + 1 + k] = at[i + 1] + k
  <2> DEFINE n == Len(Pipeline!CallsOf(ms[i]))
  <2>1. n \in Nat /\ DOMAIN Pipeline!CallsOf(ms[i]) = 1..n
    <3>1. Pipeline!CallsOf(ms[i]) \in Seq(Seq(Nat))
      BY <1>2, MadeTypes
    <3> QED BY <3>1
  <2> HIDE DEF n
  <2>2. k \in 1..n
    BY <2>1
  <2>3. \A d \in 1..k : i + d \in DOMAIN ms /\ ms[i + d].role = "tool"
    <3>1. \A d \in 1..k : d \in DOMAIN Pipeline!CallsOf(ms[i])
      BY ONLY <2>1, <2>2
    <3> QED BY <1>14, <3>1 DEF Followed
  <2>4. start <= i
    BY <1>10, <1>14 DEF Pipeline!MakesCalls
  <2>5. \A x \in i + 1 .. i + 1 + k - 1 : x \in DOMAIN ms /\ Len(ss[x]) = 1
    <3> TAKE x \in i + 1 .. i + 1 + k - 1
    <3>1. i \in Nat /\ k \in Nat /\ start \in Nat
      BY <1>2, <1>10, <2>2
    <3>2. x - i \in 1..k /\ i + (x - i) = x /\ x # start
      BY ONLY <2>4, <3>1
    <3>3. x \in DOMAIN ms
      BY <2>3, <3>2
    <3> QED BY <1>7, <3>2, <3>3
  <2>6. i + 1 \in 1..Len(ss) /\ i + 1 + k <= Len(ss) + 1 /\ k \in Nat
    <3>1. 1 \in 1..k /\ k \in 1..k /\ k \in Nat
      BY <2>1, <2>2
    <3>2. i + k \in 1..Len(ss) /\ i + 1 \in 1..Len(ss)
      BY <1>11, <2>3, <3>1
    <3>3. i \in Nat
      BY <1>2
    <3> QED BY ONLY <1>11, <3>1, <3>2, <3>3
  <2>7. at[i + 1 + k] = at[i + 1] + k
    <3>1. PICK y : y = i + 1
      OBVIOUS
    <3>2. y \in 1..Len(ss) /\ y + k <= Len(ss) + 1 /\ \A x \in y .. y + k - 1 : Len(ss[x]) = 1
      BY <2>5, <2>6, <3>1
    <3>3. at[y + k] = at[y] + k
      BY <1>9, <1>11, <2>6, <3>2, SingleSteps
    <3> QED BY <3>1, <3>3
  <2>8. k \in 1..k
    BY <2>1, <2>2
  <2> QED BY <2>3, <2>7, <2>8
<1>15. Followed(s)
  <2>1. ASSUME NEW p \in DOMAIN s, Pipeline!MakesCalls(s[p]), NEW k \in DOMAIN Pipeline!CallsOf(s[p])
        PROVE  p + k \in DOMAIN s /\ s[p + k].role = "tool" /\ s[p + k].answers = Pipeline!CallsOf(s[p])[k]
    <3>1. PICK i \in DOMAIN ms : \E j \in 1..Len(ss[i]) : p = at[i] + j /\ s[p] = ss[i][j]
      BY <1>12
    <3>2. PICK j \in 1..Len(ss[i]) : p = at[i] + j /\ s[p] = ss[i][j]
      BY <3>1
    <3>3. s[p] # blank
      BY <1>5, <2>1 DEF Pipeline!MakesCalls
    <3>4. j = Len(ss[i]) /\ s[p] = ms[i] /\ p = at[i + 1]
      <4>1. Len(ss[i]) = 1 \/ Len(ss[i]) = 2
        BY <1>7
      <4>2. j = Len(ss[i])
        <5>1. CASE Len(ss[i]) = 1
          BY <3>2, <5>1
        <5>2. CASE Len(ss[i]) = 2
          <6>1. j # 1
            BY <1>7, <3>2, <3>3, <5>2
          <6> QED BY <3>2, <5>2, <6>1
        <5> QED BY <4>1, <5>1, <5>2
      <4> QED BY <1>7, <1>13, <3>2, <4>2
    <3>5. k \in DOMAIN Pipeline!CallsOf(ms[i]) /\ Pipeline!MakesCalls(ms[i])
      BY <2>1, <3>4
    <3>6. i + k \in DOMAIN ms /\ at[i + 1 + k] = p + k
      BY <1>14, <3>4, <3>5
    <3>7. ms[i + k].role = "tool" /\ ms[i + k].answers = Pipeline!CallsOf(ms[i])[k]
      BY <3>5 DEF Followed
    <3>8. i + 1 + k = i + k + 1
      <4>1. i \in Nat /\ k \in Nat
        <5>1. Pipeline!CallsOf(ms[i]) \in Seq(Seq(Nat))
          BY <1>2, MadeTypes
        <5> QED BY <1>2, <3>5, <5>1
      <4> QED BY ONLY <4>1
    <3>9. p + k \in DOMAIN s /\ s[p + k] = ms[i + k]
      BY <1>13, <3>6, <3>8
    <3> QED BY <3>4, <3>7, <3>9
  <2>2. ASSUME NEW p \in DOMAIN s, s[p].role = "tool"
        PROVE  \E b \in DOMAIN s : /\ Pipeline!MakesCalls(s[b])
                                   /\ \E k \in DOMAIN Pipeline!CallsOf(s[b]) : p = b + k
    <3>1. PICK i \in DOMAIN ms : \E j \in 1..Len(ss[i]) : p = at[i] + j /\ s[p] = ss[i][j]
      BY <1>12
    <3>2. PICK j \in 1..Len(ss[i]) : p = at[i] + j /\ s[p] = ss[i][j]
      BY <3>1
    <3>3. s[p] # blank
      BY <1>5, <2>2
    <3>4. j = Len(ss[i]) /\ s[p] = ms[i] /\ p = at[i + 1]
      <4>1. Len(ss[i]) = 1 \/ Len(ss[i]) = 2
        BY <1>7
      <4>2. j = Len(ss[i])
        <5>1. CASE Len(ss[i]) = 1
          BY <3>2, <5>1
        <5>2. CASE Len(ss[i]) = 2
          <6>1. j # 1
            BY <1>7, <3>2, <3>3, <5>2
          <6> QED BY <3>2, <5>2, <6>1
        <5> QED BY <4>1, <5>1, <5>2
      <4> QED BY <1>7, <1>13, <3>2, <4>2
    <3>5. PICK b \in DOMAIN ms : /\ Pipeline!MakesCalls(ms[b])
                                /\ \E k \in DOMAIN Pipeline!CallsOf(ms[b]) : i = b + k
      BY <2>2, <3>4 DEF Followed
    <3>6. PICK k \in DOMAIN Pipeline!CallsOf(ms[b]) : i = b + k
      BY <3>5
    <3>7. at[b + 1 + k] = at[b + 1] + k
      BY <1>14, <3>5
    <3>8. b + 1 + k = i + 1
      <4>1. b \in Nat /\ k \in Nat
        <5>1. Pipeline!CallsOf(ms[b]) \in Seq(Seq(Nat))
          BY <1>2, MadeTypes
        <5> QED BY <1>2, <5>1
      <4> QED BY ONLY <3>6, <4>1
    <3>9. p = at[b + 1] + k
      BY <3>4, <3>7, <3>8
    <3>10. at[b + 1] \in DOMAIN s /\ s[at[b + 1]] = ms[b]
      BY <1>13
    <3> QED BY <3>5, <3>9, <3>10
  <2> QED BY <2>1, <2>2 DEF Followed
<1> QED BY <1>1, <1>8, <1>15 DEF s

\* What the sanitizer leaves: sound messages, in which the calls of each are
\* followed by their results.
LEMMA SanitizedIs ==
  ASSUME NEW ms, Sound(ms), Answerable(ms), asked \in Nat
  PROVE  Sound(Pipeline!Sanitized(ms)) /\ Followed(Pipeline!Sanitized(ms))
<1> DEFINE p == Pipeline!Paired(ms)
<1>1. Sound(p) /\ Followed(p)
  BY PairedIs
<1>2. Pipeline!Deduplicated(p) = p
  BY <1>1, DeduplicatedIs
<1>3. Pipeline!Sanitized(ms) = IF Pipeline!Strict THEN Pipeline!Ordered(p) ELSE p
  BY <1>2 DEF Pipeline!Sanitized
<1> HIDE DEF p
<1> QED BY <1>1, <1>3, OrderedIs

\* The messages that make calls in OpenAI's format.
Calling(s) == {a \in DOMAIN s : s[a].calls # <<>>}

\* A message that makes calls is sent as it is, with its results behind it.
LEMMA CallingIs ==
  ASSUME NEW s, Sound(s), Followed(s), NEW a \in Calling(s)
  PROVE  /\ s[a].role = "assistant" /\ Pipeline!MakesCalls(s[a]) /\ s[a].blocks = <<>>
         /\ Len(s[a].calls) \in Nat /\ Len(s[a].calls) # 0 /\ DOMAIN s[a].calls = 1..Len(s[a].calls)
         /\ DOMAIN Pipeline!CallsOf(s[a]) = 1..Len(s[a].calls)
         /\ \A k \in 1..Len(s[a].calls) :
              /\ a + k \in DOMAIN s /\ s[a + k].role = "tool" /\ s[a + k].answers = s[a].calls[k].id
              /\ s[a].calls[k].id \in MadeBy(s[a])
<1>1. a \in DOMAIN s /\ s[a].calls # <<>> /\ s[a] \in Messages /\ Proper(s[a])
  BY DEF Sound, Calling
<1>2. s[a].role = "assistant" /\ s[a].blocks = <<>>
  BY <1>1 DEF Proper, ProperCalls
<1>3. Len(s[a].calls) \in Nat /\ Len(s[a].calls) # 0 /\ DOMAIN s[a].calls = 1..Len(s[a].calls)
  <2>1. s[a].calls \in Seq(ToolCalls)
    BY <1>1 DEF Messages
  <2> QED BY <1>1, <2>1
<1>4. /\ Pipeline!CallsOf(s[a]) \in Seq(Seq(Nat))
      /\ Len(Pipeline!CallsOf(s[a])) = Len(s[a].calls) + Len(s[a].blocks)
      /\ \A k \in 1..Len(s[a].calls) : Pipeline!CallsOf(s[a])[k] = s[a].calls[k].id
  BY <1>1, MadeTypes
<1>5. Len(Pipeline!CallsOf(s[a])) = Len(s[a].calls)
  <2>1. Len(s[a].blocks) = 0
    BY <1>2
  <2> QED BY ONLY <1>3, <1>4, <2>1
<1>6. DOMAIN Pipeline!CallsOf(s[a]) = 1..Len(s[a].calls)
  <2>1. DOMAIN Pipeline!CallsOf(s[a]) = 1..Len(Pipeline!CallsOf(s[a]))
    <3>1. Pipeline!CallsOf(s[a]) \in Seq(Seq(Nat))
      BY <1>4
    <3> QED BY ONLY <3>1
  <2> QED BY ONLY <1>5, <2>1, Zenon
<1>7. Pipeline!MakesCalls(s[a])
  <2>1. Pipeline!CallsOf(s[a]) # <<>>
    BY <1>3, <1>5
  <2> QED BY <1>2, <2>1 DEF Pipeline!MakesCalls
<1>8. \A k \in 1..Len(s[a].calls) :
        a + k \in DOMAIN s /\ s[a + k].role = "tool" /\ s[a + k].answers = s[a].calls[k].id
  BY <1>1, <1>4, <1>6, <1>7 DEF Followed
<1>9. \A k \in 1..Len(s[a].calls) : s[a].calls[k].id \in MadeBy(s[a])
  BY <1>1, <1>3, CallIsMade
<1> QED BY <1>2, <1>3, <1>6, <1>7, <1>8, <1>9

\* Where calls and results are in a request: at[a] is how much there is
\* before the message at a.
Placed(at, s, o) ==
  /\ \A a \in Calling(s) : /\ at[a] \in Nat
                           /\ \A k \in 0..Len(s[a].calls) : at[a] + 1 + k \in DOMAIN o /\ o[at[a] + 1 + k] = s[a + k]
  /\ \A p \in DOMAIN o : o[p].role = "tool" =>
       \E a \in Calling(s) : \E k \in 1..Len(s[a].calls) : p = at[a] + 1 + k
  /\ \A p \in DOMAIN o : \/ o[p].calls = <<>> /\ o[p].blocks = <<>>
                         \/ o[p].role \in {"tool", "user"} /\ o[p].calls = <<>>
                         \/ \E a \in Calling(s) : p = at[a] + 1
  /\ \A a, b \in Calling(s) : a < b => at[a] + 1 + Len(s[a].calls) <= at[b]

LEMMA BlocksChanged ==
  ASSUME NEW m \in Messages, NEW blocks \in Seq(Blocks)
  PROVE  [m EXCEPT !.blocks = blocks] \in Messages
BY DEF Messages

\* What becomes of each message for OpenAI.
LEMMA OpenAiPlaces ==
  ASSUME NEW s, Sound(s), Followed(s), asked \in Nat
  PROVE  /\ Pipeline!OpenAi(s) \in Seq(Messages)
         /\ \E at : Placed(at, s, Pipeline!OpenAi(s))
<1> DEFINE before(i) == \E a \in 1 .. i - 1 : \E k \in DOMAIN s[a].calls : s[a].calls[k].id = s[i].answers
           ss == [i \in DOMAIN s |->
                    IF s[i].role = "tool"
                    THEN IF before(i) THEN <<s[i]>>
                         ELSE IF s[i].text \in Pipeline!Unreadable THEN <<>> ELSE <<Pipeline!Says("user", s[i].text)>>
                    ELSE IF s[i].calls # <<>> THEN <<s[i]>>
                    ELSE IF s[i].text = Pipeline!Blank THEN <<>> ELSE <<[s[i] EXCEPT !.blocks = <<>>]>>]
           o == Pipeline!FlattenSeq(ss)
<1>1. Pipeline!OpenAi(s) = o
  BY DEF Pipeline!OpenAi, Pipeline!Flat, Pipeline!Has
<1>2. /\ s \in Seq(Messages) /\ DOMAIN s = 1..Len(s) /\ Len(s) \in Nat
      /\ \A i \in DOMAIN s : s[i] \in Messages /\ Proper(s[i])
  BY DEF Sound
<1>3. \A i \in DOMAIN s : s[i].role = "tool" /\ before(i) =>
        \E a \in Calling(s) : \E k \in 1..Len(s[a].calls) : i = a + k
  <2> SUFFICES ASSUME NEW i \in DOMAIN s, s[i].role = "tool", before(i)
               PROVE  \E a \in Calling(s) : \E k \in 1..Len(s[a].calls) : i = a + k
    OBVIOUS
  <2>1. PICK a \in 1 .. i - 1 : \E k \in DOMAIN s[a].calls : s[a].calls[k].id = s[i].answers
    OBVIOUS
  <2>2. a \in DOMAIN s
    BY <1>2, <2>1
  <2>3. s[i].answers \in MadeBy(s[a])
    BY <1>2, <2>1, <2>2, CallIsMade
  <2>4. s[a].calls # <<>>
    <3>1. DOMAIN s[a].calls # {}
      BY <2>1
    <3> QED BY <3>1
  <2>5. PICK b \in DOMAIN s : Pipeline!MakesCalls(s[b]) /\ \E k \in DOMAIN Pipeline!CallsOf(s[b]) : i = b + k
    BY DEF Followed
  <2>6. PICK k \in DOMAIN Pipeline!CallsOf(s[b]) : i = b + k
    BY <2>5
  <2>7. s[i].answers \in MadeBy(s[b])
    <3>1. s[i].answers = Pipeline!CallsOf(s[b])[k]
      BY <2>5, <2>6 DEF Followed
    <3> QED BY <2>5, <2>6, <3>1 DEF MadeBy, Pipeline!MakesCalls
  <2>8. a = b
    BY <2>2, <2>3, <2>7 DEF Sound, Apart
  <2>9. a \in Calling(s)
    BY <2>2, <2>4 DEF Calling
  <2>10. DOMAIN Pipeline!CallsOf(s[a]) = 1..Len(s[a].calls)
    BY <2>9, CallingIs
  <2> QED BY <2>6, <2>8, <2>9, <2>10
<1>4. \A a \in Calling(s) : \A k \in 1..Len(s[a].calls) : before(a + k)
  <2> TAKE a \in Calling(s)
  <2> TAKE k \in 1..Len(s[a].calls)
  <2>1. s[a + k].answers = s[a].calls[k].id /\ DOMAIN s[a].calls = 1..Len(s[a].calls) /\ Len(s[a].calls) \in Nat
    BY CallingIs
  <2>2. a \in 1..((a + k) - 1)
    <3>1. a \in Nat /\ a >= 1 /\ k \in Nat /\ k >= 1
      BY <1>2, <2>1 DEF Calling
    <3> QED BY ONLY <3>1
  <2> QED BY <2>1, <2>2
<1>5. \A i \in DOMAIN s :
        \/ ss[i] = <<>> /\ i \notin Calling(s)
        \/ /\ ss[i] = <<s[i]>> /\ s[i].role = "tool"
           /\ \E a \in Calling(s) : \E k \in 1..Len(s[a].calls) : i = a + k
        \/ ss[i] = <<s[i]>> /\ i \in Calling(s)
        \/ ss[i] = <<Pipeline!Says("user", s[i].text)>> /\ i \notin Calling(s)
        \/ ss[i] = <<[s[i] EXCEPT !.blocks = <<>>]>> /\ i \notin Calling(s) /\ s[i].calls = <<>> /\ s[i].role # "tool"
  <2> TAKE i \in DOMAIN s
  <2>1. CASE s[i].role = "tool"
    <3>1. i \notin Calling(s)
      BY <2>1, CallingIs
    <3>2. s[i].role = "tool" /\ before(i) => \E a \in Calling(s) : \E k \in 1..Len(s[a].calls) : i = a + k
      BY <1>3
    <3>3. ss[i] = IF before(i) THEN <<s[i]>>
                  ELSE IF s[i].text \in Pipeline!Unreadable THEN <<>> ELSE <<Pipeline!Says("user", s[i].text)>>
      BY <2>1
    <3> HIDE DEF before, ss
    <3> QED BY <2>1, <3>1, <3>2, <3>3
  <2>2. CASE s[i].role # "tool"
    <3>1. ss[i] = IF s[i].calls # <<>> THEN <<s[i]>>
                  ELSE IF s[i].text = Pipeline!Blank THEN <<>> ELSE <<[s[i] EXCEPT !.blocks = <<>>]>>
      BY <2>2
    <3> HIDE DEF before, ss
    <3> QED BY <2>2, <3>1 DEF Calling
  <2> QED BY <2>1, <2>2
<1>6. \A i \in DOMAIN s :
        /\ ss[i] \in Seq(Messages) /\ Len(ss[i]) \in {0, 1}
        /\ \A j \in 1..Len(ss[i]) : j = 1
  <2> TAKE i \in DOMAIN s
  <2>1. s[i] \in Messages
    BY <1>2
  <2>2. Pipeline!Says("user", s[i].text) \in Messages
    <3>1. s[i].text \in Int
      BY <2>1 DEF Messages
    <3> QED BY <3>1, SaysIs
  <2>3. [s[i] EXCEPT !.blocks = <<>>] \in Messages
    <3>1. <<>> \in Seq(Blocks)
      OBVIOUS
    <3> QED BY <2>1, <3>1, BlocksChanged
  <2> HIDE DEF ss
  <2>4. ss[i] = <<>> \/ \E m \in Messages : ss[i] = <<m>>
    BY <1>5, <2>1, <2>2, <2>3
  <2>5. CASE ss[i] = <<>>
    <3>1. <<>> \in Seq(Messages) /\ Len(<<>>) = 0 /\ \A j \in 1..0 : j = 1
      OBVIOUS
    <3> QED BY <2>5, <3>1
  <2>6. CASE \E m \in Messages : ss[i] = <<m>>
    <3>1. PICK m \in Messages : ss[i] = <<m>>
      BY <2>6
    <3>2. <<m>> \in Seq(Messages) /\ Len(<<m>>) = 1 /\ \A j \in 1..1 : j = 1
      OBVIOUS
    <3> QED BY <3>1, <3>2
  <2> QED BY <2>4, <2>5, <2>6
<1>7. \A a \in Calling(s) : \A k \in 0..Len(s[a].calls) : a + k \in DOMAIN s /\ ss[a + k] = <<s[a + k]>>
  <2> TAKE a \in Calling(s)
  <2> TAKE k \in 0..Len(s[a].calls)
  <2>1. a \in DOMAIN s /\ a \in Nat /\ Len(s[a].calls) \in Nat
    BY <1>2, CallingIs DEF Calling
  <2>2. CASE k = 0
    <3>1. a + k = a
      BY <2>1, <2>2
    <3>2. ss[a] = <<s[a]>>
      <4>1. s[a].role # "tool" /\ s[a].calls # <<>>
        BY CallingIs DEF Calling
      <4> HIDE DEF before
      <4> QED BY <2>1, <4>1
    <3> HIDE DEF ss
    <3> QED BY <2>1, <3>1, <3>2
  <2>3. CASE k # 0
    <3>1. k \in 1..Len(s[a].calls)
      BY <2>1, <2>3
    <3>2. a + k \in DOMAIN s /\ s[a + k].role = "tool"
      BY <3>1, CallingIs
    <3>3. before(a + k)
      BY <1>4, <3>1
    <3>4. ss[a + k] = <<s[a + k]>>
      <4> HIDE DEF before
      <4> QED BY <3>2, <3>3
    <3> HIDE DEF ss
    <3> QED BY <3>2, <3>4
  <2> QED BY <2>2, <2>3
<1> HIDE DEF before
<1>8. ss \in Seq(Seq(Messages)) /\ Len(ss) = Len(s)
  <2>1. ss \in [1..Len(s) -> Seq(Messages)]
    <3>1. ss = [i \in 1..Len(s) |-> ss[i]]
      BY <1>2
    <3>2. \A i \in 1..Len(s) : ss[i] \in Seq(Messages)
      BY <1>2, <1>6
    <3> HIDE DEF ss
    <3> QED BY ONLY <3>1, <3>2, Zenon
  <2> HIDE DEF ss
  <2> QED BY <1>2, <2>1
<1> HIDE DEF ss, o
<1>9. o \in Seq(Messages) /\ \E at : Joined(at, ss, o)
  BY <1>8, FlatPlaces DEF o
<1>10. PICK at : Joined(at, ss, o)
  BY <1>9
<1>11. /\ \A i \in 1..Len(ss) : /\ at[i] \in Nat
                                /\ \A j \in 1..Len(ss[i]) : at[i] + j \in DOMAIN o /\ o[at[i] + j] = ss[i][j]
       /\ \A p \in DOMAIN o : \E i \in 1..Len(ss) : \E j \in 1..Len(ss[i]) : p = at[i] + j /\ o[p] = ss[i][j]
  <2>1. ss \in Seq(Seq(Messages)) /\ o \in Seq(Messages) /\ Joined(at, ss, o)
    BY <1>8, <1>9, <1>10
  <2>2. Spread(at, ss, o)
    BY ONLY <2>1, JoinedIs
  <2> QED BY ONLY <2>2 DEF Spread
<1>12. 1..Len(ss) = DOMAIN s
  BY <1>2, <1>8
<1>13. \A a \in Calling(s) : \A k \in 0..Len(s[a].calls) + 1 : at[a + k] = at[a] + k
  <2> TAKE a \in Calling(s)
  <2> TAKE k \in 0..Len(s[a].calls) + 1
  <2>1. a \in DOMAIN s /\ a \in Nat /\ Len(s[a].calls) \in Nat
    BY <1>2, CallingIs DEF Calling
  <2>2. k \in Nat /\ a + k <= Len(ss) + 1
    <3>1. a + Len(s[a].calls) \in DOMAIN s
      <4>1. Len(s[a].calls) \in 0..Len(s[a].calls)
        BY <2>1
      <4> QED BY <1>7, <4>1
    <3>2. a + Len(s[a].calls) <= Len(ss) /\ Len(ss) \in Nat
      BY <1>2, <1>8, <3>1
    <3>3. k <= Len(s[a].calls) + 1 /\ k \in Nat
      BY <2>1
    <3> QED BY ONLY <2>1, <3>2, <3>3
  <2>3. \A j \in a .. a + k - 1 : Len(ss[j]) = 1
    <3> TAKE j \in a .. a + k - 1
    <3>1. j - a \in 0..Len(s[a].calls) /\ a + (j - a) = j
      <4>1. k <= Len(s[a].calls) + 1 /\ k \in Nat
        BY <2>1
      <4>2. j \in a .. a + k - 1
        OBVIOUS
      <4> QED BY ONLY <2>1, <4>1, <4>2
    <3>2. ss[j] = <<s[j]>>
      BY <1>7, <3>1
    <3> QED BY <3>2
  <2>4. Len(ss) \in Nat /\ a \in 1..Len(ss)
    BY <1>8, <1>12, <2>1
  <2> QED BY <1>10, <2>2, <2>3, <2>4, SingleSteps
<1>14. \A a \in Calling(s) : /\ at[a] \in Nat
                             /\ \A k \in 0..Len(s[a].calls) : at[a] + 1 + k \in DOMAIN o /\ o[at[a] + 1 + k] = s[a + k]
  <2> TAKE a \in Calling(s)
  <2>1. at[a] \in Nat /\ Len(s[a].calls) \in Nat
    BY <1>11, <1>12, CallingIs DEF Calling
  <2>2. \A k \in 0..Len(s[a].calls) : at[a] + 1 + k \in DOMAIN o /\ o[at[a] + 1 + k] = s[a + k]
    <3> TAKE k \in 0..Len(s[a].calls)
    <3>1. a + k \in 1..Len(ss) /\ ss[a + k] = <<s[a + k]>>
      BY <1>7, <1>12
    <3>2. 1 \in 1..Len(ss[a + k]) /\ ss[a + k][1] = s[a + k]
      BY <3>1
    <3>3. at[a + k] + 1 \in DOMAIN o /\ o[at[a + k] + 1] = s[a + k]
      BY <1>11, <3>1, <3>2
    <3>4. at[a + k] = at[a] + k
      <4>1. k \in 0..Len(s[a].calls) + 1
        BY <2>1
      <4> QED BY <1>13, <4>1
    <3>5. at[a] + k + 1 = at[a] + 1 + k
      <4>1. k \in Nat
        BY <2>1
      <4> QED BY ONLY <2>1, <4>1
    <3> QED BY ONLY <3>3, <3>4, <3>5, Zenon
  <2> QED BY <2>1, <2>2
<1>15. \A p \in DOMAIN o : \E i \in DOMAIN s : p = at[i] + 1 /\ ss[i] # <<>> /\ o[p] = ss[i][1]
  <2> TAKE p \in DOMAIN o
  <2>1. PICK i \in DOMAIN s : \E j \in 1..Len(ss[i]) : p = at[i] + j /\ o[p] = ss[i][j]
    BY <1>11, <1>12
  <2>2. PICK j \in 1..Len(ss[i]) : p = at[i] + j /\ o[p] = ss[i][j]
    BY <2>1
  <2>3. j = 1 /\ ss[i] # <<>>
    <3>1. 1..Len(<<>>) = {}
      OBVIOUS
    <3> QED BY <1>6, <2>2, <3>1
  <2> QED BY <2>2, <2>3
<1>16. \A p \in DOMAIN o : \/ o[p].calls = <<>> /\ o[p].blocks = <<>> /\ o[p].role # "tool"
                           \/ /\ o[p].role = "tool" /\ o[p].calls = <<>>
                              /\ \E a \in Calling(s) : \E k \in 1..Len(s[a].calls) : p = at[a] + 1 + k
                           \/ o[p].role = "assistant" /\ \E a \in Calling(s) : p = at[a] + 1
  <2> TAKE p \in DOMAIN o
  <2>1. PICK i \in DOMAIN s : p = at[i] + 1 /\ ss[i] # <<>> /\ o[p] = ss[i][1]
    BY <1>15
  <2>2. s[i] \in Messages /\ Proper(s[i])
    BY <1>2
  <2>3. CASE /\ ss[i] = <<s[i]>> /\ s[i].role = "tool"
             /\ \E a \in Calling(s) : \E k \in 1..Len(s[a].calls) : i = a + k
    <3>1. PICK a \in Calling(s) : \E k \in 1..Len(s[a].calls) : i = a + k
      BY <2>3
    <3>2. PICK k \in 1..Len(s[a].calls) : i = a + k
      BY <3>1
    <3>3. Len(s[a].calls) \in Nat /\ at[a] \in Nat
      BY <1>14, CallingIs
    <3>4. at[i] = at[a] + k
      <4>1. k \in 0..Len(s[a].calls) + 1
        BY <3>3
      <4> QED BY <1>13, <3>2, <4>1
    <3>5. p = at[a] + 1 + k
      <4>1. k \in Nat
        BY <3>3
      <4> QED BY ONLY <2>1, <3>3, <3>4, <4>1
    <3>6. o[p] = s[i]
      BY <2>1, <2>3
    <3>7. s[i].calls = <<>>
      BY <2>2, <2>3 DEF Proper
    <3> QED BY <2>3, <3>5, <3>6, <3>7
  <2>4. CASE ss[i] = <<s[i]>> /\ i \in Calling(s)
    <3>1. o[p] = s[i] /\ s[i].role = "assistant"
      BY <2>1, <2>4, CallingIs
    <3> QED BY <2>1, <2>4, <3>1
  <2>5. CASE ss[i] = <<Pipeline!Says("user", s[i].text)>>
    <3>1. s[i].text \in Int
      BY <2>2 DEF Messages
    <3>2. o[p] = Pipeline!Says("user", s[i].text)
      BY <2>1, <2>5
    <3>3. o[p].role = "user" /\ o[p].calls = <<>> /\ o[p].blocks = <<>>
      BY <3>1, <3>2, SaysIs
    <3> QED BY <3>3
  <2>6. CASE ss[i] = <<[s[i] EXCEPT !.blocks = <<>>]>> /\ s[i].calls = <<>> /\ s[i].role # "tool"
    <3>1. o[p] = [s[i] EXCEPT !.blocks = <<>>]
      BY <2>1, <2>6
    <3>2. o[p].blocks = <<>> /\ o[p].calls = s[i].calls /\ o[p].role = s[i].role
      BY <2>2, <3>1 DEF Messages
    <3> QED BY <2>6, <3>2
  <2> QED BY <1>5, <2>1, <2>3, <2>4, <2>5, <2>6
<1>17. \A a, b \in Calling(s) : a < b => at[a] + 1 + Len(s[a].calls) <= at[b]
  <2> TAKE a, b \in Calling(s)
  <2> HAVE a < b
  <2>1. /\ a \in DOMAIN s /\ b \in DOMAIN s /\ a \in Nat /\ b \in Nat
        /\ Len(s[a].calls) \in Nat /\ s[b].role # "tool"
    BY <1>2, CallingIs DEF Calling
  <2>2. ~ (b <= a + Len(s[a].calls))
    <3> SUFFICES ASSUME b <= a + Len(s[a].calls) PROVE FALSE
      OBVIOUS
    <3>1. b - a \in 1..Len(s[a].calls) /\ a + (b - a) = b
      BY <2>1
    <3>2. s[b].role = "tool"
      BY <3>1, CallingIs
    <3> QED BY <2>1, <3>2
  <2>3. Len(s[a].calls) \in 0..Len(s[a].calls) /\ Len(s[a].calls) + 1 \in 0..Len(s[a].calls) + 1
    BY <2>1
  <2>4. a + Len(s[a].calls) \in 1..Len(ss) /\ b \in 1..Len(ss) /\ a + Len(s[a].calls) < b
    BY <1>7, <1>12, <2>1, <2>2, <2>3
  <2>5. at[a + Len(s[a].calls) + 1] <= at[b]
    BY <1>10, <2>4 DEF Joined
  <2>6. at[a + (Len(s[a].calls) + 1)] = at[a] + (Len(s[a].calls) + 1)
    BY <1>13, <2>3
  <2>7. a + (Len(s[a].calls) + 1) = a + Len(s[a].calls) + 1
    BY ONLY <2>1
  <2>8. at[a] + (Len(s[a].calls) + 1) = at[a] + 1 + Len(s[a].calls)
    <3>1. at[a] \in Nat
      BY <1>14
    <3> QED BY ONLY <2>1, <3>1
  <2> QED BY ONLY <2>5, <2>6, <2>7, <2>8, Zenon
<1>18. Placed(at, s, o)
  BY <1>14, <1>16, <1>17 DEF Placed
<1> QED BY <1>1, <1>9, <1>18

\* The request to OpenAI.
LEMMA OpenAiPaired ==
  ASSUME NEW s, Sound(s), Followed(s), asked \in Nat
  PROVE  LET o == Pipeline!OpenAi(s) IN
         \A i \in DOMAIN o :
           /\ o[i].role = "tool" => \E a \in 1..i - 1 : Pipeline!MakesCalls(o[a]) /\ Pipeline!Adjacent(o, i, a)
           /\ Pipeline!MakesCalls(o[i]) =>
                /\ Pipeline!EndOfResults(o, i) = i + Len(o[i].calls)
                /\ \A k \in DOMAIN o[i].calls : o[i + k].answers = o[i].calls[k].id
           /\ \A k \in DOMAIN o[i].calls :
                /\ o[i].calls[k].call \in 1..asked
                /\ \/ o[i + k].text \in {o[i].calls[k].call, Pipeline!Compacted, Pipeline!ContextCompacted}
                   \/ o[i + k].text = Pipeline!Unavailable /\ o[i].calls[k].call \notin SavedResults
<1>1. PICK o : o = Pipeline!OpenAi(s)
  OBVIOUS
<1>2. PICK at : Placed(at, s, o)
  BY <1>1, OpenAiPlaces
<1>3. o \in Seq(Messages) /\ DOMAIN o = 1..Len(o) /\ Len(o) \in Nat
  BY <1>1, OpenAiPlaces
<1>4. s \in Seq(Messages) /\ DOMAIN s = 1..Len(s) /\ \A i \in DOMAIN s : s[i] \in Messages /\ Proper(s[i])
  BY DEF Sound
<1>5. ASSUME NEW a \in Calling(s)
      PROVE  /\ at[a] \in Nat /\ Len(s[a].calls) \in Nat /\ Len(s[a].calls) # 0
             /\ DOMAIN s[a].calls = 1..Len(s[a].calls)
             /\ at[a] + 1 \in DOMAIN o /\ o[at[a] + 1] = s[a] /\ Pipeline!MakesCalls(s[a])
             /\ \A k \in 1..Len(s[a].calls) : /\ at[a] + 1 + k \in DOMAIN o /\ o[at[a] + 1 + k] = s[a + k]
                                              /\ a + k \in DOMAIN s /\ s[a + k].role = "tool"
                                              /\ s[a + k].answers = s[a].calls[k].id
  <2>1. /\ Len(s[a].calls) \in Nat /\ Len(s[a].calls) # 0 /\ DOMAIN s[a].calls = 1..Len(s[a].calls)
        /\ Pipeline!MakesCalls(s[a])
        /\ \A k \in 1..Len(s[a].calls) : /\ a + k \in DOMAIN s /\ s[a + k].role = "tool"
                                         /\ s[a + k].answers = s[a].calls[k].id
    BY CallingIs
  <2>2. at[a] \in Nat /\ \A k \in 0..Len(s[a].calls) : at[a] + 1 + k \in DOMAIN o /\ o[at[a] + 1 + k] = s[a + k]
    BY <1>2 DEF Placed
  <2>3. at[a] + 1 + 0 = at[a] + 1 /\ a + 0 = a /\ 0 \in 0..Len(s[a].calls)
    BY <1>4, <2>1, <2>2 DEF Calling
  <2>4. at[a] + 1 \in DOMAIN o /\ o[at[a] + 1] = s[a]
    BY ONLY <2>2, <2>3
  <2>5. \A k \in 1..Len(s[a].calls) : k \in 0..Len(s[a].calls)
    BY <2>1
  <2> QED BY ONLY <2>1, <2>2, <2>4, <2>5
<1>6. \A p \in DOMAIN o : o[p].role = "tool" => \E a \in Calling(s) : \E k \in 1..Len(s[a].calls) : p = at[a] + 1 + k
  BY <1>2 DEF Placed
<1>7. \A p \in DOMAIN o : Pipeline!MakesCalls(o[p]) \/ DOMAIN o[p].calls # {} => \E a \in Calling(s) : p = at[a] + 1
  <2> TAKE p \in DOMAIN o
  <2>1. o[p] \in Messages
    BY <1>3
  <2>2. CASE o[p].calls = <<>> /\ o[p].blocks = <<>>
    <3>1. /\ Pipeline!CallsOf(o[p]) \in Seq(Seq(Nat))
          /\ Len(Pipeline!CallsOf(o[p])) = Len(o[p].calls) + Len(o[p].blocks)
      BY <2>1, MadeTypes
    <3>2. Len(o[p].calls) = 0 /\ Len(o[p].blocks) = 0 /\ DOMAIN o[p].calls = {}
      BY <2>2
    <3>3. Len(Pipeline!CallsOf(o[p])) = 0
      BY ONLY <3>1, <3>2
    <3>4. Pipeline!CallsOf(o[p]) = <<>>
      BY <3>1, <3>3
    <3> QED BY <3>2, <3>4 DEF Pipeline!MakesCalls
  <2>3. CASE o[p].role \in {"tool", "user"} /\ o[p].calls = <<>>
    <3>1. DOMAIN o[p].calls = {}
      BY <2>3
    <3> QED BY <2>3, <3>1 DEF Pipeline!MakesCalls
  <2> QED BY <1>2, <2>2, <2>3 DEF Placed
<1>8. ASSUME NEW i \in DOMAIN o, o[i].role = "tool"
      PROVE  \E a \in 1..i - 1 : Pipeline!MakesCalls(o[a]) /\ Pipeline!Adjacent(o, i, a)
  <2>1. PICK a \in Calling(s) : \E k \in 1..Len(s[a].calls) : i = at[a] + 1 + k
    BY <1>6, <1>8
  <2>2. PICK k \in 1..Len(s[a].calls) : i = at[a] + 1 + k
    BY <2>1
  <2>3. PICK p : p = at[a] + 1
    OBVIOUS
  <2>4. /\ at[a] \in Nat /\ Len(s[a].calls) \in Nat /\ k \in Nat /\ k >= 1 /\ k <= Len(s[a].calls)
        /\ o[p] = s[a] /\ Pipeline!MakesCalls(s[a])
    BY <1>5, <2>3
  <2>5. p \in 1..i - 1 /\ p < i
    BY ONLY <2>2, <2>3, <2>4
  <2>6. \A j \in p + 1 .. i - 1 : o[j].role = "tool"
    <3> TAKE j \in p + 1 .. i - 1
    <3>1. j - p \in 1..Len(s[a].calls) /\ j = at[a] + 1 + (j - p)
      <4>1. j \in p + 1 .. i - 1
        OBVIOUS
      <4> QED BY ONLY <2>2, <2>3, <2>4, <4>1
    <3>2. o[at[a] + 1 + (j - p)] = s[a + (j - p)] /\ s[a + (j - p)].role = "tool"
      BY <1>5, <3>1
    <3> QED BY ONLY <3>1, <3>2, Zenon
  <2>7. Pipeline!Adjacent(o, i, p)
    BY <2>5, <2>6 DEF Pipeline!Adjacent
  <2> QED BY <2>4, <2>5, <2>7
<1>9. ASSUME NEW i \in DOMAIN o, Pipeline!MakesCalls(o[i])
      PROVE  /\ Pipeline!EndOfResults(o, i) = i + Len(o[i].calls)
             /\ \A k \in DOMAIN o[i].calls : o[i + k].answers = o[i].calls[k].id
  <2>1. PICK a \in Calling(s) : i = at[a] + 1
    BY <1>7, <1>9
  <2>2. o[i] = s[a] /\ at[a] \in Nat /\ i \in Nat
    BY <1>5, <2>1
  <2>3. PICK n : n = Len(s[a].calls)
    OBVIOUS
  <2>4. n \in Nat /\ n # 0 /\ n = Len(o[i].calls) /\ DOMAIN o[i].calls = 1..n
    BY <1>5, <2>2, <2>3
  <2>5. \A k \in 1..n : i + k \in DOMAIN o /\ o[i + k].role = "tool" /\ o[i + k].answers = o[i].calls[k].id
    BY <1>5, <2>1, <2>2, <2>3
  <2>6. PICK e : e = Pipeline!EndOfResults(o, i)
    OBVIOUS
  <2>7. /\ e \in i..Len(o) /\ e \in DOMAIN o
        /\ e = Len(o) \/ o[e + 1].role # "tool"
        /\ \A j \in i + 1 .. e : o[j].role = "tool"
    BY <1>3, <2>6, EndIs
  <2>8. ~ (e < i + n)
    <3> SUFFICES ASSUME e < i + n PROVE FALSE
      OBVIOUS
    <3>1. e - i + 1 \in 1..n /\ i + (e - i + 1) = e + 1 /\ n \in 1..n
      BY <2>2, <2>4, <2>7
    <3>2. e + 1 \in DOMAIN o /\ o[e + 1].role = "tool"
      BY ONLY <2>5, <3>1
    <3> QED BY <1>3, <2>7, <3>2
  <2>9. ~ (e > i + n)
    <3> SUFFICES ASSUME e > i + n PROVE FALSE
      OBVIOUS
    <3>1. PICK q : q = i + n + 1
      OBVIOUS
    <3>2. q \in i + 1 .. e /\ q \in DOMAIN o
      BY <1>3, <2>2, <2>4, <2>7, <3>1
    <3>3. o[q].role = "tool"
      BY <2>7, <3>2
    <3>4. PICK b \in Calling(s) : \E k \in 1..Len(s[b].calls) : q = at[b] + 1 + k
      BY <1>6, <3>2, <3>3
    <3>5. PICK k \in 1..Len(s[b].calls) : q = at[b] + 1 + k
      BY <3>4
    <3>6. at[b] \in Nat /\ Len(s[b].calls) \in Nat /\ k \in Nat /\ k >= 1 /\ k <= Len(s[b].calls)
      BY <1>5
    <3>7. at[a] + 1 + n + 1 = at[b] + 1 + k
      BY ONLY <2>1, <3>1, <3>5
    <3>8. a \in Nat /\ b \in Nat
      BY <1>4 DEF Calling
    <3>9. \/ a = b
          \/ a < b /\ at[a] + 1 + n <= at[b]
          \/ b < a /\ at[b] + 1 + Len(s[b].calls) <= at[a]
      <4>1. a = b \/ a < b \/ b < a
        BY <3>8
      <4> QED BY <1>2, <2>3, <4>1 DEF Placed
    <3>10. CASE a = b
      <4>1. k <= n /\ at[a] + 1 + n + 1 = at[a] + 1 + k
        BY <2>3, <3>6, <3>7, <3>10
      <4> QED BY ONLY <2>2, <2>4, <3>6, <4>1
    <3>11. CASE at[a] + 1 + n <= at[b]
      BY ONLY <2>2, <2>4, <3>6, <3>7, <3>11
    <3>12. CASE at[b] + 1 + Len(s[b].calls) <= at[a]
      <4>1. \A x, y, z, k1, l \in Nat : k1 <= l /\ x + 1 + z + 1 = y + 1 + k1 => ~ (y + 1 + l <= x)
        OBVIOUS
      <4> QED BY ONLY <2>2, <2>4, <3>6, <3>7, <3>12, <4>1
    <3> QED BY <3>9, <3>10, <3>11, <3>12
  <2>10. e = i + n
    <3>1. e \in Nat /\ i + n \in Nat
      BY <2>2, <2>4, <2>7
    <3> QED BY <2>8, <2>9, <3>1
  <2> QED BY <2>4, <2>5, <2>6, <2>10
<1>10. ASSUME NEW i \in DOMAIN o, NEW k \in DOMAIN o[i].calls
       PROVE  /\ o[i].calls[k].call \in 1..asked
              /\ \/ o[i + k].text \in {o[i].calls[k].call, Pipeline!Compacted, Pipeline!ContextCompacted}
                 \/ o[i + k].text = Pipeline!Unavailable /\ o[i].calls[k].call \notin SavedResults
  <2>1. PICK a \in Calling(s) : i = at[a] + 1
    BY <1>7
  <2>2. o[i] = s[a] /\ a \in DOMAIN s /\ k \in 1..Len(s[a].calls) /\ k \in DOMAIN s[a].calls
    BY <1>5, <2>1 DEF Calling
  <2>3. o[i + k] = s[a + k] /\ a + k \in DOMAIN s /\ s[a + k].role = "tool" /\ s[a + k].answers = s[a].calls[k].id
    BY <1>5, <2>1, <2>2
  <2>4. s[a].calls[k].call \in 1..asked /\ s[a].calls[k].id = <<s[a].calls[k].call>>
    BY <2>2, CallsAreAsked
  <2>5. PICK c \in 1..asked : /\ s[a + k].answers = <<c>>
                              /\ \/ s[a + k].text \in {c, Pipeline!Compacted, Pipeline!ContextCompacted}
                                 \/ s[a + k].text = Pipeline!Unavailable /\ c \notin SavedResults
    BY <1>4, <2>3 DEF Proper, ProperResult
  <2>6. c = s[a].calls[k].call
    <3>1. <<c>> = <<s[a].calls[k].call>>
      BY <2>3, <2>4, <2>5
    <3> QED BY <3>1
  <2> QED BY <2>2, <2>3, <2>4, <2>5, <2>6
<1> QED BY <1>1, <1>8, <1>9, <1>10

\* Messages in Anthropic's format; only the assistant's make calls.
Speeches == [role : {"user", "assistant"}, content : Seq(Blocks)]
Spoken(c) ==
  /\ c \in Seq(Speeches)
  /\ \A i \in DOMAIN c : c[i].role = "user" => \A k \in DOMAIN c[i].content : c[i].content[k].kind # "use"

\* What the blocks of a message are.
LEMMA OfKindIs ==
  ASSUME NEW m, NEW kind, NEW id
  PROVE  id \in Pipeline!OfKind(m, kind) <=>
           \E k \in DOMAIN m.content : m.content[k].kind = kind /\ id = m.content[k].id
BY DEF Pipeline!OfKind

LEMMA BlockIs ==
  ASSUME NEW kind \in {"use", "result", "text"}, NEW id \in Seq(Nat), NEW words \in Int
  PROVE  /\ Pipeline!Block(kind, id, words) \in Blocks
         /\ Pipeline!Block(kind, id, words).kind = kind /\ Pipeline!Block(kind, id, words).id = id
BY DEF Pipeline!Block, Blocks

LEMMA ContentIs ==
  ASSUME NEW m \in Messages, Proper(m)
  PROVE  /\ Pipeline!Content(m) \in Seq(Blocks)
         /\ m.role # "assistant" => \A k \in DOMAIN Pipeline!Content(m) : Pipeline!Content(m)[k].kind # "use"
<1>1. /\ m.role \in {"system", "user", "assistant", "tool"} /\ m.text \in Int /\ m.calls \in Seq(ToolCalls)
      /\ m.blocks \in Seq(Blocks) /\ m.answers \in Seq(Nat)
  BY DEF Messages
<1>2. <<>> \in Seq(Blocks) /\ DOMAIN <<>> = {}
  OBVIOUS
<1>3. \A b \in Blocks : <<b>> \in Seq(Blocks) /\ \A k \in DOMAIN <<b>> : <<b>>[k] = b
  OBVIOUS
<1>4. Pipeline!NoId \in Seq(Nat)
  BY DEF Pipeline!NoId
<1>5. CASE m.role = "system"
  <2>1. Pipeline!Content(m) = <<>>
    BY <1>5 DEF Pipeline!Content
  <2> QED BY <1>2, <2>1
<1>6. CASE m.role = "tool"
  <2>1. Pipeline!Content(m) = <<Pipeline!Block("result", m.answers, m.text)>>
    BY <1>6 DEF Pipeline!Content
  <2>2. PICK b : b = Pipeline!Block("result", m.answers, m.text)
    OBVIOUS
  <2>3. b \in Blocks /\ b.kind = "result"
    BY <1>1, <2>2, BlockIs
  <2> QED BY <1>3, <2>1, <2>2, <2>3
<1>7. CASE m.role = "user"
  <2>1. Pipeline!Content(m) = IF m.blocks # <<>> THEN m.blocks ELSE <<Pipeline!Block("text", Pipeline!NoId, m.text)>>
    BY <1>7 DEF Pipeline!Content
  <2>2. PICK b : b = Pipeline!Block("text", Pipeline!NoId, m.text)
    OBVIOUS
  <2>3. b \in Blocks /\ b.kind = "text"
    BY <1>1, <1>4, <2>2, BlockIs
  <2>4. \A k \in DOMAIN m.blocks : m.blocks[k].kind = "result"
    BY <1>7 DEF Proper
  <2> QED BY <1>1, <1>3, <2>1, <2>2, <2>3, <2>4
<1>8. CASE m.role = "assistant"
  <2>1. PICK u, v, w :
          /\ u = Pipeline!TextBlock(m.text) /\ v = m.blocks
          /\ w = [k \in DOMAIN m.calls |-> Pipeline!Block("use", m.calls[k].id, m.calls[k].call)]
    OBVIOUS
  <2>2. Pipeline!Content(m) = IF m.text = Pipeline!Blank /\ m.blocks = <<>> THEN <<>> ELSE u \o v \o w
    BY <1>8, <2>1 DEF Pipeline!Content
  <2>3. u \in Seq(Blocks)
    <3>1. Pipeline!Block("text", Pipeline!NoId, m.text) \in Blocks
      BY <1>1, <1>4, BlockIs
    <3>2. u = <<>> \/ u = <<Pipeline!Block("text", Pipeline!NoId, m.text)>>
      BY <2>1 DEF Pipeline!TextBlock
    <3> QED BY <1>2, <1>3, <3>1, <3>2
  <2>4. w \in Seq(Blocks)
    <3>1. \A k \in DOMAIN m.calls : m.calls[k] \in ToolCalls
      BY <1>1
    <3>2. \A k \in DOMAIN m.calls : m.calls[k].id \in Seq(Nat) /\ m.calls[k].call \in Int
      BY <3>1 DEF ToolCalls
    <3>3. \A k \in DOMAIN m.calls : Pipeline!Block("use", m.calls[k].id, m.calls[k].call) \in Blocks
      BY <3>2, BlockIs
    <3>4. DOMAIN m.calls = 1..Len(m.calls) /\ Len(m.calls) \in Nat
      BY <1>1
    <3>5. w \in [1..Len(m.calls) -> Blocks]
      BY <2>1, <3>3, <3>4
    <3> QED BY <3>4, <3>5
  <2>5. u \o v \o w \in Seq(Blocks)
    <3>1. v \in Seq(Blocks)
      BY <1>1, <2>1
    <3> QED BY ONLY <2>3, <2>4, <3>1
  <2> QED BY <1>2, <1>8, <2>2, <2>5
<1> QED BY <1>1, <1>5, <1>6, <1>7, <1>8

\* The first step: as Anthropic's messages, the contents as blocks.
LEMMA BlocksIs ==
  ASSUME NEW ms, Sound(ms)
  PROVE  Spoken(Pipeline!Blocks(ms))
<1> DEFINE content(i) == Pipeline!Filled(Pipeline!Content(ms[i]))
           ss == [i \in DOMAIN ms |-> IF content(i) = <<>> THEN <<>>
                                      ELSE <<[role |-> Pipeline!Speaker(ms[i]), content |-> content(i)]>>]
           s == Pipeline!FlattenSeq(ss)
<1>1. Pipeline!Blocks(ms) = s
  BY DEF Pipeline!Blocks, Pipeline!Flat
<1>2. /\ ms \in Seq(Messages) /\ DOMAIN ms = 1..Len(ms) /\ Len(ms) \in Nat
      /\ \A i \in DOMAIN ms : ms[i] \in Messages /\ Proper(ms[i])
  BY DEF Sound
<1>3. \A i \in DOMAIN ms :
        LET m == [role |-> Pipeline!Speaker(ms[i]), content |-> content(i)] IN
        m \in Speeches /\ (m.role = "user" => \A k \in DOMAIN m.content : m.content[k].kind # "use")
  <2> TAKE i \in DOMAIN ms
  <2>1. PICK c : c = Pipeline!Content(ms[i])
    OBVIOUS
  <2>2. c \in Seq(Blocks) /\ (ms[i].role # "assistant" => \A k \in DOMAIN c : c[k].kind # "use")
    BY <1>2, <2>1, ContentIs
  <2>3. PICK d : d = content(i)
    OBVIOUS
  <2>4. d \in Seq(Blocks) /\ \A p \in DOMAIN d : \E k \in DOMAIN c : d[p] = c[k]
    <3>1. PICK P : d = Pipeline!Keep(c, P)
      BY <2>1, <2>3 DEF Pipeline!Filled, Pipeline!Drop
    <3> QED BY <2>2, <3>1, KeepIs
  <2>5. ms[i].role # "assistant" => \A k \in DOMAIN d : d[k].kind # "use"
    BY <2>2, <2>4
  <2>6. [role |-> Pipeline!Speaker(ms[i]), content |-> d] \in Speeches
    BY <2>4 DEF Speeches, Pipeline!Speaker
  <2> HIDE DEF content
  <2> QED BY <2>3, <2>5, <2>6 DEF Pipeline!Speaker
<1>4. \A i \in DOMAIN ms : \/ ss[i] = <<>>
                           \/ \E m \in Speeches : /\ ss[i] = <<m>>
                                                  /\ m.role = "user" => \A k \in DOMAIN m.content : m.content[k].kind # "use"
  <2> HIDE DEF content
  <2> QED BY <1>3
<1>5. DOMAIN ss = 1..Len(ms) /\ ss = [i \in 1..Len(ms) |-> ss[i]]
  BY <1>2
<1> HIDE DEF ss, s, content
<1>6. \A i \in 1..Len(ms) : /\ ss[i] \in Seq(Speeches)
                            /\ \A j \in 1..Len(ss[i]) : ss[i][j].role = "user" =>
                                  \A k \in DOMAIN ss[i][j].content : ss[i][j].content[k].kind # "use"
  <2> TAKE i \in 1..Len(ms)
  <2>1. CASE ss[i] = <<>>
    <3>1. <<>> \in Seq(Speeches) /\ 1..Len(<<>>) = {}
      OBVIOUS
    <3> QED BY <2>1, <3>1
  <2>2. CASE ss[i] # <<>>
    <3>1. PICK m \in Speeches : /\ ss[i] = <<m>>
                                /\ m.role = "user" => \A k \in DOMAIN m.content : m.content[k].kind # "use"
      BY <1>2, <1>4, <2>2
    <3>2. <<m>> \in Seq(Speeches) /\ \A j \in 1..Len(<<m>>) : <<m>>[j] = m
      OBVIOUS
    <3> QED BY <3>1, <3>2
  <2> QED BY <2>1, <2>2
<1>7. ss \in Seq(Seq(Speeches))
  <2>1. ss \in [1..Len(ms) -> Seq(Speeches)]
    BY ONLY <1>5, <1>6, Zenon
  <2> QED BY <1>2, <2>1
<1>8. s \in Seq(Speeches) /\ \E at : Joined(at, ss, s)
  BY <1>7, FlatPlaces DEF s
<1>9. PICK at : Joined(at, ss, s)
  BY <1>8
<1>10. \A p \in DOMAIN s : \E i \in 1..Len(ss) : \E j \in 1..Len(ss[i]) : p = at[i] + j /\ s[p] = ss[i][j]
  <2>1. ss \in Seq(Seq(Speeches)) /\ s \in Seq(Speeches) /\ Joined(at, ss, s)
    BY <1>7, <1>8, <1>9
  <2>2. /\ \A i \in 1..Len(ss) : /\ at[i] \in Nat
                                 /\ \A j \in 1..Len(ss[i]) : at[i] + j \in DOMAIN s /\ s[at[i] + j] = ss[i][j]
        /\ \A p \in DOMAIN s : \E i \in 1..Len(ss) : \E j \in 1..Len(ss[i]) : p = at[i] + j /\ s[p] = ss[i][j]
    <3>1. Spread(at, ss, s)
      BY ONLY <2>1, JoinedIs
    <3> QED BY ONLY <3>1 DEF Spread
  <2> QED BY ONLY <2>2
<1>11. 1..Len(ss) = 1..Len(ms)
  BY <1>2, <1>5, <1>7
<1> QED BY <1>1, <1>6, <1>8, <1>10, <1>11 DEF Spoken

\* A result comes before the assistant speaks again.
Pending(c, id, n) ==
  \E j \in DOMAIN c : /\ j > n /\ id \in Pipeline!OfKind(c[j], "result")
                      /\ \A x \in n + 1 .. j : c[x].role = "user"

Answers(c) == \A i \in DOMAIN c : \A id \in Pipeline!OfKind(c[i], "use") : Pending(c, id, i)

\* The second step: what is not answered before the next assistant message is
\* answered behind the calls.
LEMMA AnsweredIs ==
  ASSUME NEW c, Spoken(c)
  PROVE  Spoken(Pipeline!Answered(c)) /\ Answers(Pipeline!Answered(c))
<1> DEFINE until(i) == Pipeline!Min({j \in i + 1 .. Len(c) + 1 : j = Len(c) + 1 \/ c[j].role = "assistant"})
           found(i) == UNION {Pipeline!OfKind(c[j], "result") : j \in i + 1 .. until(i) - 1}
           P(i) == {k \in DOMAIN c[i].content : c[i].content[k].kind = "use" /\ c[i].content[k].id \notin found(i)}
           missing(i) == Pipeline!Keep(c[i].content, P(i))
           made(i) == [k \in DOMAIN missing(i) |-> Pipeline!Block("result", missing(i)[k].id, Pipeline!NotProvided)]
           reply(i) == [role |-> "user", content |-> made(i)]
           ss == [i \in DOMAIN c |-> IF c[i].role = "assistant" /\ missing(i) # <<>>
                                     THEN <<c[i], [role |-> "user", content |-> made(i)]>> ELSE <<c[i]>>]
           s == Pipeline!FlattenSeq(ss)
<1>1. Pipeline!Answered(c) = s
  BY DEF Pipeline!Answered, Pipeline!Flat
<1>2. /\ c \in Seq(Speeches) /\ DOMAIN c = 1..Len(c) /\ Len(c) \in Nat
      /\ \A i \in DOMAIN c : /\ c[i] \in Speeches /\ c[i].content \in Seq(Blocks) /\ c[i].role \in {"user", "assistant"}
                             /\ c[i].role = "user" => \A k \in DOMAIN c[i].content : c[i].content[k].kind # "use"
  <2>1. c \in Seq(Speeches) /\ DOMAIN c = 1..Len(c) /\ Len(c) \in Nat
    BY DEF Spoken
  <2>2. \A i \in DOMAIN c : c[i] \in Speeches
    BY <2>1
  <2>3. \A m \in Speeches : m.content \in Seq(Blocks) /\ m.role \in {"user", "assistant"}
    BY DEF Speeches
  <2> QED BY <2>1, <2>2, <2>3 DEF Spoken
<1>3. \A i \in DOMAIN c :
        /\ until(i) \in i + 1 .. Len(c) + 1
        /\ \A z \in i + 1 .. until(i) - 1 : z \in DOMAIN c /\ c[z].role = "user"
  <2> TAKE i \in DOMAIN c
  <2> DEFINE T == {j \in i + 1 .. Len(c) + 1 : j = Len(c) + 1 \/ c[j].role = "assistant"}
  <2>1. T \in SUBSET Nat /\ Len(c) + 1 \in T
    BY <1>2
  <2>2. until(i) \in T /\ \A y \in T : until(i) <= y
    <3> HIDE DEF T
    <3>1. Pipeline!Min(T) \in T /\ \A y \in T : Pipeline!Min(T) <= y
      BY <2>1, MinIs
    <3> QED BY <3>1 DEF T
  <2> HIDE DEF until
  <2>3. until(i) \in i + 1 .. Len(c) + 1
    BY <2>2
  <2>4. \A z \in i + 1 .. until(i) - 1 : z \in DOMAIN c /\ c[z].role = "user"
    <3> TAKE z \in i + 1 .. until(i) - 1
    <3>1. z \in i + 1 .. Len(c) + 1 /\ z # Len(c) + 1 /\ ~ (until(i) <= z) /\ z \in DOMAIN c
      BY <1>2, <2>3
    <3>2. z \notin T
      <4> HIDE DEF T
      <4> QED BY <2>2, <3>1
    <3> QED BY <1>2, <3>1, <3>2
  <2> QED BY <2>3, <2>4
<1> HIDE DEF until
<1>4. \A i \in DOMAIN c :
        /\ missing(i) \in Seq(Blocks)
        /\ \A k \in P(i) : \E p \in DOMAIN missing(i) : missing(i)[p] = c[i].content[k]
  <2> TAKE i \in DOMAIN c
  <2>1. c[i].content \in Seq(Blocks) /\ P(i) \subseteq DOMAIN c[i].content
    BY <1>2
  <2> HIDE DEF P
  <2> QED BY <2>1, KeepIs
<1> HIDE DEF missing, P
<1>5. \A i \in DOMAIN c :
        /\ reply(i) \in Speeches /\ reply(i).role = "user"
        /\ \A k \in DOMAIN reply(i).content : reply(i).content[k].kind # "use"
        /\ \A p \in DOMAIN missing(i) : missing(i)[p].id \in Pipeline!OfKind(reply(i), "result")
  <2> TAKE i \in DOMAIN c
  <2>1. PICK u : u = made(i)
    OBVIOUS
  <2>2. \A k \in DOMAIN missing(i) : missing(i)[k].id \in Seq(Nat)
    <3>1. \A k \in DOMAIN missing(i) : missing(i)[k] \in Blocks
      <4>1. missing(i) \in Seq(Blocks)
        BY <1>4
      <4> QED BY ONLY <4>1
    <3>2. \A b \in Blocks : b.id \in Seq(Nat)
      BY DEF Blocks
    <3> QED BY <3>1, <3>2
  <2>3. Pipeline!NotProvided \in Int
    BY DEF Pipeline!NotProvided
  <2>4. \A k \in DOMAIN missing(i) :
          LET b == Pipeline!Block("result", missing(i)[k].id, Pipeline!NotProvided) IN
          b \in Blocks /\ b.kind = "result" /\ b.id = missing(i)[k].id
    BY <2>2, <2>3, BlockIs
  <2>5. DOMAIN missing(i) = 1..Len(missing(i)) /\ Len(missing(i)) \in Nat
    <3>1. missing(i) \in Seq(Blocks)
      BY <1>4
    <3> QED BY ONLY <3>1
  <2>6. u \in Seq(Blocks) /\ DOMAIN u = DOMAIN missing(i)
    <3>1. u \in [1..Len(missing(i)) -> Blocks]
      BY <2>1, <2>4, <2>5
    <3> QED BY <2>5, <3>1
  <2>7. \A k \in DOMAIN u : u[k].kind = "result" /\ u[k].id = missing(i)[k].id
    BY <2>1, <2>4, <2>6
  <2>8. [role |-> "user", content |-> u] \in Speeches
    BY <2>6 DEF Speeches
  <2>9. reply(i) = [role |-> "user", content |-> u]
    BY <2>1
  <2> HIDE DEF reply
  <2>10. reply(i).role = "user" /\ reply(i).content = u
    BY <2>9
  <2>11. \A p \in DOMAIN missing(i) : missing(i)[p].id \in Pipeline!OfKind(reply(i), "result")
    BY <2>6, <2>7, <2>10, OfKindIs
  <2> QED BY <2>7, <2>8, <2>9, <2>10, <2>11
<1>6. \A i \in DOMAIN c : \/ ss[i] = <<c[i], reply(i)>> /\ c[i].role = "assistant"
                          \/ ss[i] = <<c[i]>> /\ (c[i].role = "assistant" => missing(i) = <<>>)
  BY <1>2
<1>7. DOMAIN ss = 1..Len(c) /\ ss = [i \in 1..Len(c) |-> ss[i]]
  BY <1>2
<1> HIDE DEF ss, s, reply
<1>8. \A i \in DOMAIN c :
        /\ ss[i] \in Seq(Speeches) /\ 1 \in 1..Len(ss[i]) /\ ss[i][1] = c[i]
        /\ \A j \in 1..Len(ss[i]) : j = 1 \/ (j = 2 /\ ss[i][j] = reply(i))
        /\ c[i].role = "assistant" /\ missing(i) # <<>> => 2 \in 1..Len(ss[i]) /\ ss[i][2] = reply(i)
        /\ c[i].role # "assistant" => Len(ss[i]) = 1
  <2> TAKE i \in DOMAIN c
  <2>1. CASE ss[i] = <<c[i], reply(i)>> /\ c[i].role = "assistant"
    <3>1. c[i] \in Speeches /\ reply(i) \in Speeches
      BY <1>2, <1>5
    <3>2. \A x, y \in Speeches :
            /\ <<x, y>> \in Seq(Speeches) /\ Len(<<x, y>>) = 2 /\ <<x, y>>[1] = x /\ <<x, y>>[2] = y
      OBVIOUS
    <3>3. 1 \in 1..2 /\ 2 \in 1..2 /\ \A j \in 1..2 : j = 1 \/ j = 2
      OBVIOUS
    <3>4. ss[i] \in Seq(Speeches) /\ Len(ss[i]) = 2 /\ ss[i][1] = c[i] /\ ss[i][2] = reply(i)
      BY <2>1, <3>1, <3>2
    <3> QED BY <2>1, <3>3, <3>4
  <2>2. CASE ss[i] = <<c[i]>> /\ (c[i].role = "assistant" => missing(i) = <<>>)
    <3>1. c[i] \in Speeches
      BY <1>2
    <3>2. \A x \in Speeches : <<x>> \in Seq(Speeches) /\ Len(<<x>>) = 1 /\ <<x>>[1] = x
      OBVIOUS
    <3>3. ss[i] \in Seq(Speeches) /\ Len(ss[i]) = 1 /\ ss[i][1] = c[i]
      BY <2>2, <3>1, <3>2
    <3> QED BY <2>2, <3>3
  <2> QED BY <1>6, <2>1, <2>2
<1>9. ss \in Seq(Seq(Speeches)) /\ 1..Len(ss) = DOMAIN c
  <2>1. \A i \in 1..Len(c) : ss[i] \in Seq(Speeches)
    BY <1>2, <1>8
  <2>2. ss \in [1..Len(c) -> Seq(Speeches)]
    BY ONLY <1>7, <2>1, Zenon
  <2> QED BY <1>2, <2>2
<1>10. s \in Seq(Speeches) /\ \E at : Joined(at, ss, s)
  BY <1>9, FlatPlaces DEF s
<1>11. PICK at : Joined(at, ss, s)
  BY <1>10
<1>12. /\ \A i \in DOMAIN c : /\ at[i] \in Nat
                              /\ \A j \in 1..Len(ss[i]) : at[i] + j \in DOMAIN s /\ s[at[i] + j] = ss[i][j]
       /\ \A p \in DOMAIN s : \E i \in DOMAIN c : \E j \in 1..Len(ss[i]) : p = at[i] + j /\ s[p] = ss[i][j]
  <2>1. ss \in Seq(Seq(Speeches)) /\ s \in Seq(Speeches) /\ Joined(at, ss, s)
    BY <1>9, <1>10, <1>11
  <2>2. /\ \A i \in 1..Len(ss) : /\ at[i] \in Nat
                                 /\ \A j \in 1..Len(ss[i]) : at[i] + j \in DOMAIN s /\ s[at[i] + j] = ss[i][j]
        /\ \A p \in DOMAIN s : \E i \in 1..Len(ss) : \E j \in 1..Len(ss[i]) : p = at[i] + j /\ s[p] = ss[i][j]
    <3>1. Spread(at, ss, s)
      BY ONLY <2>1, JoinedIs
    <3> QED BY ONLY <3>1 DEF Spread
  <2> QED BY ONLY <1>9, <2>2
<1>13. \A i, j \in DOMAIN c : i < j => at[i] + Len(ss[i]) <= at[j]
  <2> TAKE i, j \in DOMAIN c
  <2> HAVE i < j
  <2>1. i \in 1..Len(ss) /\ j \in 1..Len(ss)
    BY <1>9
  <2>2. at[i + 1] <= at[j] /\ at[i + 1] = at[i] + Len(ss[i])
    BY <1>11, <2>1 DEF Joined
  <2> QED BY ONLY <2>2, Zenon
<1>14. \A p \in DOMAIN s : \E i \in DOMAIN c : \/ p = at[i] + 1 /\ s[p] = c[i]
                                               \/ p = at[i] + 2 /\ s[p] = reply(i) /\ 2 \in 1..Len(ss[i])
  <2> TAKE p \in DOMAIN s
  <2>1. PICK i \in DOMAIN c : \E j \in 1..Len(ss[i]) : p = at[i] + j /\ s[p] = ss[i][j]
    BY <1>12
  <2>2. PICK j \in 1..Len(ss[i]) : p = at[i] + j /\ s[p] = ss[i][j]
    BY <2>1
  <2>3. j = 1 \/ (j = 2 /\ ss[i][j] = reply(i))
    BY <1>8
  <2> QED BY <1>8, <2>2, <2>3
<1>15. Spoken(s)
  BY <1>2, <1>5, <1>10, <1>14 DEF Spoken
<1>16. ASSUME NEW p \in DOMAIN s, NEW id \in Pipeline!OfKind(s[p], "use")
       PROVE  Pending(s, id, p)
  <2>1. PICK q \in DOMAIN s[p].content : s[p].content[q].kind = "use" /\ id = s[p].content[q].id
    BY OfKindIs
  <2>2. PICK i \in DOMAIN c : p = at[i] + 1 /\ s[p] = c[i]
    BY <1>5, <1>14, <2>1
  <2>3. c[i].role = "assistant" /\ at[i] \in Nat /\ i \in Nat
    BY <1>2, <1>12, <2>1, <2>2
  <2>4. CASE id \in found(i)
    <3>1. PICK y \in i + 1 .. until(i) - 1 : id \in Pipeline!OfKind(c[y], "result")
      BY <2>4
    <3>2. /\ until(i) \in i + 1 .. Len(c) + 1 /\ y \in DOMAIN c
          /\ \A z \in i + 1 .. until(i) - 1 : z \in DOMAIN c /\ c[z].role = "user"
      BY <1>3, <3>1
    <3>3. i < y /\ y \in Nat /\ \A z \in Nat : i < z /\ z <= y => z \in i + 1 .. until(i) - 1
      BY <1>2, <2>3, <3>1, <3>2
    <3>4. PICK j : j = at[y] + 1
      OBVIOUS
    <3>5. j \in DOMAIN s /\ s[j] = c[y] /\ at[y] \in Nat
      BY <1>8, <1>12, <3>2, <3>4
    <3>6. j > p
      <4>1. at[i] + Len(ss[i]) <= at[y] /\ 1 \in 1..Len(ss[i])
        BY <1>8, <1>13, <3>2, <3>3
      <4>2. Len(ss[i]) \in Nat
        BY <1>8
      <4> QED BY ONLY <2>2, <2>3, <3>4, <3>5, <4>1, <4>2
    <3>7. \A x \in p + 1 .. j : s[x].role = "user"
      <4> TAKE x \in p + 1 .. j
      <4>1. x \in DOMAIN s /\ x > p /\ x <= j
        <5>1. DOMAIN s = 1..Len(s) /\ Len(s) \in Nat
          BY <1>10
        <5>2. x \in p + 1 .. j
          OBVIOUS
        <5>3. p \in Nat /\ j \in Nat
          BY ONLY <2>2, <2>3, <3>4, <3>5
        <5> QED BY ONLY <3>5, <5>1, <5>2, <5>3
      <4>2. PICK z \in DOMAIN c : \/ x = at[z] + 1 /\ s[x] = c[z]
                                  \/ x = at[z] + 2 /\ s[x] = reply(z) /\ 2 \in 1..Len(ss[z])
        BY <1>14, <4>1
      <4>3. CASE x = at[z] + 2 /\ s[x] = reply(z) /\ 2 \in 1..Len(ss[z])
        BY <1>5, <4>3
      <4>4. CASE x = at[z] + 1 /\ s[x] = c[z]
        <5>1. at[z] \in Nat /\ z \in Nat
          BY <1>2, <1>12
        <5>2. z # i
          BY ONLY <2>2, <4>1, <4>4, <2>3
        <5>3. ~ (z < i)
          <6> SUFFICES ASSUME z < i PROVE FALSE
            OBVIOUS
          <6>1. at[z] + Len(ss[z]) <= at[i] /\ Len(ss[z]) \in Nat
            BY <1>8, <1>13
          <6> QED BY ONLY <2>2, <2>3, <4>1, <4>4, <5>1, <6>1
        <5>4. ~ (y < z)
          <6> SUFFICES ASSUME y < z PROVE FALSE
            OBVIOUS
          <6>1. at[y] + Len(ss[y]) <= at[z] /\ Len(ss[y]) \in Nat /\ 1 \in 1..Len(ss[y])
            BY <1>8, <1>13, <3>2
          <6> QED BY ONLY <3>4, <3>5, <4>1, <4>4, <5>1, <6>1
        <5>5. z \in i + 1 .. until(i) - 1
          <6>1. i < z /\ z <= y
            BY ONLY <2>3, <3>3, <5>1, <5>2, <5>3, <5>4
          <6> QED BY <3>3, <5>1, <6>1
        <5> QED BY <3>2, <4>4, <5>5
      <4> QED BY <4>2, <4>3, <4>4
    <3> QED BY <3>1, <3>5, <3>6, <3>7 DEF Pending
  <2>5. CASE id \notin found(i)
    <3>1. q \in P(i)
      BY <2>1, <2>2, <2>5 DEF P
    <3>2. PICK k \in DOMAIN missing(i) : missing(i)[k] = c[i].content[q]
      BY <1>4, <3>1
    <3>3. missing(i) # <<>>
      <4>1. DOMAIN <<>> = {}
        OBVIOUS
      <4> QED BY <3>2, <4>1
    <3>4. id \in Pipeline!OfKind(reply(i), "result")
      BY <1>5, <2>1, <2>2, <3>2
    <3>5. 2 \in 1..Len(ss[i]) /\ ss[i][2] = reply(i)
      BY <1>8, <2>3, <3>3
    <3>6. at[i] + 2 \in DOMAIN s /\ s[at[i] + 2] = reply(i)
      BY <1>12, <3>5
    <3>7. at[i] + 2 > p /\ \A x \in p + 1 .. at[i] + 2 : x = at[i] + 2
      BY ONLY <2>2, <2>3
    <3>8. reply(i).role = "user"
      BY <1>5
    <3> QED BY <3>4, <3>6, <3>7, <3>8 DEF Pending
  <2> QED BY <2>4, <2>5
<1>17. Answers(s)
  BY <1>16 DEF Answers
<1> QED BY <1>1, <1>15, <1>17

\* The third step, message by message.
LEMMA PendingStep ==
  ASSUME NEW c \in Seq(Speeches), NEW id, NEW n \in DOMAIN c, Pending(c, id, n - 1)
  PROVE  /\ c[n].role = "user"
         /\ id \in Pipeline!OfKind(c[n], "result") \/ Pending(c, id, n)
<1>1. n \in Nat /\ n - 1 + 1 = n
  OBVIOUS
<1>2. PICK j \in DOMAIN c : /\ j > n - 1 /\ id \in Pipeline!OfKind(c[j], "result")
                            /\ \A x \in (n - 1) + 1 .. j : c[x].role = "user"
  BY DEF Pending
<1>3. j \in Nat
  OBVIOUS
<1>4. n \in (n - 1) + 1 .. j
  BY ONLY <1>1, <1>2, <1>3
<1>5. CASE j = n
  BY <1>2, <1>4, <1>5
<1>6. CASE j # n
  <2>1. j > n /\ \A x \in n + 1 .. j : x \in (n - 1) + 1 .. j
    BY ONLY <1>1, <1>2, <1>3, <1>6
  <2> QED BY <1>2, <1>4, <2>1 DEF Pending
<1> QED BY <1>5, <1>6

\* The first n messages, those of one speaker made one: a call is answered in
\* the next message, or its result is still to come.
Merges(c, n, acc) ==
  /\ Spoken(acc)
  /\ n = 0 => acc = <<>>
  /\ n # 0 => acc # <<>> /\ acc[Len(acc)].role = c[n].role
  /\ \A k \in DOMAIN acc : k < Len(acc) => acc[k].role # acc[k + 1].role
  /\ \A k \in DOMAIN acc : \A id \in Pipeline!OfKind(acc[k], "use") :
       IF k = Len(acc) THEN Pending(c, id, n)
       ELSE \/ id \in Pipeline!OfKind(acc[k + 1], "result")
            \/ k + 1 = Len(acc) /\ acc[k + 1].role = "user" /\ Pending(c, id, n)

LEMMA MergedWith ==
  ASSUME NEW acc \in Seq(Speeches), acc # <<>>, NEW m \in Speeches
  PROVE  LET s == [acc EXCEPT ![Len(acc)].content = @ \o m.content] IN
         /\ s \in Seq(Speeches) /\ Len(s) = Len(acc) /\ DOMAIN s = DOMAIN acc /\ Len(acc) \in DOMAIN acc
         /\ \A k \in DOMAIN acc : k # Len(acc) => s[k] = acc[k]
         /\ s[Len(acc)].role = acc[Len(acc)].role
         /\ \A kind, id : id \in Pipeline!OfKind(s[Len(acc)], kind) <=>
                            \/ id \in Pipeline!OfKind(acc[Len(acc)], kind)
                            \/ id \in Pipeline!OfKind(m, kind)
<1>1. PICK l : l = Len(acc)
  OBVIOUS
<1>2. l \in Nat /\ l \in DOMAIN acc /\ DOMAIN acc = 1..l
  BY <1>1
<1>3. PICK x, y : x = acc[l].content /\ y = m.content
  OBVIOUS
<1>4. acc[l] \in Speeches
  BY <1>2
<1>5. x \in Seq(Blocks) /\ y \in Seq(Blocks)
  BY <1>3, <1>4 DEF Speeches
<1>6. PICK t : t = [acc[l] EXCEPT !.content = x \o y]
  OBVIOUS
<1>7. /\ x \o y \in Seq(Blocks) /\ Len(x \o y) = Len(x) + Len(y) /\ Len(x) \in Nat /\ Len(y) \in Nat
      /\ \A j \in 1..Len(x) : (x \o y)[j] = x[j]
      /\ \A j \in 1..Len(y) : (x \o y)[Len(x) + j] = y[j]
  BY ONLY <1>5, JoinPlaces
<1>8. t \in Speeches /\ t.role = acc[l].role /\ t.content = x \o y
  BY <1>4, <1>6, <1>7 DEF Speeches
<1>9. PICK s : s = [acc EXCEPT ![Len(acc)].content = @ \o m.content]
  OBVIOUS
<1>10. s = [acc EXCEPT ![l] = t]
  BY <1>1, <1>3, <1>6, <1>9
<1>11. /\ s \in Seq(Speeches) /\ Len(s) = l /\ DOMAIN s = DOMAIN acc /\ s[l] = t
       /\ \A k \in DOMAIN acc : k # l => s[k] = acc[k]
  BY <1>1, <1>2, <1>8, <1>10
<1>12. ASSUME NEW kind, NEW id
       PROVE  id \in Pipeline!OfKind(t, kind) <=>
                id \in Pipeline!OfKind(acc[l], kind) \/ id \in Pipeline!OfKind(m, kind)
  <2>1. /\ DOMAIN x = 1..Len(x) /\ DOMAIN y = 1..Len(y) /\ DOMAIN t.content = 1..(Len(x) + Len(y))
    <3>1. DOMAIN x = 1..Len(x) /\ DOMAIN y = 1..Len(y)
      BY ONLY <1>5
    <3>2. DOMAIN t.content = 1..Len(x \o y)
      BY ONLY <1>7, <1>8
    <3> QED BY ONLY <1>7, <3>1, <3>2
  <2>2. \A k \in 1..(Len(x) + Len(y)) : k \in 1..Len(x) \/ (k - Len(x) \in 1..Len(y) /\ k = Len(x) + (k - Len(x)))
    BY ONLY <1>7
  <2>3. \A k \in DOMAIN t.content : \/ k \in DOMAIN x /\ t.content[k] = x[k]
                                    \/ k - Len(x) \in DOMAIN y /\ t.content[k] = y[k - Len(x)]
    BY ONLY <1>7, <1>8, <2>1, <2>2
  <2>4. \A k \in DOMAIN x : k \in DOMAIN t.content /\ t.content[k] = x[k]
    BY ONLY <1>7, <1>8, <2>1, InFirst
  <2>5. \A k \in DOMAIN y : Len(x) + k \in DOMAIN t.content /\ t.content[Len(x) + k] = y[k]
    BY ONLY <1>7, <1>8, <2>1, InSecond
  <2>6. id \in Pipeline!OfKind(t, kind) <=> \E k \in DOMAIN t.content : t.content[k].kind = kind /\ id = t.content[k].id
    BY OfKindIs
  <2>7. id \in Pipeline!OfKind(acc[l], kind) <=> \E k \in DOMAIN x : x[k].kind = kind /\ id = x[k].id
    BY <1>3, OfKindIs
  <2>8. id \in Pipeline!OfKind(m, kind) <=> \E k \in DOMAIN y : y[k].kind = kind /\ id = y[k].id
    BY <1>3, OfKindIs
  <2> QED BY ONLY <2>3, <2>4, <2>5, <2>6, <2>7, <2>8
<1> QED BY <1>1, <1>2, <1>8, <1>9, <1>11, <1>12

LEMMA MergeStep ==
  ASSUME NEW c, Spoken(c), Answers(c), NEW n \in DOMAIN c, NEW acc, Merges(c, n - 1, acc)
  PROVE  Merges(c, n, IF acc # <<>> /\ Pipeline!Last(acc).role = c[n].role
                      THEN [acc EXCEPT ![Len(acc)].content = @ \o c[n].content]
                      ELSE Append(acc, c[n]))
<1>1. /\ c \in Seq(Speeches) /\ n \in Nat /\ n # 0 /\ c[n] \in Speeches /\ c[n].role \in {"user", "assistant"}
      /\ c[n].role = "user" => \A id : id \notin Pipeline!OfKind(c[n], "use")
      /\ \A id : id \in Pipeline!OfKind(c[n], "use") => Pending(c, id, n)
  <2>1. c \in Seq(Speeches) /\ n \in Nat /\ n # 0 /\ c[n] \in Speeches
    BY DEF Spoken
  <2>2. c[n].role \in {"user", "assistant"}
    BY <2>1 DEF Speeches
  <2>3. c[n].role = "user" => \A id : id \notin Pipeline!OfKind(c[n], "use")
    BY OfKindIs DEF Spoken
  <2> QED BY <2>1, <2>2, <2>3 DEF Answers
<1>2. /\ acc \in Seq(Speeches) /\ DOMAIN acc = 1..Len(acc) /\ Len(acc) \in Nat
      /\ \A k \in DOMAIN acc : acc[k].role \in {"user", "assistant"}
      /\ \A k \in DOMAIN acc : acc[k].role = "user" => \A id : id \notin Pipeline!OfKind(acc[k], "use")
      /\ \A k \in DOMAIN acc : k < Len(acc) => acc[k].role # acc[k + 1].role
  <2>1. acc \in Seq(Speeches) /\ DOMAIN acc = 1..Len(acc) /\ Len(acc) \in Nat
    BY DEF Merges, Spoken
  <2>2. \A k \in DOMAIN acc : acc[k] \in Speeches
    BY <2>1
  <2>3. \A m \in Speeches : m.role \in {"user", "assistant"}
    BY DEF Speeches
  <2>4. \A k \in DOMAIN acc : acc[k].role = "user" => \A id : id \notin Pipeline!OfKind(acc[k], "use")
    BY OfKindIs DEF Merges, Spoken
  <2> QED BY <2>1, <2>2, <2>3, <2>4 DEF Merges
<1>3. \A k \in DOMAIN acc : \A id \in Pipeline!OfKind(acc[k], "use") :
        IF k = Len(acc) THEN Pending(c, id, n - 1)
        ELSE \/ id \in Pipeline!OfKind(acc[k + 1], "result")
             \/ k + 1 = Len(acc) /\ acc[k + 1].role = "user" /\ Pending(c, id, n - 1)
  BY DEF Merges
<1>4. \A id : Pending(c, id, n - 1) =>
        c[n].role = "user" /\ (id \in Pipeline!OfKind(c[n], "result") \/ Pending(c, id, n))
  BY <1>1, PendingStep
<1>5. CASE acc # <<>> /\ Pipeline!Last(acc).role = c[n].role
  <2>1. PICK l : l = Len(acc)
    OBVIOUS
  <2>2. PICK s : s = [acc EXCEPT ![Len(acc)].content = @ \o c[n].content]
    OBVIOUS
  <2>3. /\ s \in Seq(Speeches) /\ Len(s) = l /\ DOMAIN s = DOMAIN acc /\ l \in DOMAIN acc
        /\ \A k \in DOMAIN acc : k # l => s[k] = acc[k]
        /\ s[l].role = acc[l].role /\ acc[l].role = c[n].role
        /\ \A kind, id : id \in Pipeline!OfKind(s[l], kind) <=>
                           id \in Pipeline!OfKind(acc[l], kind) \/ id \in Pipeline!OfKind(c[n], kind)
    BY <1>1, <1>2, <1>5, <2>1, <2>2, MergedWith DEF Pipeline!Last
  <2>4. l \in Nat /\ DOMAIN acc = 1..l /\ \A k \in DOMAIN acc : k < l => k + 1 \in DOMAIN acc /\ k # l
    BY <1>2, <2>1
  <2>5. \A k \in DOMAIN s : s[k].role = acc[k].role
    BY <2>3
  <2>6. \A k \in DOMAIN s : s[k].role = "user" => \A id : id \notin Pipeline!OfKind(s[k], "use")
    BY <1>1, <1>2, <2>3
  <2>7. Spoken(s)
    BY <2>3, <2>6, OfKindIs DEF Spoken
  <2>8. \A k \in DOMAIN s : k < Len(s) => s[k].role # s[k + 1].role
    BY <1>2, <2>1, <2>3, <2>4, <2>5
  <2>9. ASSUME NEW k \in DOMAIN s, NEW id \in Pipeline!OfKind(s[k], "use")
        PROVE  IF k = Len(s) THEN Pending(c, id, n)
               ELSE \/ id \in Pipeline!OfKind(s[k + 1], "result")
                    \/ k + 1 = Len(s) /\ s[k + 1].role = "user" /\ Pending(c, id, n)
    <3>1. CASE k = l
      <4>1. id \in Pipeline!OfKind(acc[l], "use") \/ id \in Pipeline!OfKind(c[n], "use")
        BY <2>3, <2>9, <3>1
      <4>2. CASE id \in Pipeline!OfKind(c[n], "use")
        BY <1>1, <2>3, <3>1, <4>2
      <4>3. CASE id \in Pipeline!OfKind(acc[l], "use")
        <5>1. Pending(c, id, n - 1)
          BY <1>3, <2>1, <2>3, <4>3
        <5>2. c[n].role = "user"
          BY <1>4, <5>1
        <5>3. acc[l].role = "user"
          BY <2>3, <5>2
        <5> QED BY <1>2, <2>3, <4>3, <5>3
      <4> QED BY <4>1, <4>2, <4>3
    <3>2. CASE k # l
      <4>1. s[k] = acc[k] /\ k \in DOMAIN acc /\ k < l /\ k + 1 \in DOMAIN acc
        BY <2>3, <2>4, <3>2
      <4>2. \/ id \in Pipeline!OfKind(acc[k + 1], "result")
            \/ k + 1 = l /\ acc[k + 1].role = "user" /\ Pending(c, id, n - 1)
        BY <1>3, <2>1, <2>9, <3>2, <4>1
      <4>3. id \in Pipeline!OfKind(acc[k + 1], "result") => id \in Pipeline!OfKind(s[k + 1], "result")
        <5>1. CASE k + 1 = l
          BY <2>3, <5>1
        <5>2. CASE k + 1 # l
          BY <2>3, <4>1, <5>2
        <5> QED BY <5>1, <5>2
      <4>4. ASSUME k + 1 = l, acc[k + 1].role = "user", Pending(c, id, n - 1)
            PROVE  \/ id \in Pipeline!OfKind(s[k + 1], "result")
                   \/ k + 1 = Len(s) /\ s[k + 1].role = "user" /\ Pending(c, id, n)
        BY <1>4, <2>3, <4>4
      <4> QED BY <2>3, <3>2, <4>2, <4>3, <4>4
    <3> QED BY <3>1, <3>2
  <2>10. s # <<>> /\ s[Len(s)].role = c[n].role
    <3>1. DOMAIN <<>> = {}
      OBVIOUS
    <3> QED BY <2>3, <3>1
  <2>11. Merges(c, n, s)
    BY <1>1, <2>7, <2>8, <2>9, <2>10 DEF Merges
  <2> QED BY <1>5, <2>2, <2>11
<1>6. CASE ~ (acc # <<>> /\ Pipeline!Last(acc).role = c[n].role)
  <2>1. PICK l : l = Len(acc)
    OBVIOUS
  <2>2. PICK s : s = Append(acc, c[n])
    OBVIOUS
  <2>3. /\ s \in Seq(Speeches) /\ Len(s) = l + 1 /\ DOMAIN s = 1..(l + 1) /\ l \in Nat /\ DOMAIN acc = 1..l
        /\ \A k \in 1..l : s[k] = acc[k]
        /\ s[l + 1] = c[n]
    BY <1>1, <1>2, <2>1, <2>2
  <2>4. l # 0 => acc[l].role # c[n].role
    <3>1. l # 0 => acc # <<>>
      BY <2>1
    <3> QED BY <1>6, <2>1, <3>1 DEF Pipeline!Last
  <2>5. \A k \in 1..(l + 1) : k \in 1..l \/ k = l + 1
    BY <2>3
  <2>6. \A k \in DOMAIN s : s[k].role = "user" => \A id : id \notin Pipeline!OfKind(s[k], "use")
    BY <1>1, <1>2, <2>3, <2>5
  <2>7. Spoken(s)
    <3>1. \A k \in DOMAIN s : s[k].role = "user" => \A q \in DOMAIN s[k].content : s[k].content[q].kind # "use"
      <4> TAKE k \in DOMAIN s
      <4> HAVE s[k].role = "user"
      <4> TAKE q \in DOMAIN s[k].content
      <4>1. s[k].content[q].id \notin Pipeline!OfKind(s[k], "use")
        BY <2>6
      <4> QED BY ONLY <4>1, OfKindIs
    <3>2. s \in Seq(Speeches)
      BY <2>3
    <3> QED BY ONLY <3>1, <3>2 DEF Spoken
  <2>12. \A k \in 1..l : k # l => k + 1 \in 1..l /\ k < l
    BY <2>3
  <2>8. \A k \in DOMAIN s : k < Len(s) => s[k].role # s[k + 1].role
    <3> TAKE k \in DOMAIN s
    <3> HAVE k < Len(s)
    <3>1. k \in 1..l
      BY <2>3
    <3>2. CASE k = l
      <4>1. l # 0
        BY <3>1, <3>2
      <4> QED BY <2>3, <2>4, <3>1, <3>2, <4>1
    <3>3. CASE k # l
      BY <1>2, <2>1, <2>3, <2>12, <3>1, <3>3
    <3> QED BY <3>2, <3>3
  <2>9. ASSUME NEW k \in DOMAIN s, NEW id \in Pipeline!OfKind(s[k], "use")
        PROVE  IF k = Len(s) THEN Pending(c, id, n)
               ELSE \/ id \in Pipeline!OfKind(s[k + 1], "result")
                    \/ k + 1 = Len(s) /\ s[k + 1].role = "user" /\ Pending(c, id, n)
    <3>1. CASE k = l + 1
      BY <1>1, <2>3, <2>9, <3>1
    <3>2. CASE k \in 1..l
      <4>1. s[k] = acc[k] /\ k \in DOMAIN acc /\ k # Len(s)
        BY <2>3, <3>2
      <4>2. CASE k = l
        <5>1. Pending(c, id, n - 1)
          BY <1>3, <2>1, <2>9, <4>1, <4>2
        <5>2. c[n].role = "user" /\ (id \in Pipeline!OfKind(c[n], "result") \/ Pending(c, id, n))
          BY <1>4, <5>1
        <5> QED BY <2>3, <4>1, <4>2, <5>2
      <4>3. CASE k # l
        <5>1. \/ id \in Pipeline!OfKind(acc[k + 1], "result")
              \/ k + 1 = l /\ acc[k + 1].role = "user" /\ Pending(c, id, n - 1)
          BY <1>3, <2>1, <2>9, <4>1, <4>3
        <5>2. ASSUME k + 1 = l, acc[k + 1].role = "user", Pending(c, id, n - 1)
              PROVE  FALSE
          <6>1. c[n].role = "user"
            BY <1>4, <5>2
          <6>2. l # 0
            BY <3>2
          <6> QED BY <2>4, <5>2, <6>1, <6>2
        <5>3. s[k + 1] = acc[k + 1]
          BY <2>3, <2>12, <3>2, <4>3
        <5> QED BY <4>1, <5>1, <5>2, <5>3
      <4> QED BY <4>2, <4>3
    <3> QED BY <2>3, <2>5, <3>1, <3>2
  <2>10. s # <<>> /\ s[Len(s)].role = c[n].role
    <3>1. Len(<<>>) = 0 /\ l + 1 # 0
      BY <2>3
    <3> QED BY <2>3, <3>1
  <2>11. Merges(c, n, s)
    BY <1>1, <2>7, <2>8, <2>9, <2>10 DEF Merges
  <2> QED BY <1>6, <2>2, <2>11
<1> QED BY <1>5, <1>6

\* In messages of alternating speakers, the calls of one are answered in the next.
Replied(c) ==
  /\ Spoken(c)
  /\ \A k \in DOMAIN c : k < Len(c) => c[k].role # c[k + 1].role
  /\ \A k \in DOMAIN c : \A id \in Pipeline!OfKind(c[k], "use") :
       k < Len(c) /\ id \in Pipeline!OfKind(c[k + 1], "result")

\* At the end there is nothing still to come.
LEMMA AllMerged ==
  ASSUME NEW c, Spoken(c), NEW acc, Merges(c, Len(c), acc)
  PROVE  Replied(acc)
<1>1. c \in Seq(Speeches) /\ DOMAIN c = 1..Len(c) /\ Len(c) \in Nat
  BY DEF Spoken
<1>2. \A id : ~ Pending(c, id, Len(c))
  BY <1>1 DEF Pending
<1>3. acc \in Seq(Speeches) /\ DOMAIN acc = 1..Len(acc) /\ Len(acc) \in Nat
  BY DEF Merges, Spoken
<1>4. Spoken(acc) /\ \A k \in DOMAIN acc : k < Len(acc) => acc[k].role # acc[k + 1].role
  BY DEF Merges
<1>5. \A k \in DOMAIN acc : \A id \in Pipeline!OfKind(acc[k], "use") :
        k # Len(acc) /\ id \in Pipeline!OfKind(acc[k + 1], "result")
  BY <1>2 DEF Merges
<1>6. \A k \in DOMAIN acc : k # Len(acc) => k < Len(acc)
  BY <1>3
<1> QED BY <1>4, <1>5, <1>6 DEF Replied

\* The third step: speakers alternate, and each call has its result in the
\* message behind it.
LEMMA MergedIs ==
  ASSUME NEW c, Spoken(c), Answers(c)
  PROVE  Replied(Pipeline!Merged(c))
<1> DEFINE n == Len(c)
           add(acc, k) == IF acc # <<>> /\ Pipeline!Last(acc).role = c[k].role
                          THEN [acc EXCEPT ![Len(acc)].content = @ \o c[k].content]
                          ELSE Append(acc, c[k])
           Merging(f) == f = [k \in 0..n |-> IF k = 0 THEN <<>> ELSE add(f[k - 1], k)]
           S == Seq(Speeches)
           step == [k \in 1..n |-> [s \in S |-> add(s, k)]]
<1>1. Pipeline!Merged(c) = (CHOOSE f : Merging(f))[n]
  BY DEF Pipeline!Merged
<1>2. c \in Seq(Speeches) /\ DOMAIN c = 1..n /\ n \in Nat /\ \A k \in 1..n : c[k] \in Speeches
  <2>1. c \in Seq(Speeches)
    BY DEF Spoken
  <2> QED BY <2>1
<1> HIDE DEF n
<1>3. step \in [1..n -> [S -> S]]
  <2> SUFFICES ASSUME NEW s \in S, NEW k \in 1..n
               PROVE  add(s, k) \in S
    OBVIOUS
  <2>1. c[k] \in Speeches /\ s \in Seq(Speeches)
    BY <1>2
  <2>2. Append(s, c[k]) \in S
    BY <2>1
  <2>3. s # <<>> => [s EXCEPT ![Len(s)].content = @ \o c[k].content] \in S
    BY <2>1, MergedWith
  <2> QED BY <2>2, <2>3
<1>4. <<>> \in S
  OBVIOUS
<1>5. \E f : Merging(f)
  <2>1. PICK f : Steps(f, S, n, <<>>, step)
    <3> HIDE DEF S, step
    <3> QED BY ONLY <1>2, <1>3, <1>4, RecursionExists
  <2>2. f \in [0..n -> S] /\ f[0] = <<>> /\ \A k \in 1..n : f[k] = step[k][f[k - 1]]
    <3> HIDE DEF S, step
    <3> QED BY <2>1 DEF Steps
  <2>3. \A k \in 0..n : f[k] = IF k = 0 THEN <<>> ELSE add(f[k - 1], k)
    <3> TAKE k \in 0..n
    <3>1. CASE k = 0
      BY <2>2, <3>1
    <3>2. CASE k # 0
      <4>1. k \in 1..n /\ k - 1 \in 0..n
        BY <1>2, <3>2
      <4>2. f[k - 1] \in S /\ f[k] = step[k][f[k - 1]]
        <5> HIDE DEF S, step
        <5> QED BY <2>2, <4>1
      <4> HIDE DEF S, add
      <4> QED BY <3>2, <4>1, <4>2
    <3> QED BY <3>1, <3>2
  <2>4. f = [k \in 0..n |-> f[k]]
    <3> HIDE DEF S
    <3> QED BY <2>2
  <2> HIDE DEF add
  <2>5. Merging(f)
    BY <2>3, <2>4
  <2> QED BY <2>5
<1> DEFINE merged == CHOOSE f : Merging(f)
<1>6. Merging(merged)
  <2> HIDE DEF Merging
  <2> QED BY <1>5
<1> HIDE DEF merged
<1>7. \A k \in 0..n : merged[k] = IF k = 0 THEN <<>> ELSE add(merged[k - 1], k)
  <2> HIDE DEF add
  <2> QED BY <1>6
<1> HIDE DEF Merging
<1> DEFINE U == {k \in 0..n : ~ Merges(c, k, merged[k])}
<1>8. U = {}
  <2> SUFFICES ASSUME U # {} PROVE FALSE
    OBVIOUS
  <2>1. PICK k \in U : \A j \in U : k <= j
    <3> U \in SUBSET Nat
      OBVIOUS
    <3> HIDE DEF U
    <3> QED BY LeastExists
  <2>2. k \in 0..n /\ ~ Merges(c, k, merged[k])
    BY <2>1
  <2>3. CASE k = 0
    <3>1. merged[k] = <<>>
      <4> HIDE DEF add
      <4> QED BY <1>7, <2>2, <2>3
    <3>2. DOMAIN <<>> = {} /\ <<>> \in Seq(Speeches)
      OBVIOUS
    <3>3. Merges(c, k, <<>>)
      BY <2>3, <3>2 DEF Merges, Spoken
    <3> QED BY <2>2, <3>1, <3>3
  <2>4. CASE k # 0
    <3>1. k \in 1..n /\ k - 1 \in 0..n /\ ~ (k <= k - 1)
      BY <1>2, <2>2, <2>4
    <3>2. Merges(c, k - 1, merged[k - 1])
      <4>1. k - 1 \notin U
        <5> HIDE DEF U
        <5> QED BY <2>1, <3>1
      <4> QED BY <3>1, <4>1
    <3>3. Merges(c, k, add(merged[k - 1], k))
      <4>1. k \in DOMAIN c
        BY <1>2, <3>1
      <4>2. PICK acc : acc = merged[k - 1]
        OBVIOUS
      <4>3. Merges(c, k - 1, acc)
        BY <3>2, <4>2
      <4>4. Merges(c, k, add(acc, k))
        BY <4>1, <4>3, MergeStep
      <4> QED BY ONLY <4>2, <4>4
    <3>4. merged[k] = add(merged[k - 1], k)
      <4> HIDE DEF add
      <4> QED BY <1>7, <2>2, <2>4
    <3> QED BY ONLY <2>2, <3>3, <3>4
  <2> QED BY <2>3, <2>4
<1>9. Merges(c, n, merged[n])
  <2>1. n \in 0..n
    BY <1>2
  <2> HIDE DEF U
  <2>2. n \notin U
    BY <1>8
  <2> QED BY <2>1, <2>2 DEF U
<1>10. Pipeline!Merged(c) = merged[n]
  BY <1>1 DEF merged
<1>11. Merges(c, Len(c), merged[n])
  BY <1>9 DEF n
<1> QED BY <1>10, <1>11, AllMerged

\* The request to Anthropic.
LEMMA AnthropicReplied ==
  ASSUME NEW ms, Sound(ms)
  PROVE  LET s == Pipeline!ForAnthropic(ms) IN
         \A i \in DOMAIN s :
           /\ s[i].role = IF i % 2 = 1 THEN "user" ELSE "assistant"
           /\ Pipeline!OfKind(s[i], "use") # {} =>
                i < Len(s) /\ Pipeline!OfKind(s[i], "use") \subseteq Pipeline!OfKind(s[i + 1], "result")
<1>1. PICK c : c = Pipeline!Answered(Pipeline!Blocks(ms))
  OBVIOUS
<1>2. Spoken(c) /\ Answers(c)
  BY <1>1, BlocksIs, AnsweredIs
<1>3. PICK merged : merged = Pipeline!Merged(c)
  OBVIOUS
<1>4. Replied(merged)
  BY <1>2, <1>3, MergedIs
<1>5. PICK first : first = [role |-> "user", content |-> <<Pipeline!Block("text", Pipeline!NoId, Pipeline!Said)>>]
  OBVIOUS
<1>6. PICK s : s = Pipeline!ForAnthropic(ms)
  OBVIOUS
<1>7. s = IF merged # <<>> /\ Head(merged).role # "user" THEN <<first>> \o merged ELSE merged
  BY <1>1, <1>3, <1>5, <1>6 DEF Pipeline!ForAnthropic
<1>8. /\ merged \in Seq(Speeches) /\ DOMAIN merged = 1..Len(merged) /\ Len(merged) \in Nat
      /\ \A k \in DOMAIN merged : merged[k].role \in {"user", "assistant"}
  <2>1. merged \in Seq(Speeches) /\ DOMAIN merged = 1..Len(merged) /\ Len(merged) \in Nat
    BY <1>4 DEF Replied, Spoken
  <2>2. \A m \in Speeches : m.role \in {"user", "assistant"}
    BY DEF Speeches
  <2> QED BY <2>1, <2>2
<1>9. first \in Speeches /\ first.role = "user" /\ \A id : id \notin Pipeline!OfKind(first, "use")
  <2>1. PICK b : b = Pipeline!Block("text", Pipeline!NoId, Pipeline!Said)
    OBVIOUS
  <2>2. b \in Blocks /\ b.kind = "text"
    <3>1. Pipeline!NoId \in Seq(Nat) /\ Pipeline!Said \in Int
      BY DEF Pipeline!NoId, Pipeline!Said
    <3> QED BY <2>1, <3>1, BlockIs
  <2>3. <<b>> \in Seq(Blocks) /\ \A k \in DOMAIN <<b>> : <<b>>[k] = b
    BY <2>2
  <2>4. first = [role |-> "user", content |-> <<b>>]
    BY <1>5, <2>1
  <2>5. first.role = "user" /\ first.content = <<b>>
    BY <2>4
  <2>6. first \in Speeches
    BY <2>3, <2>4 DEF Speeches
  <2>7. \A k \in DOMAIN first.content : first.content[k].kind # "use"
    BY <2>2, <2>3, <2>5
  <2> QED BY <2>5, <2>6, <2>7, OfKindIs
\* Alternating speakers, the user first, and answers.
<1> DEFINE Fine(t) ==
      /\ t \in Seq(Speeches) /\ Len(t) \in Nat /\ DOMAIN t = 1..Len(t)
      /\ \A k \in DOMAIN t : t[k].role \in {"user", "assistant"}
      /\ t # <<>> => t[1].role = "user"
      /\ \A k \in DOMAIN t : k < Len(t) => t[k].role # t[k + 1].role
      /\ \A k \in DOMAIN t : \A id \in Pipeline!OfKind(t[k], "use") :
           k < Len(t) /\ id \in Pipeline!OfKind(t[k + 1], "result")
<1>10. Fine(s)
  <2>1. CASE merged # <<>> /\ Head(merged).role # "user"
    <3>1. s = <<first>> \o merged
      BY <1>7, <2>1
    <3>2. <<first>> \in Seq(Speeches) /\ Len(<<first>>) = 1 /\ <<first>>[1] = first
      BY <1>9
    <3>3. PICK l : l = Len(merged)
      OBVIOUS
    <3>4. /\ s \in Seq(Speeches) /\ Len(s) = 1 + l /\ s[1] = first /\ l \in Nat
          /\ \A j \in 1..l : s[1 + j] = merged[j]
      <4>1. PICK f : f = <<first>>
        OBVIOUS
      <4>2. f \in Seq(Speeches) /\ merged \in Seq(Speeches)
        BY <1>8, <3>2, <4>1
      <4>3. /\ f \o merged \in Seq(Speeches) /\ Len(f \o merged) = Len(f) + Len(merged) /\ Len(f) \in Nat
            /\ Len(merged) \in Nat
            /\ \A j \in 1..Len(f) : (f \o merged)[j] = f[j]
            /\ \A j \in 1..Len(merged) : (f \o merged)[Len(f) + j] = merged[j]
        BY ONLY <4>2, JoinPlaces
      <4>4. Len(f) = 1 /\ f[1] = first /\ 1 \in 1..1 /\ s = f \o merged
        BY <3>1, <3>2, <4>1
      <4> QED BY ONLY <3>3, <4>3, <4>4
    <3>5. \A k \in 1..(1 + l) : k = 1 \/ (k - 1 \in 1..l /\ k = 1 + (k - 1))
      BY ONLY <3>4
    <3>6. DOMAIN s = 1..(1 + l)
      BY <3>4
    <3>7. \A k \in DOMAIN s : k = 1 \/ (k - 1 \in DOMAIN merged /\ s[k] = merged[k - 1])
      BY ONLY <1>8, <3>3, <3>4, <3>5, <3>6
    <3>8. \A k \in DOMAIN s : s[k].role \in {"user", "assistant"}
      BY ONLY <1>8, <1>9, <3>4, <3>7
    <3>9. l # 0 /\ 1 \in 1..l /\ merged[1].role # "user" /\ s[2] = merged[1]
      <4>1. l # 0
        BY <1>8, <2>1, <3>3
      <4>2. 1 \in 1..l /\ 1 + 1 = 2
        BY <3>4, <4>1
      <4> QED BY <1>8, <2>1, <3>4, <4>1, <4>2
    <3>10. \A k \in DOMAIN s : k < Len(s) => s[k].role # s[k + 1].role
      <4> TAKE k \in DOMAIN s
      <4> HAVE k < Len(s)
      <4>1. CASE k = 1
        BY <1>9, <3>4, <3>9, <4>1
      <4>2. CASE k # 1
        <5>1. PICK j : j = k - 1
          OBVIOUS
        <5>2. j \in 1..l /\ j < l /\ k = 1 + j /\ j + 1 \in 1..l /\ k + 1 = 1 + (j + 1)
          BY ONLY <3>4, <3>6, <4>2, <5>1, k \in DOMAIN s, k < Len(s)
        <5>3. s[k] = merged[j] /\ s[k + 1] = merged[j + 1]
          BY ONLY <3>4, <5>2
        <5>4. merged[j].role # merged[j + 1].role
          BY <1>4, <1>8, <3>3, <5>2 DEF Replied
        <5> QED BY ONLY <5>3, <5>4
      <4> QED BY <4>1, <4>2
    <3>11. \A k \in DOMAIN s : \A id \in Pipeline!OfKind(s[k], "use") :
             k < Len(s) /\ id \in Pipeline!OfKind(s[k + 1], "result")
      <4> TAKE k \in DOMAIN s
      <4> TAKE id \in Pipeline!OfKind(s[k], "use")
      <4>1. k # 1
        BY <1>9, <3>4
      <4>2. PICK j : j = k - 1
        OBVIOUS
      <4>3. j \in 1..l /\ k = 1 + j
        BY ONLY <3>5, <3>6, <4>1, <4>2, k \in DOMAIN s
      <4>4. s[k] = merged[j] /\ j \in DOMAIN merged
        BY <1>8, <3>3, <3>4, <4>3
      <4>5. j < l /\ id \in Pipeline!OfKind(merged[j + 1], "result")
        BY <1>4, <3>3, <4>4 DEF Replied
      <4>6. j + 1 \in 1..l /\ k + 1 = 1 + (j + 1) /\ k < Len(s)
        BY ONLY <3>4, <4>3, <4>5
      <4>7. s[k + 1] = merged[j + 1]
        BY ONLY <3>4, <4>6
      <4> QED BY ONLY <4>5, <4>6, <4>7
    <3> QED BY ONLY <1>9, <3>4, <3>6, <3>8, <3>10, <3>11
  <2>2. CASE ~ (merged # <<>> /\ Head(merged).role # "user")
    <3>1. s = merged
      BY <1>7, <2>2
    <3>2. merged # <<>> => merged[1].role = "user"
      BY <1>8, <2>2
    <3> QED BY <1>4, <1>8, <3>1, <3>2 DEF Replied
  <2> QED BY <2>1, <2>2
<1> HIDE DEF Fine
<1>11. \A i \in DOMAIN s : s[i].role = IF i % 2 = 1 THEN "user" ELSE "assistant"
  <2> DEFINE U == {i \in DOMAIN s : s[i].role # IF i % 2 = 1 THEN "user" ELSE "assistant"}
  <2>0. /\ Len(s) \in Nat /\ DOMAIN s = 1..Len(s)
        /\ \A k \in DOMAIN s : s[k].role \in {"user", "assistant"}
        /\ s # <<>> => s[1].role = "user"
        /\ \A k \in DOMAIN s : k < Len(s) => s[k].role # s[k + 1].role
    BY <1>10 DEF Fine
  <2> SUFFICES ASSUME U # {} PROVE FALSE
    OBVIOUS
  <2>1. PICK i \in U : \A j \in U : i <= j
    <3> U \in SUBSET Nat
      BY <2>0
    <3> HIDE DEF U
    <3> QED BY LeastExists
  <2>2. i \in 1..Len(s) /\ i \in Nat /\ s[i].role # IF i % 2 = 1 THEN "user" ELSE "assistant"
    BY <2>0, <2>1
  <2>3. i # 1
    <3>1. Len(s) # 0 => s # <<>>
      OBVIOUS
    <3>2. s[1].role = "user"
      BY <2>0, <2>2, <3>1
    <3> QED BY <2>2, <3>2
  <2>4. PICK j : j = i - 1
    OBVIOUS
  <2>5. j \in 1..Len(s) /\ i = j + 1 /\ j < Len(s) /\ ~ (i <= j) /\ j \in Nat
    BY ONLY <2>0, <2>2, <2>3, <2>4
  <2>6. j \notin U
    <3> HIDE DEF U
    <3> QED BY <2>1, <2>5
  <2>7. s[j].role = IF j % 2 = 1 THEN "user" ELSE "assistant"
    BY <2>0, <2>5, <2>6
  <2>8. s[j].role # s[i].role /\ s[i].role \in {"user", "assistant"}
    BY <2>0, <2>2, <2>5
  <2>9. (j % 2 = 1 /\ i % 2 # 1) \/ (j % 2 # 1 /\ i % 2 = 1)
    BY ONLY <2>5
  <2> QED BY <2>2, <2>7, <2>8, <2>9
<1>12. \A i \in DOMAIN s :
         Pipeline!OfKind(s[i], "use") # {} =>
           i < Len(s) /\ Pipeline!OfKind(s[i], "use") \subseteq Pipeline!OfKind(s[i + 1], "result")
  BY <1>10 DEF Fine
<1> QED BY <1>6, <1>11, <1>12

\* In the next state, too.
LEMMA SoundJoinNext == (\A s, t : Sound(s) /\ Sound(t) /\ Foreign(s, t) => Sound(s \o t))'
<1>1. \A s, t : Sound(s) /\ Sound(t) /\ Foreign(s, t) => Sound(s \o t)
  BY SoundJoin
<1> QED BY <1>1, PTL

LEMMA SoundOneNext == (\A m : m \in Messages /\ Proper(m) => Sound(<<m>>))'
<1>1. \A m : m \in Messages /\ Proper(m) => Sound(<<m>>)
  BY SoundOne
<1> QED BY <1>1, PTL

\* The message says nothing that is wrong once the result of the call is saved.
Spared(m, c) ==
  /\ m.role = "tool" /\ m.text = Pipeline!Unavailable => m.answers # <<c>>
  /\ m.role = "assistant" => \A k \in DOMAIN m.blocks : m.blocks[k].id # <<c>>

\* A message stays proper, and a sequence sound, when results are saved that it
\* does not contradict.
LEMMA ProperStays ==
  ASSUME NEW m, Proper(m), asked \in Nat, asked' \in Nat, asked <= asked',
         \A c \in SavedResults' : c \in SavedResults \/ Spared(m, c)
  PROVE  Proper(m)'
<1>1. \A c \in 1..asked : c \in 1..asked'
  OBVIOUS
<1>2. CASE m.role = "tool"
  <2>1. ProperResult(m)
    BY <1>2 DEF Proper
  <2>2. PICK c \in 1..asked : /\ m.answers = <<c>>
                              /\ \/ m.text \in {c, Pipeline!Compacted, Pipeline!ContextCompacted}
                                 \/ m.text = Pipeline!Unavailable /\ c \notin SavedResults
    BY <2>1 DEF ProperResult
  <2>3. \/ m.text \in {c, Pipeline!Compacted, Pipeline!ContextCompacted}
        \/ m.text = Pipeline!Unavailable /\ c \notin SavedResults'
    BY <1>2, <2>2 DEF Spared
  <2>4. ProperResult(m)'
    BY <1>1, <2>1, <2>2, <2>3 DEF ProperResult
  <2> QED BY <1>2, <2>4 DEF Proper
<1>3. CASE m.role = "assistant"
  <2>1. ProperCalls(m)
    BY <1>3 DEF Proper
  <2>2. \A k \in DOMAIN m.calls : m.calls[k].call \in 1..asked' /\ m.calls[k].id = <<m.calls[k].call>>
    BY <1>1, <2>1 DEF ProperCalls
  <2>3. \A k \in DOMAIN m.blocks : /\ m.blocks[k].kind = "use"
                                   /\ \E c \in 1..asked' : m.blocks[k].id = <<c>> /\ c \notin SavedResults'
    <3> TAKE k \in DOMAIN m.blocks
    <3>1. m.blocks[k].kind = "use"
      BY <2>1 DEF ProperCalls
    <3>2. PICK c \in 1..asked : m.blocks[k].id = <<c>> /\ c \notin SavedResults
      BY <2>1 DEF ProperCalls
    <3>3. c \notin SavedResults'
      BY <1>3, <3>2 DEF Spared
    <3> QED BY <1>1, <3>1, <3>2, <3>3
  <2>4. ProperCalls(m)'
    BY <2>1, <2>2, <2>3 DEF ProperCalls
  <2> QED BY <1>3, <2>4 DEF Proper
<1>4. CASE m.role \notin {"tool", "assistant"}
  BY <1>4 DEF Proper
<1> QED BY <1>2, <1>3, <1>4

LEMMA SoundStays ==
  ASSUME NEW ms, Sound(ms), asked \in Nat, asked' \in Nat, asked <= asked',
         \A c \in SavedResults' : c \in SavedResults \/ \A i \in DOMAIN ms : Spared(ms[i], c)
  PROVE  Sound(ms)'
<1>1. ms \in Seq(Messages) /\ Apart(ms) /\ \A i \in DOMAIN ms : Proper(ms[i])
  BY DEF Sound
<1>2. \A i \in DOMAIN ms : Proper(ms[i])'
  BY <1>1, ProperStays
<1> QED BY <1>1, <1>2 DEF Sound

\* What results are saved when rows are added.
LEMMA SavedMore ==
  ASSUME chatRows \in Seq(Messages), NEW t \in Seq(Messages), chatRows' = chatRows \o t, NEW c
  PROVE  c \in SavedResults' <=> c \in SavedResults \/ \E i \in DOMAIN t : t[i].role = "tool" /\ c = t[i].text
<1>1. PICK r, u : r = chatRows /\ u = chatRows'
  OBVIOUS
<1>2. r \in Seq(Messages) /\ u = r \o t
  BY <1>1
<1>3. /\ u \in Seq(Messages) /\ Len(u) = Len(r) + Len(t) /\ Len(r) \in Nat /\ Len(t) \in Nat
      /\ \A j \in 1..Len(r) : u[j] = r[j]
      /\ \A j \in 1..Len(t) : u[Len(r) + j] = t[j]
  BY <1>2, JoinPlaces
<1>4. DOMAIN r = 1..Len(r) /\ DOMAIN t = 1..Len(t) /\ DOMAIN u = 1..(Len(r) + Len(t))
  <2>1. DOMAIN r = 1..Len(r) /\ DOMAIN t = 1..Len(t)
    BY <1>2
  <2>2. DOMAIN u = 1..Len(u)
    BY ONLY <1>3
  <2> QED BY ONLY <1>3, <2>1, <2>2
<1>5. \A k \in 1..(Len(r) + Len(t)) : k \in 1..Len(r) \/ (k - Len(r) \in 1..Len(t) /\ k = Len(r) + (k - Len(r)))
  BY ONLY <1>3
<1>6. \A k \in DOMAIN r : k \in DOMAIN u /\ u[k] = r[k]
  BY ONLY <1>3, <1>4, InFirst
<1>7. \A k \in DOMAIN t : Len(r) + k \in DOMAIN u /\ u[Len(r) + k] = t[k]
  BY ONLY <1>3, <1>4, InSecond
<1>8. \A k \in DOMAIN u : \/ k \in DOMAIN r /\ u[k] = r[k]
                          \/ k - Len(r) \in DOMAIN t /\ u[k] = t[k - Len(r)]
  BY ONLY <1>3, <1>4, <1>5
<1>9. c \in SavedResults <=> \E i \in DOMAIN r : r[i].role = "tool" /\ c = r[i].text
  BY <1>1 DEF SavedResults
<1>10. c \in SavedResults' <=> \E i \in DOMAIN u : u[i].role = "tool" /\ c = u[i].text
  BY <1>1 DEF SavedResults
<1> QED BY ONLY <1>6, <1>7, <1>8, <1>9, <1>10

\* A row that is not a result, of calls that nobody has made yet.
LEMMA RowAdded ==
  ASSUME RowInv, asked \in Nat, asked' \in Nat, asked <= asked',
         NEW m \in Messages, Proper(m)', m.role # "tool", m.role = "assistant" => m.blocks = <<>>,
         \A c \in 1..asked : <<c>> \notin MadeBy(m), chatRows' = Append(chatRows, m)
  PROVE  RowInv' /\ SavedResults' = SavedResults
<1>1. PICK r, u : r = chatRows /\ u = chatRows'
  OBVIOUS
<1>2. r \in Seq(Messages) /\ DOMAIN r = 1..Len(r) /\ Len(r) \in Nat /\ Sound(r)
  <2>1. Sound(r)
    BY <1>1 DEF RowInv
  <2> QED BY <2>1 DEF Sound
<1>3. /\ <<m>> \in Seq(Messages) /\ \A i \in DOMAIN <<m>> : <<m>>[i] = m
      /\ u = Append(r, m) /\ u = r \o <<m>>
  BY <1>1, <1>2
<1>4. \A c : c \in SavedResults' <=> c \in SavedResults
  <2>1. PICK t : t = <<m>>
    OBVIOUS
  <2>2. t \in Seq(Messages) /\ chatRows \in Seq(Messages) /\ chatRows' = chatRows \o t
    BY <1>1, <1>2, <1>3, <2>1
  <2>3. \A i \in DOMAIN t : t[i].role # "tool"
    BY <1>3, <2>1
  <2> QED BY <2>2, <2>3, SavedMore
<1>5. SavedResults' = SavedResults
  <2>1. \A S, T : (\A c : c \in S <=> c \in T) => S = T
    OBVIOUS
  <2> QED BY ONLY <1>4, <2>1
<1>6. Foreign(r, <<m>>)
  <2>1. \A i \in DOMAIN r : r[i] \in Messages /\ Proper(r[i])
    BY <1>2 DEF Sound
  <2>2. \A i \in DOMAIN r : \A id \in MadeBy(r[i]) : \E c \in 1..asked : id = <<c>>
    BY <2>1, MadeIds
  <2> QED BY <1>3, <2>2 DEF Foreign
<1>7. Sound(u)'
  <2>1. Sound(r)'
    BY <1>2, <1>5, SoundStays
  <2>2. Sound(<<m>>)'
    BY SoundOneNext
  <2>3. Sound(r \o <<m>>)'
    BY ONLY <1>6, <2>1, <2>2, SoundJoinNext
  <2> QED BY <1>3, <2>3
<1>8. /\ DOMAIN u = 1..(Len(r) + 1) /\ \A i \in 1..Len(r) : u[i] = r[i]
      /\ u[Len(r) + 1] = m
  BY <1>2, <1>3
<1>9. \A i \in DOMAIN u : (i \in DOMAIN r /\ u[i] = r[i]) \/ (i = Len(r) + 1 /\ u[i] = m)
  <2>1. \A i \in 1..(Len(r) + 1) : i \in 1..Len(r) \/ i = Len(r) + 1
    BY <1>2
  <2> QED BY ONLY <1>2, <1>8, <2>1
<1>10. /\ \A i \in DOMAIN r :
            /\ r[i].role = "tool" => r[i].answers = <<r[i].text>> /\ r[i].text \in 1..asked
            /\ r[i].role = "assistant" => r[i].blocks = <<>>
       /\ \A i, a \in DOMAIN r : r[i].role = "tool" /\ r[i].answers \in MadeBy(r[a]) => a < i
  BY <1>1 DEF RowInv
<1>11. \A i \in DOMAIN u :
         /\ u[i].role = "tool" => u[i].answers = <<u[i].text>> /\ u[i].text \in 1..asked'
         /\ u[i].role = "assistant" => u[i].blocks = <<>>
  <2>1. \A c \in 1..asked : c \in 1..asked'
    OBVIOUS
  <2> QED BY <1>9, <1>10, <2>1
<1>12. \A i, a \in DOMAIN u : u[i].role = "tool" /\ u[i].answers \in MadeBy(u[a]) => a < i
  <2> TAKE i, a \in DOMAIN u
  <2> HAVE u[i].role = "tool" /\ u[i].answers \in MadeBy(u[a])
  <2>1. i \in DOMAIN r /\ u[i] = r[i]
    BY <1>9
  <2>2. u[i].answers \notin MadeBy(m)
    BY <1>10, <2>1
  <2>3. a \in DOMAIN r /\ u[a] = r[a]
    BY <1>9, <2>2
  <2> QED BY <1>10, <2>1, <2>3
<1>13. RowInv'
  BY <1>1, <1>7, <1>11, <1>12 DEF RowInv
<1> QED BY <1>5, <1>13

\* ResultsAreOwn, of the calls whose results are saved.
Own ==
  request.api = "openai" =>
    \A i \in DOMAIN request.messages : \A k \in DOMAIN request.messages[i].calls :
      \/ request.messages[i + k].text \in
           {request.messages[i].calls[k].call, Pipeline!Compacted, Pipeline!ContextCompacted}
      \/ request.messages[i + k].text = Pipeline!Unavailable /\ request.messages[i].calls[k].call \notin SavedResults

\* ResultsAreOwn says the same.
LEMMA OwnIs == Pipeline!ResultsAreOwn <=> Own
<1>1. \A c : (\E i \in DOMAIN chatRows : chatRows[i].role = "tool" /\ chatRows[i].text = c) <=> c \in SavedResults
  BY DEF SavedResults
<1> QED BY <1>1 DEF Pipeline!ResultsAreOwn, Pipeline!Has, Own

LEMMA OwnIsNext == Pipeline!ResultsAreOwn' <=> Own'
BY OwnIs, PTL

\* The last request stays right when other results are saved.
LEMMA RequestStays ==
  ASSUME RequestInv, asked \in Nat, asked' \in Nat, asked <= asked', request' = request,
         \A c \in SavedResults' :
           \/ c \in SavedResults
           \/ request.api = "openai" =>
                \A i \in DOMAIN request.messages : \A k \in DOMAIN request.messages[i].calls :
                  request.messages[i].calls[k].call # c
  PROVE  RequestInv'
<1>1. \A c \in 1..asked : c \in 1..asked'
  OBVIOUS
<1>2. Pipeline!PairedForOpenAi /\ Pipeline!AnsweredForAnthropic /\ Own
  BY OwnIs DEF RequestInv, RequestsArePaired, Pipeline!RequestsArePaired
<1>3. Pipeline!PairedForOpenAi'
  BY <1>2 DEF Pipeline!PairedForOpenAi
<1>4. Pipeline!AnsweredForAnthropic'
  BY <1>2 DEF Pipeline!AnsweredForAnthropic
<1>5. Own'
  BY <1>2 DEF Own
<1>6. RequestsArePaired'
  BY <1>3, <1>4, <1>5, OwnIsNext DEF RequestsArePaired, Pipeline!RequestsArePaired
<1> QED BY <1>1, <1>6 DEF RequestInv

\* The first state.
LEMMA PipeInit == Pipeline!Init => PipeInv
<1> SUFFICES ASSUME Pipeline!Init PROVE PipeInv
  OBVIOUS
<1>1. /\ pc = "idle" /\ chatRows = <<>> /\ boundary = 0 /\ messages = <<>> /\ left = <<>> /\ requests = 0 /\ asked = 0
      /\ request.api = "none"
  BY DEF Pipeline!Init
<1>2. PipeTypes
  <2>1. <<>> \in Seq(ToolCalls)
    OBVIOUS
  <2> QED BY <1>1, <2>1 DEF PipeTypes
<1>3. DOMAIN chatRows = {} /\ Sound(chatRows) /\ Sound(messages)
  BY <1>1, SoundNone
<1>4. RowInv
  BY <1>3 DEF RowInv
<1>5. FirstInv
  BY <1>1 DEF FirstInv
<1>6. RequestInv
  BY <1>1 DEF RequestInv, RequestsArePaired, Pipeline!RequestsArePaired, Pipeline!PairedForOpenAi,
              Pipeline!AnsweredForAnthropic, Pipeline!ResultsAreOwn
<1> QED BY <1>1, <1>2, <1>3, <1>4, <1>5, <1>6 DEF PipeInv

\* A turn ends.
LEMMA OverKeeps ==
  ASSUME PipeInv, NEW from, Pipeline!Over(from),
         \/ chatRows' = chatRows
         \/ chatRows' = Append(chatRows, Pipeline!Says("assistant", Pipeline!Said))
  PROVE  PipeInv'
<1>1. /\ pc' = "idle" /\ messages' = <<>> /\ left' = <<>> /\ boundary' = boundary /\ request' = request
      /\ requests' = requests /\ asked' = asked
  BY DEF Pipeline!Over, Pipeline!Goto
<1>2. PipeTypes /\ RowInv /\ RequestInv /\ asked \in Nat /\ asked <= asked'
  <2>1. PipeTypes /\ RowInv /\ RequestInv
    BY DEF PipeInv
  <2>2. asked \in Nat
    BY <2>1 DEF PipeTypes
  <2> QED BY <1>1, <2>1, <2>2
<1>3. RowInv' /\ SavedResults' = SavedResults
  <2>1. CASE chatRows' = chatRows
    <3>1. SavedResults' = SavedResults
      BY <2>1 DEF SavedResults
    <3>2. Sound(chatRows)'
      <4>1. PICK r : r = chatRows /\ r = chatRows'
        BY <2>1
      <4>2. Sound(r)
        BY <1>2, <4>1 DEF RowInv
      <4>3. Sound(r)'
        BY <1>1, <1>2, <3>1, <4>2, SoundStays
      <4> QED BY <4>1, <4>3
    <3> QED BY <1>1, <1>2, <2>1, <3>1, <3>2 DEF RowInv
  <2>2. CASE chatRows' # chatRows
    <3>1. PICK m : m = Pipeline!Says("assistant", Pipeline!Said)
      OBVIOUS
    <3>2. m \in Messages /\ Proper(m) /\ MadeBy(m) = {} /\ m.role = "assistant" /\ m.blocks = <<>>
      BY <3>1, SaysIs DEF Pipeline!Said
    <3>3. Proper(m)'
      BY <1>1, <3>2 DEF Proper, ProperCalls
    <3>4. chatRows' = Append(chatRows, m)
      BY <2>2, <3>1
    <3> QED BY <1>1, <1>2, <3>2, <3>3, <3>4, RowAdded
  <2> QED BY <2>1, <2>2
<1>4. PipeTypes'
  <2>1. <<>> \in Seq(ToolCalls)
    OBVIOUS
  <2> QED BY <1>1, <1>2, <2>1 DEF PipeTypes
<1>5. Sound(messages)'
  <2>1. Sound(<<>>)'
    BY DEF Sound, Apart
  <2> QED BY <1>1, <2>1
<1>6. FirstInv'
  BY <1>1 DEF FirstInv
<1>7. RequestInv'
  BY <1>1, <1>2, <1>3, RequestStays
<1> QED BY <1>1, <1>3, <1>4, <1>5, <1>6, <1>7 DEF PipeInv

\* Messages that make no calls.
Silent(s) == Sound(s) /\ \A i \in DOMAIN s : MadeBy(s[i]) = {} /\ s[i].calls = <<>>

\* The messages of s are in t, and there are no calls in t but theirs.
Carries(t, s) ==
  /\ \A j \in DOMAIN s : \E i \in DOMAIN t : t[i] = s[j]
  /\ \A i \in DOMAIN t : t[i].calls = <<>> \/ \E j \in DOMAIN s : t[i] = s[j]

\* What the program says is silent.
LEMMA SilentSays ==
  ASSUME NEW role \in {"system", "user", "assistant"}, NEW words \in Int
  PROVE  Silent(<<Pipeline!Says(role, words)>>)
<1>1. PICK m : m = Pipeline!Says(role, words)
  OBVIOUS
<1>2. m \in Messages /\ Proper(m) /\ MadeBy(m) = {} /\ m.calls = <<>>
  BY <1>1, SaysIs
<1>3. Sound(<<m>>) /\ \A i \in DOMAIN <<m>> : <<m>>[i] = m
  BY <1>2, SoundOne
<1> QED BY <1>1, <1>2, <1>3 DEF Silent

LEMMA SilentTwo ==
  ASSUME NEW m \in Messages, Proper(m), MadeBy(m) = {}, m.calls = <<>>,
         NEW n \in Messages, Proper(n), MadeBy(n) = {}, n.calls = <<>>
  PROVE  Silent(<<m, n>>)
<1>1. <<m, n>> \in Seq(Messages) /\ \A i \in DOMAIN <<m, n>> : <<m, n>>[i] = m \/ <<m, n>>[i] = n
  <2>1. \A x, y \in Messages : /\ <<x, y>> \in Seq(Messages) /\ DOMAIN <<x, y>> = 1..2
                               /\ <<x, y>>[1] = x /\ <<x, y>>[2] = y
    OBVIOUS
  <2>2. \A i \in 1..2 : i = 1 \/ i = 2
    OBVIOUS
  <2> QED BY <2>1, <2>2
<1>2. Sound(<<m, n>>)
  BY <1>1 DEF Sound, Apart
<1> QED BY <1>1, <1>2 DEF Silent

\* Silent messages can be joined to others.
LEMMA SilentJoins ==
  ASSUME NEW s, Sound(s), NEW t, Silent(t)
  PROVE  /\ Sound(s \o t) /\ Carries(s \o t, s)
         /\ Sound(t \o s) /\ Carries(t \o s, s)
<1>1. s \in Seq(Messages) /\ t \in Seq(Messages) /\ Sound(t)
  BY DEF Silent, Sound
<1>2. Foreign(s, t) /\ Foreign(t, s)
  BY DEF Silent, Foreign
<1>3. Sound(s \o t) /\ Sound(t \o s)
  BY <1>1, <1>2, SoundJoin
<1>4. /\ s \o t \in Seq(Messages) /\ Len(s \o t) = Len(s) + Len(t) /\ Len(s) \in Nat /\ Len(t) \in Nat
      /\ \A j \in 1..Len(s) : (s \o t)[j] = s[j]
      /\ \A j \in 1..Len(t) : (s \o t)[Len(s) + j] = t[j]
  BY <1>1, JoinPlaces
<1>5. /\ t \o s \in Seq(Messages) /\ Len(t \o s) = Len(t) + Len(s)
      /\ \A j \in 1..Len(t) : (t \o s)[j] = t[j]
      /\ \A j \in 1..Len(s) : (t \o s)[Len(t) + j] = s[j]
  BY <1>1, JoinPlaces
<1>6. DOMAIN s = 1..Len(s) /\ DOMAIN t = 1..Len(t)
  BY <1>1
<1>7. DOMAIN (s \o t) = 1..(Len(s) + Len(t)) /\ DOMAIN (t \o s) = 1..(Len(t) + Len(s))
  <2>1. DOMAIN (s \o t) = 1..Len(s \o t) /\ DOMAIN (t \o s) = 1..Len(t \o s)
    BY ONLY <1>4, <1>5
  <2> QED BY ONLY <1>4, <1>5, <2>1
<1>8. \A m, n \in Nat : \A k \in 1..(m + n) : k \in 1..m \/ (k - m \in 1..n /\ k = m + (k - m))
  OBVIOUS
<1>9. \A i \in DOMAIN t : t[i].calls = <<>>
  BY DEF Silent
<1>10. Carries(s \o t, s)
  <2>1. \A j \in DOMAIN s : j \in DOMAIN (s \o t) /\ (s \o t)[j] = s[j]
    BY ONLY <1>4, <1>6, <1>7, InFirst
  <2>2. \A k \in DOMAIN (s \o t) : \/ k \in DOMAIN s /\ (s \o t)[k] = s[k]
                                   \/ k - Len(s) \in DOMAIN t /\ (s \o t)[k] = t[k - Len(s)]
    <3>1. \A k \in 1..(Len(s) + Len(t)) : k \in 1..Len(s) \/ (k - Len(s) \in 1..Len(t) /\ k = Len(s) + (k - Len(s)))
      BY ONLY <1>4, <1>8
    <3> QED BY ONLY <1>4, <1>6, <1>7, <3>1
  <2> QED BY ONLY <1>9, <2>1, <2>2 DEF Carries
<1>11. Carries(t \o s, s)
  <2>1. \A j \in DOMAIN s : Len(t) + j \in DOMAIN (t \o s) /\ (t \o s)[Len(t) + j] = s[j]
    BY ONLY <1>4, <1>5, <1>6, <1>7, InSecond
  <2>2. \A k \in DOMAIN (t \o s) : \/ k \in DOMAIN t /\ (t \o s)[k] = t[k]
                                   \/ k - Len(t) \in DOMAIN s /\ (t \o s)[k] = s[k - Len(t)]
    <3>1. \A k \in 1..(Len(t) + Len(s)) : k \in 1..Len(t) \/ (k - Len(t) \in 1..Len(s) /\ k = Len(t) + (k - Len(t)))
      BY ONLY <1>4, <1>8
    <3> QED BY ONLY <1>5, <1>6, <1>7, <3>1
  <2> QED BY ONLY <1>9, <2>1, <2>2 DEF Carries
<1> QED BY <1>3, <1>10, <1>11

\* The rows stay.
LEMMA RowsKept ==
  ASSUME RowInv, asked \in Nat, asked' = asked, chatRows' = chatRows
  PROVE  RowInv' /\ SavedResults' = SavedResults
<1>1. SavedResults' = SavedResults
  BY DEF SavedResults
<1>2. PICK r : r = chatRows /\ r = chatRows'
  OBVIOUS
<1>3. Sound(r)
  BY <1>2 DEF RowInv
<1>4. Sound(r)'
  BY <1>1, <1>3, SoundStays
<1>5. Sound(chatRows)'
  BY <1>2, <1>4
<1> QED BY <1>1, <1>5 DEF RowInv

\* A compaction moves the boundary only.
LEMMA CompactKeeps ==
  ASSUME PipeInv, Pipeline!Compact, KeepTail \in Nat
  PROVE  PipeInv'
<1>1. /\ pc = "idle" /\ Len(chatRows) > KeepTail /\ boundary' = Len(chatRows) - KeepTail
      /\ UNCHANGED <<pc, model, chatRows, messages, request, left, turns, requests, asked>>
  BY DEF Pipeline!Compact
<1>2. PipeTypes /\ RowInv /\ RequestInv /\ asked \in Nat /\ asked <= asked' /\ Sound(messages)
  <2>1. PipeTypes /\ RowInv /\ RequestInv /\ Sound(messages)
    BY DEF PipeInv
  <2>2. asked \in Nat
    BY <2>1 DEF PipeTypes
  <2> QED BY <1>1, <2>1, <2>2
<1>3. RowInv' /\ SavedResults' = SavedResults
  BY <1>1, <1>2, RowsKept
<1>4. PipeTypes'
  <2>1. Len(chatRows) \in Nat
    BY <1>2 DEF RowInv, Sound
  <2>2. boundary' \in Nat
    BY ONLY <1>1, <2>1, KeepTail \in Nat
  <2> QED BY <1>1, <1>2, <2>2 DEF PipeTypes
<1>5. Sound(messages)'
  <2>1. PICK ms : ms = messages /\ ms = messages'
    BY <1>1
  <2>2. Sound(ms)'
    BY <1>1, <1>2, <1>3, <2>1, SoundStays
  <2> QED BY <2>1, <2>2
<1>6. FirstInv'
  BY <1>1 DEF FirstInv
<1>7. RequestInv'
  BY <1>1, <1>2, <1>3, RequestStays
<1> QED BY <1>1, <1>3, <1>4, <1>5, <1>6, <1>7 DEF PipeInv

\* The model is asked again.
LEMMA AskKeeps ==
  ASSUME PipeInv, Pipeline!AskAgain
  PROVE  PipeInv'
<1>1. PICK words : /\ words = IF requests = 1 THEN Pipeline!Said ELSE Pipeline!Blank
                   /\ messages' = messages \o <<Pipeline!Says("assistant", words), Pipeline!Says("user", Pipeline!Hint)>>
  BY DEF Pipeline!AskAgain
<1>2. /\ pc = "reply" /\ pc' = "send"
      /\ UNCHANGED <<model, chatRows, boundary, request, left, turns, requests, asked>>
  BY DEF Pipeline!AskAgain, Pipeline!Goto
<1>3. PipeTypes /\ RowInv /\ RequestInv /\ asked \in Nat /\ asked <= asked' /\ Sound(messages) /\ requests # 0
  <2>1. PipeTypes /\ RowInv /\ RequestInv /\ Sound(messages)
    BY DEF PipeInv
  <2>2. asked \in Nat /\ requests # 0
    BY <1>2, <2>1 DEF PipeTypes
  <2> QED BY <1>2, <2>1, <2>2
<1>4. RowInv' /\ SavedResults' = SavedResults
  BY <1>2, <1>3, RowsKept
<1>5. PipeTypes'
  BY <1>2, <1>3 DEF PipeTypes
<1>6. Sound(messages)'
  <2>1. PICK m, n : m = Pipeline!Says("assistant", words) /\ n = Pipeline!Says("user", Pipeline!Hint)
    OBVIOUS
  <2>2. words \in Int /\ Pipeline!Hint \in Int
    BY <1>1 DEF Pipeline!Said, Pipeline!Blank, Pipeline!Hint
  <2>3. Silent(<<m, n>>)
    BY <2>1, <2>2, SaysIs, SilentTwo
  <2>4. PICK ms : ms = messages'
    OBVIOUS
  <2>5. Sound(ms)
    BY <1>1, <1>3, <2>1, <2>3, <2>4, SilentJoins
  <2>6. Sound(ms)'
    BY <1>2, <1>3, <1>4, <2>5, SoundStays
  <2> QED BY <2>4, <2>6
<1>7. FirstInv'
  BY <1>2, <1>3 DEF FirstInv
<1>8. RequestInv'
  BY <1>2, <1>3, <1>4, RequestStays
<1> QED BY <1>2, <1>4, <1>5, <1>6, <1>7, <1>8 DEF PipeInv

\* What a turn loads are the last rows, or the summary and the last rows.
LEMMA HistoryIs ==
  ASSUME RowInv, boundary \in Nat
  PROVE  \E b \in Nat \ {0} : \/ Pipeline!History = SubSeq(chatRows, b, Len(chatRows))
                              \/ Pipeline!History = <<Pipeline!Says("assistant", Pipeline!Said)>>
                                                    \o SubSeq(chatRows, b, Len(chatRows))
<1>1. CASE boundary = 0
  <2> DEFINE his == {i \in Pipeline!Users(chatRows) : chatRows[i].blocks = <<>>}
             since == {i \in his : Pipeline!Cardinality({j \in his : j >= i}) = HistoryTurns}
             b == Pipeline!Max({1} \cup since)
  <2>1. Pipeline!History = SubSeq(chatRows, b, Len(chatRows))
    BY <1>1 DEF Pipeline!History, Pipeline!Recent
  <2>2. Len(chatRows) \in Nat /\ DOMAIN chatRows = 1..Len(chatRows)
    BY DEF RowInv, Sound
  <2>3. since \subseteq 1..Len(chatRows)
    BY <2>2 DEF Pipeline!Users
  <2> HIDE DEF since
  <2>4. PICK n : n = Len(chatRows) + 1
    OBVIOUS
  <2>5. PICK T : T = {1} \cup since
    OBVIOUS
  <2>6. n \in Nat /\ T \in SUBSET (0..n) /\ 1 \in T /\ \A i \in T : i # 0 /\ i \in Nat
    BY <2>2, <2>3, <2>4, <2>5
  <2>7. Pipeline!Max(T) \in T
    BY <2>6, MaxIs
  <2>8. b \in Nat \ {0}
    BY <2>5, <2>6, <2>7
  <2> HIDE DEF b
  <2> QED BY <2>1, <2>8
<1>2. CASE boundary # 0
  <2>1. boundary + 1 \in Nat \ {0}
    OBVIOUS
  <2> QED BY <1>2, <2>1 DEF Pipeline!History
<1> QED BY <1>1, <1>2

\* Each result that is saved is among the last rows if its call is.
LEMMA CutIs ==
  ASSUME RowInv, asked \in Nat, NEW b \in Nat \ {0}
  PROVE  LET s == SubSeq(chatRows, b, Len(chatRows)) IN
         /\ Sound(s)
         /\ \A i \in DOMAIN s : \A k \in DOMAIN s[i].calls :
              s[i].calls[k].call \in SavedResults => Results(s, s[i].calls[k].id) # {}
<1>1. PICK r, s : r = chatRows /\ s = SubSeq(chatRows, b, Len(chatRows))
  OBVIOUS
<1>2. Sound(r) /\ r \in Seq(Messages) /\ DOMAIN r = 1..Len(r) /\ Len(r) \in Nat /\ s = SubSeq(r, b, Len(r))
  BY <1>1 DEF RowInv, Sound
<1>3. Sound(s)
  BY <1>2, SoundPart
<1>4. /\ \A i \in DOMAIN s : \E j \in DOMAIN r : b <= j /\ s[i] = r[j]
      /\ \A j \in DOMAIN r : b <= j => \E i \in DOMAIN s : s[i] = r[j]
  <2>1. \A i \in DOMAIN s : (b + i) - 1 \in DOMAIN r /\ b <= (b + i) - 1 /\ s[i] = r[(b + i) - 1]
    BY <1>2
  <2>2. \A j \in DOMAIN r : b <= j => (j - b) + 1 \in DOMAIN s /\ s[(j - b) + 1] = r[j]
    BY <1>2
  <2> QED BY <2>1, <2>2
<1>5. ASSUME NEW i \in DOMAIN s, NEW k \in DOMAIN s[i].calls, s[i].calls[k].call \in SavedResults
      PROVE  Results(s, s[i].calls[k].id) # {}
  <2>1. PICK a \in DOMAIN r : b <= a /\ s[i] = r[a]
    BY <1>4
  <2>2. k \in DOMAIN r[a].calls
    BY <2>1
  <2>3. r[a].calls[k].id = <<r[a].calls[k].call>>
    BY <1>2, <2>2, CallsAreAsked
  <2>4. r[a].calls[k].id \in MadeBy(r[a])
    BY <1>2, <2>2, CallIsMade DEF Sound
  <2>5. PICK t \in DOMAIN r : r[t].role = "tool" /\ r[t].text = r[a].calls[k].call
    BY <1>1, <1>5, <2>1 DEF SavedResults
  <2>6. r[t].answers = r[a].calls[k].id
    BY <1>1, <2>3, <2>5 DEF RowInv
  <2>7. a < t
    BY <1>1, <2>4, <2>5, <2>6 DEF RowInv
  <2>8. b <= t
    BY <1>2, <2>1, <2>7
  <2>9. PICK j \in DOMAIN s : s[j] = r[t]
    BY <1>4, <2>8
  <2> QED BY <2>1, <2>5, <2>6, <2>9 DEF Results
<1> QED BY <1>1, <1>3, <1>5

\* A first request has a result for each call whose result is saved.
LEMMA CarriesAll ==
  ASSUME NEW s, NEW t, NEW u, Carries(t, s), Carries(u, t)
  PROVE  Carries(u, s)
BY DEF Carries

\* A turn begins.
LEMMA BeginKeeps ==
  ASSUME PipeInv, NEW m, Pipeline!BeginTurn(m)
  PROVE  PipeInv'
<1>1. /\ pc' = "send" /\ requests' = 0
      /\ chatRows' = Append(chatRows, Pipeline!Says("user", Pipeline!Said))
      /\ UNCHANGED <<boundary, request, left, asked>>
  BY DEF Pipeline!BeginTurn, Pipeline!Goto
<1>2. PipeTypes /\ RowInv /\ RequestInv /\ asked \in Nat /\ boundary \in Nat /\ asked <= asked'
  <2>1. PipeTypes /\ RowInv /\ RequestInv
    BY DEF PipeInv
  <2>2. asked \in Nat /\ boundary \in Nat
    BY <2>1 DEF PipeTypes
  <2> QED BY <1>1, <2>1, <2>2
<1>3. RowInv' /\ SavedResults' = SavedResults
  <2>1. PICK row : row = Pipeline!Says("user", Pipeline!Said)
    OBVIOUS
  <2>2. row \in Messages /\ Proper(row) /\ MadeBy(row) = {} /\ row.role = "user"
    BY <2>1, SaysIs DEF Pipeline!Said
  <2>3. Proper(row)'
    BY <1>1, <2>2 DEF Proper
  <2>4. chatRows' = Append(chatRows, row)
    BY <1>1, <2>1
  <2> QED BY <1>1, <1>2, <2>2, <2>3, <2>4, RowAdded
<1>4. PipeTypes'
  BY <1>1, <1>2 DEF PipeTypes
<1>5. PICK prompt, reminder, told :
        /\ messages' = prompt \o Pipeline!History \o reminder \o told
        /\ prompt = <<>> \/ prompt = <<Pipeline!Says("system", Pipeline!Said)>>
        /\ \/ reminder = <<>>
           \/ reminder = <<Pipeline!Says("user", Pipeline!Said)>>
           \/ reminder = <<Pipeline!Says("system", Pipeline!Said)>>
        /\ told = <<Pipeline!Says("user", Pipeline!Said)>>
  BY DEF Pipeline!BeginTurn
<1>6. Silent(prompt) /\ Silent(reminder) /\ Silent(told)
  <2>1. Silent(<<>>)
    BY SoundNone DEF Silent
  <2>2. Pipeline!Said \in Int
    BY DEF Pipeline!Said
  <2>3. /\ Silent(<<Pipeline!Says("system", Pipeline!Said)>>)
        /\ Silent(<<Pipeline!Says("user", Pipeline!Said)>>)
    BY <2>2, SilentSays
  <2> QED BY <1>5, <2>1, <2>3
<1>7. PICK b \in Nat \ {0} : \/ Pipeline!History = SubSeq(chatRows, b, Len(chatRows))
                             \/ Pipeline!History = <<Pipeline!Says("assistant", Pipeline!Said)>>
                                                   \o SubSeq(chatRows, b, Len(chatRows))
  BY <1>2, HistoryIs
<1>8. PICK s, h : s = SubSeq(chatRows, b, Len(chatRows)) /\ h = Pipeline!History
  OBVIOUS
<1>9. /\ Sound(s)
      /\ \A i \in DOMAIN s : \A k \in DOMAIN s[i].calls :
           s[i].calls[k].call \in SavedResults => Results(s, s[i].calls[k].id) # {}
  BY <1>2, <1>8, CutIs
<1>10. Sound(h) /\ Carries(h, s)
  <2>1. Carries(s, s)
    BY DEF Carries
  <2>2. PICK summary : summary = <<Pipeline!Says("assistant", Pipeline!Said)>>
    OBVIOUS
  <2>3. Silent(summary)
    BY <2>2, SilentSays DEF Pipeline!Said
  <2>4. h = s \/ h = summary \o s
    BY <1>7, <1>8, <2>2
  <2> QED BY <1>9, <2>1, <2>3, <2>4, SilentJoins
<1>11. PICK ms : ms = messages'
  OBVIOUS
<1>12. Sound(ms) /\ Carries(ms, s)
  <2>1. ms = prompt \o h \o reminder \o told
    BY <1>5, <1>8, <1>11
  <2>2. PICK u, v : u = prompt \o h /\ v = u \o reminder
    OBVIOUS
  <2>3. Sound(u) /\ Carries(u, h)
    BY <1>6, <1>10, <2>2, SilentJoins
  <2>4. Sound(v) /\ Carries(v, u)
    BY <1>6, <2>2, <2>3, SilentJoins
  <2>5. ms = v \o told
    BY <2>1, <2>2
  <2>6. Sound(ms) /\ Carries(ms, v)
    BY <1>6, <2>4, <2>5, SilentJoins
  <2> QED BY <1>10, <2>3, <2>4, <2>6, CarriesAll
<1>13. Sound(messages)'
  <2>1. Sound(ms)'
    BY <1>1, <1>2, <1>3, <1>12, SoundStays
  <2> QED BY <1>11, <2>1
<1>14. \A i \in DOMAIN ms : \A k \in DOMAIN ms[i].calls :
         ms[i].calls[k].call \in SavedResults => Results(ms, ms[i].calls[k].id) # {}
  <2> TAKE i \in DOMAIN ms
  <2> TAKE k \in DOMAIN ms[i].calls
  <2> HAVE ms[i].calls[k].call \in SavedResults
  <2>1. ms[i].calls # <<>>
    <3>1. DOMAIN <<>> = {}
      OBVIOUS
    <3> QED BY <3>1
  <2>2. PICK j \in DOMAIN s : ms[i] = s[j]
    BY <1>12, <2>1 DEF Carries
  <2>3. PICK t \in DOMAIN s : s[t].role = "tool" /\ s[t].answers = ms[i].calls[k].id
    BY <1>9, <2>2 DEF Results
  <2>4. PICK x \in DOMAIN ms : ms[x] = s[t]
    BY <1>12 DEF Carries
  <2> QED BY <2>3, <2>4 DEF Results
<1>15. FirstInv'
  BY <1>3, <1>11, <1>14 DEF FirstInv
<1>16. RequestInv'
  BY <1>1, <1>2, <1>3, RequestStays
<1> QED BY <1>1, <1>3, <1>4, <1>13, <1>15, <1>16 DEF PipeInv

\* The messages of a first request.
LEMMA FirstAnswerable ==
  ASSUME Sound(messages), FirstInv, pc = "send", requests = 0
  PROVE  Answerable(messages)
<1> SUFFICES ASSUME NEW i \in DOMAIN messages, NEW id \in MadeBy(messages[i])
             PROVE  Results(messages, id) # {} \/ \E c \in 1..asked : id = <<c>> /\ c \notin SavedResults
  BY DEF Answerable
<1>1. messages[i] \in Messages /\ Proper(messages[i])
  BY DEF Sound
<1>2. \/ \E k \in DOMAIN messages[i].calls : id = messages[i].calls[k].id
      \/ \E c \in 1..asked : id = <<c>> /\ c \notin SavedResults
  BY <1>1, MadeIds
<1>3. ASSUME NEW k \in DOMAIN messages[i].calls, id = messages[i].calls[k].id
      PROVE  Results(messages, id) # {} \/ \E c \in 1..asked : id = <<c>> /\ c \notin SavedResults
  <2>1. messages[i].calls[k].call \in 1..asked /\ messages[i].calls[k].id = <<messages[i].calls[k].call>>
    BY CallsAreAsked
  <2> QED BY <1>3, <2>1 DEF FirstInv
<1> QED BY <1>2, <1>3

\* A request is sent.
LEMMA SendKeeps ==
  ASSUME PipeInv, Pipeline!Send, HeadKept \in Nat, TailKept \in Nat
  PROVE  PipeInv'
<1>1. /\ pc = "send" /\ pc' = "reply" /\ requests' = requests + 1
      /\ UNCHANGED <<model, chatRows, boundary, left, turns, asked>>
  BY DEF Pipeline!Send, Pipeline!Goto
<1>2. PipeTypes /\ RowInv /\ FirstInv /\ Sound(messages) /\ asked \in Nat /\ requests \in Nat /\ asked <= asked'
  <2>1. PipeTypes /\ RowInv /\ FirstInv /\ Sound(messages)
    BY DEF PipeInv
  <2>2. asked \in Nat /\ requests \in Nat
    BY <2>1 DEF PipeTypes
  <2> QED BY <1>1, <2>1, <2>2
<1>3. RowInv' /\ SavedResults' = SavedResults
  BY <1>1, <1>2, RowsKept
<1>4. PICK ms \in Pipeline!Prepared :
        /\ messages' = Pipeline!Sanitized(ms)
        /\ request' = IF Pipeline!Anthropic
                      THEN [api |-> "anthropic", messages |-> Pipeline!ForAnthropic(Pipeline!Sanitized(ms))]
                      ELSE [api |-> "openai", messages |-> Pipeline!OpenAi(Pipeline!Sanitized(ms))]
  BY DEF Pipeline!Send
<1>5. Sound(ms) /\ Complete(ms)
  <2>1. CASE requests = 0
    <3>1. ms \in Pipeline!Enforced(Pipeline!Sanitized(messages))
      BY <1>4, <2>1 DEF Pipeline!Prepared, Pipeline!Opened
    <3>2. Answerable(messages)
      BY <1>1, <1>2, <2>1, FirstAnswerable
    <3>3. Sound(Pipeline!Sanitized(messages))
      BY <1>2, <3>2, SanitizedIs
    <3> QED BY <1>2, <3>1, <3>3, EnforcedSound
  <2>2. CASE requests # 0
    <3>1. PICK u \in Pipeline!Summarised(messages) : ms \in Pipeline!Enforced(u)
      BY <1>4, <2>2 DEF Pipeline!Prepared
    <3>2. Sound(u)
      BY <1>2, SummarisedSound
    <3> QED BY <1>2, <3>1, <3>2, EnforcedSound
  <2> QED BY <2>1, <2>2
<1>6. PICK s : s = Pipeline!Sanitized(ms)
  OBVIOUS
<1>7. Sound(s) /\ Followed(s)
  BY <1>2, <1>5, <1>6, CompleteAnswerable, SanitizedIs
<1>8. PipeTypes'
  <2>1. requests + 1 \in Nat /\ requests + 1 # 0
    BY <1>2
  <2> QED BY <1>1, <1>2, <2>1 DEF PipeTypes
<1>9. Sound(messages)'
  <2>1. messages' = s
    BY <1>4, <1>6
  <2>2. Sound(s)'
    BY <1>1, <1>2, <1>3, <1>7, SoundStays
  <2> QED BY <2>1, <2>2
<1>10. FirstInv'
  BY <1>1 DEF FirstInv
<1>11. RequestInv'
  <2>1. CASE Pipeline!Anthropic
    <3>1. PICK o : o = Pipeline!ForAnthropic(s)
      OBVIOUS
    <3>2. request' = [api |-> "anthropic", messages |-> o]
      BY <1>4, <1>6, <2>1, <3>1
    <3>3. request'.api = "anthropic" /\ request'.messages = o
      BY <3>2
    <3>4. \A i \in DOMAIN o :
            /\ o[i].role = IF i % 2 = 1 THEN "user" ELSE "assistant"
            /\ Pipeline!OfKind(o[i], "use") # {} =>
                 i < Len(o) /\ Pipeline!OfKind(o[i], "use") \subseteq Pipeline!OfKind(o[i + 1], "result")
      BY <1>7, <3>1, AnthropicReplied
    <3>5. Pipeline!AnsweredForAnthropic'
      BY <3>3, <3>4 DEF Pipeline!AnsweredForAnthropic
    <3>6. Pipeline!PairedForOpenAi' /\ Pipeline!ResultsAreOwn'
      BY <3>3 DEF Pipeline!PairedForOpenAi, Pipeline!ResultsAreOwn
    <3> QED BY <3>3, <3>5, <3>6 DEF RequestInv, RequestsArePaired, Pipeline!RequestsArePaired
  <2>2. CASE ~ Pipeline!Anthropic
    <3>1. PICK o : o = Pipeline!OpenAi(s)
      OBVIOUS
    <3>2. request' = [api |-> "openai", messages |-> o]
      BY <1>4, <1>6, <2>2, <3>1
    <3>3. request'.api = "openai" /\ request'.messages = o
      BY <3>2
    <3>4. \A i \in DOMAIN o :
            /\ o[i].role = "tool" => \E a \in 1..i - 1 : Pipeline!MakesCalls(o[a]) /\ Pipeline!Adjacent(o, i, a)
            /\ Pipeline!MakesCalls(o[i]) =>
                 /\ Pipeline!EndOfResults(o, i) = i + Len(o[i].calls)
                 /\ \A k \in DOMAIN o[i].calls : o[i + k].answers = o[i].calls[k].id
            /\ \A k \in DOMAIN o[i].calls :
                 /\ o[i].calls[k].call \in 1..asked
                 /\ \/ o[i + k].text \in {o[i].calls[k].call, Pipeline!Compacted, Pipeline!ContextCompacted}
                    \/ o[i + k].text = Pipeline!Unavailable /\ o[i].calls[k].call \notin SavedResults
      BY <1>2, <1>7, <2>2, <3>1, OpenAiPaired
    <3>5. Pipeline!PairedForOpenAi'
      BY <3>3, <3>4 DEF Pipeline!PairedForOpenAi
    <3>6. Own'
      BY <1>3, <3>3, <3>4 DEF Own
    <3>7. Pipeline!AnsweredForAnthropic'
      BY <3>3 DEF Pipeline!AnsweredForAnthropic
    <3>8. RequestsArePaired'
      BY <3>5, <3>6, <3>7, OwnIsNext DEF RequestsArePaired, Pipeline!RequestsArePaired
    <3>9. \A i \in DOMAIN o : \A k \in DOMAIN o[i].calls : o[i].calls[k].call \in 1..asked'
      BY <1>1, <3>4
    <3> QED BY <3>3, <3>8, <3>9 DEF RequestInv
  <2> QED BY <2>1, <2>2
<1> QED BY <1>1, <1>3, <1>8, <1>9, <1>10, <1>11 DEF PipeInv

\* The calls of a reply, numbered on from those before.
Numbered(n) == [k \in 1..n |-> [id |-> <<asked + k>>, call |-> asked + k]]

\* The calls of a reply.
LEMMA NumberedIs ==
  ASSUME asked \in Nat, NEW n \in Nat
  PROVE  /\ Numbered(n) \in Seq(ToolCalls) /\ Len(Numbered(n)) = n /\ DOMAIN Numbered(n) = 1..n
         /\ \A k \in 1..n : Numbered(n)[k].id = <<asked + k>> /\ Numbered(n)[k].call = asked + k
<1>1. \A k \in 1..n : asked + k \in Nat
  OBVIOUS
<1>2. \A c \in Nat : <<c>> \in Seq(Nat)
  OBVIOUS
<1>3. \A k \in 1..n : [id |-> <<asked + k>>, call |-> asked + k] \in ToolCalls
  BY <1>1, <1>2 DEF ToolCalls
<1>4. Numbered(n) \in [1..n -> ToolCalls]
  BY <1>3 DEF Numbered
<1>5. \A k \in 1..n : Numbered(n)[k] = [id |-> <<asked + k>>, call |-> asked + k]
  BY DEF Numbered
<1> QED BY <1>4, <1>5

\* A message that makes them, in either format.
LEMMA CallingIsProper ==
  ASSUME RowInv, asked \in Nat, NEW n \in Nat, asked' = asked + n, SavedResults' = SavedResults,
         NEW m \in Messages, m.role = "assistant", m.answers = <<>>,
         \/ m.calls = Numbered(n) /\ m.blocks = <<>>
         \/ /\ m.calls = <<>>
            /\ m.blocks = [k \in 1..n |-> Pipeline!Block("use", <<asked + k>>, asked + k)]
  PROVE  /\ Proper(m)'
         /\ \A id : id \in MadeBy(m) <=> \E k \in 1..n : id = <<asked + k>>
<1>1. /\ DOMAIN Numbered(n) = 1..n /\ Len(Numbered(n)) = n
      /\ \A k \in 1..n : Numbered(n)[k].id = <<asked + k>> /\ Numbered(n)[k].call = asked + k
  BY NumberedIs
<1>2. SavedResults \subseteq 1..asked
  BY DEF SavedResults, RowInv
<1>3. \A k \in 1..n : asked + k \in 1..asked' /\ asked + k \notin SavedResults'
  BY <1>2
<1>4. /\ Pipeline!CallsOf(m) \in Seq(Seq(Nat))
      /\ Len(Pipeline!CallsOf(m)) = Len(m.calls) + Len(m.blocks)
      /\ \A j \in 1..Len(m.calls) : Pipeline!CallsOf(m)[j] = m.calls[j].id
      /\ \A j \in 1..Len(m.blocks) : Pipeline!CallsOf(m)[Len(m.calls) + j] = m.blocks[j].id
  BY MadeTypes
<1>5. PICK b : b = [k \in 1..n |-> Pipeline!Block("use", <<asked + k>>, asked + k)]
  OBVIOUS
<1>6. /\ DOMAIN b = 1..n /\ Len(b) = n
      /\ \A k \in 1..n : b[k].id = <<asked + k>> /\ b[k].kind = "use"
  BY <1>5 DEF Pipeline!Block
<1>7. Len(<<>>) = 0 /\ DOMAIN <<>> = {}
  OBVIOUS
<1>8. Len(Pipeline!CallsOf(m)) = n /\ \A k \in 1..n : Pipeline!CallsOf(m)[k] = <<asked + k>>
  <2>0. n + 0 = n /\ 0 + n = n /\ \A k \in 1..n : 0 + k = k
    OBVIOUS
  <2>1. CASE m.calls = Numbered(n) /\ m.blocks = <<>>
    <3>1. Len(m.calls) = n /\ Len(m.blocks) = 0 /\ \A k \in 1..n : m.calls[k].id = <<asked + k>>
      BY <1>1, <1>7, <2>1
    <3> QED BY ONLY <1>4, <2>0, <3>1, Zenon
  <2>2. CASE m.calls = <<>> /\ m.blocks = b
    <3>1. Len(m.calls) = 0 /\ Len(m.blocks) = n /\ \A k \in 1..n : m.blocks[k].id = <<asked + k>>
      BY <1>6, <1>7, <2>2
    <3>2. \A k \in 1..n : Pipeline!CallsOf(m)[0 + k] = <<asked + k>>
      BY ONLY <1>4, <3>1, Zenon
    <3> QED BY ONLY <1>4, <2>0, <3>1, <3>2, Zenon
  <2> QED BY <1>5, <2>1, <2>2
<1>9. DOMAIN Pipeline!CallsOf(m) = 1..n
  <2>1. DOMAIN Pipeline!CallsOf(m) = 1..Len(Pipeline!CallsOf(m))
    BY ONLY <1>4
  <2> QED BY ONLY <1>8, <2>1, Zenon
<1>10. \A j, k \in DOMAIN Pipeline!CallsOf(m) : Pipeline!CallsOf(m)[j] = Pipeline!CallsOf(m)[k] => j = k
  <2>1. \A j, k \in 1..n : <<asked + j>> = <<asked + k>> => j = k
    <3>1. \A x, y : <<x>> = <<y>> => x = y
      OBVIOUS
    <3>2. \A j, k \in 1..n : asked + j = asked + k => j = k
      OBVIOUS
    <3> QED BY <3>1, <3>2
  <2> QED BY <1>8, <1>9, <2>1
<1>11. ProperCalls(m)'
  <2>1. m.calls = <<>> \/ m.blocks = <<>>
    OBVIOUS
  <2>2. \A k \in DOMAIN m.calls : m.calls[k].call \in 1..asked' /\ m.calls[k].id = <<m.calls[k].call>>
    BY <1>1, <1>3, <1>7
  <2>3. \A k \in DOMAIN m.blocks : /\ m.blocks[k].kind = "use"
                                   /\ \E c \in 1..asked' : m.blocks[k].id = <<c>> /\ c \notin SavedResults'
    <3>1. \A k \in DOMAIN b : /\ b[k].kind = "use"
                             /\ \E c \in 1..asked' : b[k].id = <<c>> /\ c \notin SavedResults'
      BY ONLY <1>3, <1>6
    <3>2. m.blocks = <<>> \/ m.blocks = b
      BY <1>5
    <3> QED BY ONLY <1>7, <3>1, <3>2
  <2> QED BY <1>10, <2>1, <2>2, <2>3 DEF ProperCalls
<1>12. Proper(m)'
  BY <1>11 DEF Proper
<1>13. \A id : id \in MadeBy(m) <=> \E k \in 1..n : id = <<asked + k>>
  BY <1>8, <1>9 DEF MadeBy
<1> QED BY <1>12, <1>13

\* The message that makes them joins the others.
LEMMA CallerIs ==
  ASSUME asked \in Nat, NEW n \in Nat, NEW words \in Int
  PROVE  /\ LET m == Pipeline!AssistantRow(words, Numbered(n)) IN
            /\ m \in Messages /\ m.role = "assistant" /\ m.answers = <<>>
            /\ m.calls = Numbered(n) /\ m.blocks = <<>>
         /\ LET m == Pipeline!AssistantCalls(words, Numbered(n)) IN
            /\ m \in Messages /\ m.role = "assistant" /\ m.answers = <<>>
            /\ \/ m.calls = Numbered(n) /\ m.blocks = <<>>
               \/ /\ Pipeline!Anthropic /\ m.calls = <<>>
                  /\ m.blocks = [k \in 1..n |-> Pipeline!Block("use", <<asked + k>>, asked + k)]
<1>1. /\ Numbered(n) \in Seq(ToolCalls) /\ DOMAIN Numbered(n) = 1..n
      /\ \A k \in 1..n : Numbered(n)[k].id = <<asked + k>> /\ Numbered(n)[k].call = asked + k
  BY NumberedIs
<1>2. PICK b : b = [k \in 1..n |-> Pipeline!Block("use", <<asked + k>>, asked + k)]
  OBVIOUS
<1>3. b \in Seq(Blocks)
  <2>1. \A k \in 1..n : asked + k \in Nat
    OBVIOUS
  <2>2. \A c \in Nat : <<c>> \in Seq(Nat) /\ c \in Int
    OBVIOUS
  <2>3. \A k \in 1..n : Pipeline!Block("use", <<asked + k>>, asked + k) \in Blocks
    BY <2>1, <2>2, BlockIs
  <2>4. b \in [1..n -> Blocks]
    BY <1>2, <2>3
  <2> QED BY <2>4
<1>4. <<>> \in Seq(Nat) /\ <<>> \in Seq(ToolCalls) /\ <<>> \in Seq(Blocks)
  OBVIOUS
<1>5. PICK c : c = Numbered(n)
  OBVIOUS
<1>6. PICK p, q : /\ p = [role |-> "assistant", text |-> words, calls |-> c, blocks |-> <<>>, answers |-> <<>>]
                  /\ q = [role |-> "assistant", text |-> words, calls |-> <<>>, blocks |-> b, answers |-> <<>>]
  OBVIOUS
<1>7. p \in Messages /\ q \in Messages
  BY <1>1, <1>3, <1>4, <1>5, <1>6, MessageIs
<1>8. /\ p.role = "assistant" /\ p.answers = <<>> /\ p.calls = c /\ p.blocks = <<>>
      /\ q.role = "assistant" /\ q.answers = <<>> /\ q.calls = <<>> /\ q.blocks = b
  BY <1>6
<1>9. Pipeline!AssistantRow(words, c) = p
  BY <1>6 DEF Pipeline!AssistantRow, Pipeline!Says, Pipeline!NoId
<1>10. [k \in DOMAIN c |-> Pipeline!Block("use", c[k].id, c[k].call)] = b
  BY <1>1, <1>2, <1>5
<1>11. Pipeline!AssistantCalls(words, c) = IF Pipeline!Anthropic THEN q ELSE p
  BY <1>6, <1>10 DEF Pipeline!AssistantCalls, Pipeline!Says, Pipeline!NoId
<1> QED BY <1>2, <1>5, <1>7, <1>8, <1>9, <1>11

\* The model calls tools.
LEMMA CallKeeps ==
  ASSUME PipeInv, Pipeline!CallTools, FreshIds
  PROVE  PipeInv'
<1>1. pc = "reply" /\ pc' = "tools" /\ UNCHANGED <<model, boundary, request, turns, requests>>
  BY DEF Pipeline!CallTools, Pipeline!Goto
<1>2. PICK n, words, denied :
        /\ n \in 1..MaxCalls /\ words \in {Pipeline!Blank, Pipeline!Said}
        /\ asked' = asked + n
        /\ messages' = Append(messages, Pipeline!AssistantCalls(words, Numbered(n)))
        /\ chatRows' = Append(chatRows, Pipeline!AssistantRow(words, Numbered(n)))
        /\ left' = Pipeline!Keep(Numbered(n), denied) \o Pipeline!Drop(Numbered(n), denied)
  BY FreshIds DEF Pipeline!CallTools, Pipeline!Id, Numbered
<1>3. PipeTypes /\ RowInv /\ RequestInv /\ Sound(messages) /\ asked \in Nat /\ requests # 0
  <2>1. PipeTypes /\ RowInv /\ RequestInv /\ Sound(messages)
    BY DEF PipeInv
  <2>2. asked \in Nat /\ requests # 0
    BY <1>1, <2>1 DEF PipeTypes
  <2> QED BY <2>1, <2>2
<1>4. n \in Nat /\ words \in Int /\ asked' \in Nat /\ asked <= asked'
  <2>1. words \in Int
    BY <1>2 DEF Pipeline!Blank, Pipeline!Said
  <2> QED BY <1>2, <1>3, <2>1
<1>5. PICK m, row : m = Pipeline!AssistantCalls(words, Numbered(n)) /\ row = Pipeline!AssistantRow(words, Numbered(n))
  OBVIOUS
<1>6. /\ row \in Messages /\ row.role = "assistant" /\ row.answers = <<>> /\ row.calls = Numbered(n) /\ row.blocks = <<>>
      /\ m \in Messages /\ m.role = "assistant" /\ m.answers = <<>>
      /\ \/ m.calls = Numbered(n) /\ m.blocks = <<>>
         \/ /\ Pipeline!Anthropic /\ m.calls = <<>>
            /\ m.blocks = [k \in 1..n |-> Pipeline!Block("use", <<asked + k>>, asked + k)]
  BY <1>3, <1>4, <1>5, CallerIs
<1>7. \A c \in 1..asked : \A k \in 1..n : <<c>> # <<asked + k>>
  <2>1. \A c \in 1..asked : \A k \in 1..n : c # asked + k
    BY <1>3
  <2>2. \A x, y : <<x>> = <<y>> => x = y
    OBVIOUS
  <2> QED BY ONLY <2>1, <2>2
<1>8. RowInv' /\ SavedResults' = SavedResults
  <2>1. PICK t : t = <<row>>
    OBVIOUS
  <2>2. \A c : c \in SavedResults' <=> c \in SavedResults
    <3>1. chatRows \in Seq(Messages)
      BY <1>3 DEF RowInv, Sound
    <3>2. t \in Seq(Messages) /\ (\A i \in DOMAIN t : t[i] = row) /\ chatRows' = chatRows \o t
      BY <1>2, <1>5, <1>6, <2>1, <3>1
    <3> QED BY <1>6, <3>1, <3>2, SavedMore
  <2>3. SavedResults' = SavedResults
    <3>1. \A S, T : (\A c : c \in S <=> c \in T) => S = T
      OBVIOUS
    <3> QED BY ONLY <2>2, <3>1
  <2>4. Proper(row)' /\ \A id : id \in MadeBy(row) <=> \E k \in 1..n : id = <<asked + k>>
    BY <1>2, <1>3, <1>4, <1>6, <2>3, CallingIsProper
  <2>5. \A c \in 1..asked : <<c>> \notin MadeBy(row)
    BY <1>7, <2>4
  <2> QED BY <1>2, <1>3, <1>4, <1>5, <1>6, <2>4, <2>5, RowAdded
<1>9. Proper(m)' /\ \A id : id \in MadeBy(m) <=> \E k \in 1..n : id = <<asked + k>>
  BY <1>2, <1>3, <1>4, <1>6, <1>8, CallingIsProper
<1>10. \A c \in 1..asked : <<c>> \notin MadeBy(m)
  BY <1>7, <1>9
<1>11. PICK ms, s : ms = messages /\ s = messages'
  OBVIOUS
<1>12. /\ Sound(ms) /\ ms \in Seq(Messages) /\ DOMAIN ms = 1..Len(ms) /\ Len(ms) \in Nat
       /\ \A i \in DOMAIN ms : ms[i] \in Messages /\ Proper(ms[i])
  BY <1>3, <1>11 DEF Sound
<1>13. s = Append(ms, m)
  BY <1>2, <1>5, <1>11
<1>14. /\ s = ms \o <<m>> /\ \A i \in DOMAIN <<m>> : <<m>>[i] = m
       /\ DOMAIN s = 1..(Len(ms) + 1) /\ Len(s) = Len(ms) + 1
       /\ \A i \in DOMAIN ms : s[i] = ms[i]
       /\ s[Len(ms) + 1] = m
  BY <1>6, <1>12, <1>13
<1>15. Sound(messages)'
  <2>1. Sound(ms)'
    BY <1>3, <1>4, <1>8, <1>12, SoundStays
  <2>2. Sound(<<m>>)'
    BY <1>6, <1>9, SoundOneNext
  <2>3. \A i \in DOMAIN ms : \A id \in MadeBy(ms[i]) : id \notin MadeBy(m)
    <3>1. \A i \in DOMAIN ms : \A id \in MadeBy(ms[i]) : \E c \in 1..asked : id = <<c>>
      BY <1>12, MadeIds
    <3> QED BY <1>10, <3>1
  <2>4. Foreign(ms, <<m>>)
    BY <1>14, <2>3 DEF Foreign
  <2>5. Sound(ms \o <<m>>)'
    BY ONLY <2>1, <2>2, <2>4, SoundJoinNext
  <2> QED BY <1>11, <1>14, <2>5
<1>16. PipeTypes' /\ \A k \in DOMAIN left' : \E j \in 1..n : left'[k] = Numbered(n)[j]
  <2>1. PICK f, d, all, rest : /\ all = Numbered(n) /\ f = Pipeline!Keep(all, denied)
                               /\ rest = DOMAIN all \ denied /\ d = Pipeline!Keep(all, rest)
    OBVIOUS
  <2>2. all \in Seq(ToolCalls) /\ DOMAIN all = 1..n
    BY <1>3, <1>4, <2>1, NumberedIs
  <2>3. /\ f \in Seq(ToolCalls) /\ \A p \in DOMAIN f : \E k \in DOMAIN all : f[p] = all[k]
        /\ d \in Seq(ToolCalls) /\ \A p \in DOMAIN d : \E k \in DOMAIN all : d[p] = all[k]
    <3>1. all \in Seq(ToolCalls)
      BY <2>2
    <3>2. f \in Seq(ToolCalls) /\ \A p \in DOMAIN f : \E k \in DOMAIN all : k \in denied /\ f[p] = all[k]
      BY ONLY <2>1, <3>1, KeepIs
    <3>3. d \in Seq(ToolCalls) /\ \A p \in DOMAIN d : \E k \in DOMAIN all : k \in rest /\ d[p] = all[k]
      <4>1. d = Pipeline!Keep(all, rest)
        BY <2>1
      <4> QED BY ONLY <3>1, <4>1, KeepIs
    <3> QED BY ONLY <3>2, <3>3
  <2>4. PICK l : l = f \o d
    OBVIOUS
  <2>5. left' = l
    BY <1>2, <2>1, <2>4 DEF Pipeline!Drop
  <2>6. l \in Seq(ToolCalls) /\ \A k \in DOMAIN l : \E j \in DOMAIN all : l[k] = all[j]
    <3>1. /\ l \in Seq(ToolCalls) /\ Len(l) = Len(f) + Len(d) /\ Len(f) \in Nat /\ Len(d) \in Nat
          /\ \A j \in 1..Len(f) : l[j] = f[j]
          /\ \A j \in 1..Len(d) : l[Len(f) + j] = d[j]
      <4>1. f \in Seq(ToolCalls) /\ d \in Seq(ToolCalls)
        BY <2>3
      <4> QED BY ONLY <2>4, <4>1, JoinPlaces
    <3>2. DOMAIN f = 1..Len(f) /\ DOMAIN d = 1..Len(d)
      BY <2>3
    <3>3. DOMAIN l = 1..(Len(f) + Len(d))
      <4>1. DOMAIN l = 1..Len(l)
        BY ONLY <3>1
      <4> QED BY ONLY <3>1, <4>1
    <3>4. \A k \in 1..(Len(f) + Len(d)) : k \in 1..Len(f) \/ (k - Len(f) \in 1..Len(d) /\ k = Len(f) + (k - Len(f)))
      BY ONLY <3>1
    <3>5. \A k \in DOMAIN l : \/ k \in DOMAIN f /\ l[k] = f[k]
                              \/ k - Len(f) \in DOMAIN d /\ l[k] = d[k - Len(f)]
      BY ONLY <3>1, <3>2, <3>3, <3>4
    <3> QED BY <2>3, <3>1, <3>5
  <2>7. PipeTypes'
    BY <1>1, <1>3, <1>4, <2>5, <2>6 DEF PipeTypes
  <2> QED BY <2>1, <2>2, <2>5, <2>6, <2>7
<1>17. FirstInv'
  BY <1>1 DEF FirstInv
<1>18. RequestInv'
  BY <1>1, <1>3, <1>4, <1>8, RequestStays
<1>19. Running(Len(s))'
  <2>1. PICK a : a = Len(s)
    OBVIOUS
  <2>2. a \in DOMAIN s /\ s[a] = m /\ a + 1 .. Len(s) = {}
    BY <1>12, <1>14, <2>1
  <2>3. model # "claude" => m.blocks = <<>>
    BY <1>6 DEF Pipeline!Anthropic
  <2>4. \A j \in DOMAIN s : s[j].role = "tool" => j \in DOMAIN ms /\ s[j] = ms[j]
    <3>1. \A j \in 1..(Len(ms) + 1) : j \in 1..Len(ms) \/ j = Len(ms) + 1
      BY <1>12
    <3> QED BY <1>6, <1>12, <1>14, <3>1
  <2>5. \A j \in DOMAIN s : s[j].role = "tool" => s[j].answers \notin MadeBy(m)
    <3>1. \A j \in DOMAIN ms : ms[j].role = "tool" => \E c \in 1..asked : ms[j].answers = <<c>>
      BY <1>12 DEF Proper, ProperResult
    <3> QED BY <1>10, <2>4, <3>1
  <2>6. \A k \in DOMAIN left' : left'[k].id \in MadeBy(m) /\ left'[k].id = <<left'[k].call>>
    <3>1. \A j \in 1..n : Numbered(n)[j].id = <<asked + j>> /\ Numbered(n)[j].call = asked + j
      BY <1>3, <1>4, NumberedIs
    <3> TAKE k \in DOMAIN left'
    <3>2. PICK j \in 1..n : left'[k] = Numbered(n)[j]
      BY <1>16
    <3> QED BY <1>9, <3>1, <3>2
  <2>7. request.api = "openai" =>
          \A i \in DOMAIN request.messages : \A k \in DOMAIN request.messages[i].calls :
            <<request.messages[i].calls[k].call>> \notin MadeBy(m)
    BY <1>3, <1>10 DEF RequestInv
  <2>8. Running(a)'
    BY <1>1, <1>6, <1>11, <2>2, <2>3, <2>5, <2>6, <2>7 DEF Running
  <2> QED BY <2>1, <2>8
<1>20. Len(s) \in DOMAIN messages'
  BY <1>11, <1>12, <1>14
<1> QED BY <1>1, <1>8, <1>15, <1>16, <1>17, <1>18, <1>19, <1>20 DEF PipeInv

\* The result of a call.
LEMMA ResultIs ==
  ASSUME asked \in Nat, NEW c \in ToolCalls, c.call \in 1..asked, c.id = <<c.call>>
  PROVE  LET m == Pipeline!Result(c) IN
         /\ m \in Messages /\ Proper(m) /\ MadeBy(m) = {} /\ m.calls = <<>> /\ m.role \in {"user", "tool"}
         /\ m.role = "tool" => model # "claude" /\ m.answers = c.id /\ m.text = c.call
<1>1. c.call \in Nat /\ c.call \in Int /\ c.id \in Seq(Nat)
  BY DEF ToolCalls
<1>2. CASE model = "claude"
  <2>1. PICK b : b = Pipeline!Block("result", c.id, c.call)
    OBVIOUS
  <2>2. b \in Blocks /\ b.kind = "result"
    <3>1. PICK i, n : i = c.id /\ n = c.call
      OBVIOUS
    <3>2. i \in Seq(Nat) /\ n \in Int /\ b = Pipeline!Block("result", i, n)
      BY <1>1, <2>1, <3>1
    <3> QED BY ONLY <3>2, BlockIs
  <2>3. PICK m : m = [role |-> "user", text |-> Pipeline!Blank, calls |-> <<>>, blocks |-> <<b>>, answers |-> <<>>]
    OBVIOUS
  <2>4. Pipeline!Result(c) = m
    BY <1>2, <2>1, <2>3 DEF Pipeline!Result, Pipeline!Anthropic, Pipeline!Says, Pipeline!NoId
  <2>5. <<b>> \in Seq(Blocks) /\ \A k \in DOMAIN <<b>> : <<b>>[k] = b
    BY <2>2
  <2>6. m \in Messages
    <3>1. <<>> \in Seq(Nat) /\ <<>> \in Seq(ToolCalls) /\ Pipeline!Blank \in Int
      BY DEF Pipeline!Blank
    <3> QED BY <2>3, <2>5, <3>1, MessageIs
  <2>7. m.role = "user" /\ m.calls = <<>> /\ m.blocks = <<b>> /\ m.answers = <<>>
    BY <2>3
  <2>8. Proper(m) /\ MadeBy(m) = {}
    BY <2>2, <2>5, <2>7 DEF Proper, MadeBy
  <2> QED BY <2>4, <2>6, <2>7, <2>8
<1>3. CASE model # "claude" /\ model = "qwen"
  <2>1. Pipeline!Result(c) = Pipeline!Says("user", c.call)
    BY <1>3 DEF Pipeline!Result, Pipeline!Anthropic
  <2> QED BY <1>1, <2>1, SaysIs
<1>4. CASE model # "claude" /\ model # "qwen"
  <2>1. Pipeline!Result(c) = Pipeline!ToolResult(<<c.call>>, c.call)
    BY <1>4 DEF Pipeline!Result, Pipeline!Anthropic
  <2>2. PICK n, m : n = c.call /\ m = Pipeline!ToolResult(<<n>>, n)
    OBVIOUS
  <2>3. n \in 1..asked /\ n \in Nat /\ n \in Int
    BY <1>1, <2>2
  <2>4. m \in Messages /\ m.role = "tool" /\ m.answers = <<n>> /\ m.text = n /\ m.calls = <<>> /\ MadeBy(m) = {}
    BY <2>2, <2>3, ToolIs
  <2>5. Proper(m)
    BY <2>2, <2>3, ToolProper
  <2> QED BY <1>4, <2>1, <2>2, <2>4, <2>5
<1> QED BY <1>2, <1>3, <1>4

\* A tool runs.
LEMMA RunKeeps ==
  ASSUME PipeInv, Pipeline!RunTool
  PROVE  PipeInv'
<1>1. /\ pc = "tools" /\ left # <<>> /\ left' = Tail(left)
      /\ UNCHANGED <<pc, model, chatRows, boundary, request, turns, requests, asked>>
  BY DEF Pipeline!RunTool
<1>2. PICK after :
        /\ \/ after = <<>>
           \/ after = <<Pipeline!Says("user", Pipeline!Hint)>>
           \/ after = <<Pipeline!Says("user", Pipeline!Said)>>
        /\ messages' = messages \o <<Pipeline!Result(Head(left))>> \o after
  BY DEF Pipeline!RunTool
<1>3. /\ PipeTypes /\ RowInv /\ RequestInv /\ Sound(messages) /\ asked \in Nat /\ asked <= asked'
      /\ left \in Seq(ToolCalls) /\ \E a \in DOMAIN messages : Running(a)
  <2>1. PipeTypes /\ RowInv /\ RequestInv /\ Sound(messages) /\ \E a \in DOMAIN messages : Running(a)
    BY <1>1 DEF PipeInv
  <2>2. asked \in Nat /\ left \in Seq(ToolCalls)
    BY <2>1 DEF PipeTypes
  <2> QED BY <1>1, <2>1, <2>2
<1>4. PICK a \in DOMAIN messages : Running(a)
  BY <1>3
<1>5. PICK ms, s, c, t : ms = messages /\ s = messages' /\ c = Head(left) /\ t = Tail(left)
  OBVIOUS
<1>6. /\ c \in ToolCalls /\ c = left[1] /\ 1 \in DOMAIN left
      /\ t \in Seq(ToolCalls) /\ \A k \in DOMAIN t : k + 1 \in DOMAIN left /\ t[k] = left[k + 1]
  BY <1>1, <1>3, <1>5
<1>7. /\ Sound(ms) /\ ms \in Seq(Messages) /\ DOMAIN ms = 1..Len(ms) /\ Len(ms) \in Nat
      /\ \A i \in DOMAIN ms : ms[i] \in Messages /\ Proper(ms[i])
  BY <1>3, <1>5 DEF Sound
<1>8. c.id \in MadeBy(ms[a]) /\ c.id = <<c.call>> /\ c.call \in 1..asked
  <2>1. c.id \in MadeBy(ms[a]) /\ c.id = <<c.call>>
    BY <1>4, <1>5, <1>6 DEF Running
  <2>2. PICK n \in 1..asked : c.id = <<n>>
    BY <1>4, <1>5, <1>7, <2>1, MadeIds
  <2>3. \A x, y : <<x>> = <<y>> => x = y
    OBVIOUS
  <2>4. c.call = n
    BY ONLY <2>1, <2>2, <2>3
  <2> QED BY <2>1, <2>2, <2>4
<1>9. PICK x : x = Pipeline!Result(c)
  OBVIOUS
<1>10. /\ x \in Messages /\ Proper(x) /\ MadeBy(x) = {} /\ x.calls = <<>> /\ x.role \in {"user", "tool"}
       /\ x.role = "tool" => model # "claude" /\ x.answers = c.id /\ x.text = c.call
  BY <1>3, <1>6, <1>8, <1>9, ResultIs
<1>11. Silent(<<x>>) /\ \A i \in DOMAIN <<x>> : <<x>>[i] = x
  <2>1. Sound(<<x>>) /\ \A i \in DOMAIN <<x>> : <<x>>[i] = x
    BY <1>10, SoundOne
  <2> QED BY <1>10, <2>1 DEF Silent
<1>12. Silent(after) /\ after \in Seq(Messages) /\ \A i \in DOMAIN after : after[i].role = "user"
  <2>1. CASE after = <<>>
    <3>1. DOMAIN <<>> = {} /\ Sound(<<>>) /\ <<>> \in Seq(Messages)
      BY SoundNone
    <3> QED BY <2>1, <3>1 DEF Silent
  <2>2. CASE after # <<>>
    <3>1. PICK word : word \in {Pipeline!Hint, Pipeline!Said} /\ after = <<Pipeline!Says("user", word)>>
      BY <1>2, <2>2
    <3>2. word \in Int
      BY <3>1 DEF Pipeline!Hint, Pipeline!Said
    <3>3. Silent(after)
      BY <3>1, <3>2, SilentSays
    <3>4. PICK m : m = Pipeline!Says("user", word)
      OBVIOUS
    <3>5. m.role = "user"
      BY <3>2, <3>4, SaysIs
    <3>6. \A i \in DOMAIN <<m>> : <<m>>[i] = m
      OBVIOUS
    <3> QED BY <3>1, <3>3, <3>4, <3>5, <3>6 DEF Silent, Sound
  <2> QED BY <2>1, <2>2
<1>13. PICK u : u = ms \o <<x>>
  OBVIOUS
<1>14. s = u \o after
  BY <1>2, <1>5, <1>9, <1>13
<1>15. Sound(u) /\ Sound(s)
  BY <1>7, <1>11, <1>12, <1>13, <1>14, SilentJoins
<1>16. /\ DOMAIN u = 1..(Len(ms) + 1) /\ Len(u) = Len(ms) + 1 /\ u \in Seq(Messages)
       /\ \A i \in DOMAIN ms : u[i] = ms[i]
       /\ u[Len(ms) + 1] = x
  <2>1. u = Append(ms, x)
    BY <1>7, <1>10, <1>13
  <2> QED BY <1>7, <1>10, <2>1
<1>17. /\ \A i \in DOMAIN u : i \in DOMAIN s /\ s[i] = u[i]
       /\ \A i \in DOMAIN s : (i \in DOMAIN u /\ s[i] = u[i]) \/ (i \notin DOMAIN u /\ s[i].role = "user")
  <2>1. /\ s \in Seq(Messages) /\ Len(s) = Len(u) + Len(after) /\ Len(u) \in Nat /\ Len(after) \in Nat
        /\ \A j \in 1..Len(u) : s[j] = u[j]
        /\ \A j \in 1..Len(after) : s[Len(u) + j] = after[j]
    <3>1. u \in Seq(Messages) /\ after \in Seq(Messages)
      BY <1>12, <1>16
    <3> QED BY ONLY <1>14, <3>1, JoinPlaces
  <2>2. DOMAIN u = 1..Len(u) /\ DOMAIN after = 1..Len(after)
    BY <1>12, <1>16
  <2>3. DOMAIN s = 1..(Len(u) + Len(after))
    <3>1. DOMAIN s = 1..Len(s)
      BY ONLY <2>1
    <3> QED BY ONLY <2>1, <3>1
  <2>4. \A k \in 1..(Len(u) + Len(after)) :
          k \in 1..Len(u) \/ (k \notin 1..Len(u) /\ k - Len(u) \in 1..Len(after) /\ k = Len(u) + (k - Len(u)))
    BY ONLY <2>1
  <2>5. \A k \in DOMAIN s : \/ k \in DOMAIN u /\ s[k] = u[k]
                            \/ k \notin DOMAIN u /\ k - Len(u) \in DOMAIN after /\ s[k] = after[k - Len(u)]
    BY ONLY <2>1, <2>2, <2>3, <2>4
  <2>6. \A i \in DOMAIN u : i \in DOMAIN s /\ s[i] = u[i]
    BY ONLY <2>1, <2>2, <2>3, InFirst
  <2> QED BY <1>12, <2>5, <2>6
<1>18. \A i \in DOMAIN ms : i \in DOMAIN u /\ i \in DOMAIN s /\ s[i] = ms[i]
  <2>1. \A i \in 1..Len(ms) : i \in 1..(Len(ms) + 1)
    BY <1>7
  <2> QED BY <1>7, <1>16, <1>17, <2>1
<1>19. \A i \in DOMAIN s : \/ i \in DOMAIN ms /\ s[i] = ms[i]
                           \/ i \notin DOMAIN ms /\ (s[i] = x \/ s[i].role = "user")
  <2>1. \A i \in 1..(Len(ms) + 1) : i \in 1..Len(ms) \/ (i = Len(ms) + 1 /\ i \notin 1..Len(ms))
    BY <1>7
  <2>2. \A i \in DOMAIN u : i \in DOMAIN ms \/ (i \notin DOMAIN ms /\ u[i] = x)
    BY <1>7, <1>16, <2>1
  <2> QED BY <1>17, <1>18, <2>2
<1>20. RowInv' /\ SavedResults' = SavedResults
  BY <1>1, <1>3, RowsKept
<1>21. Sound(messages)'
  <2>1. Sound(s)'
    BY <1>1, <1>3, <1>15, <1>20, SoundStays
  <2> QED BY <1>5, <2>1
<1>22. PipeTypes'
  BY <1>1, <1>3, <1>5, <1>6 DEF PipeTypes
<1>23. FirstInv'
  BY <1>1 DEF FirstInv
<1>24. RequestInv'
  BY <1>1, <1>3, <1>20, RequestStays
<1>25. Running(a)'
  <2>1. a \in DOMAIN s /\ s[a] = ms[a] /\ s[a].role = "assistant" /\ (model # "claude" => s[a].blocks = <<>>)
    BY <1>4, <1>5, <1>18 DEF Running
  <2>2. \A j \in a + 1 .. Len(s) :
          /\ s[j].role \in {"user", "tool"}
          /\ s[j].role = "tool" => model # "claude" /\ s[j].answers \in MadeBy(s[a]) /\ s[j].answers = <<s[j].text>>
    <3> TAKE j \in a + 1 .. Len(s)
    <3>1. j \in DOMAIN s /\ (j \in DOMAIN ms => j \in a + 1 .. Len(ms))
      <4>1. DOMAIN s = 1..Len(s) /\ Len(s) \in Nat /\ a \in Nat
        BY <1>5, <1>7, <1>15 DEF Sound
      <4> QED BY <1>7, <4>1
    <3>2. CASE j \in DOMAIN ms /\ s[j] = ms[j]
      BY <1>4, <1>5, <2>1, <3>1, <3>2 DEF Running
    <3>3. CASE s[j] = x
      BY <1>8, <1>10, <2>1, <3>3
    <3>4. CASE s[j].role = "user"
      BY <3>4
    <3> QED BY <1>19, <3>1, <3>2, <3>3, <3>4
  <2>3. \A j \in DOMAIN s : s[j].role = "tool" /\ s[j].text = Pipeline!Unavailable => s[j].answers \notin MadeBy(s[a])
    <3> TAKE j \in DOMAIN s
    <3>1. CASE j \in DOMAIN ms /\ s[j] = ms[j]
      BY <1>4, <1>5, <2>1, <3>1 DEF Running
    <3>2. CASE s[j] = x
      <4>1. x.role = "tool" => x.text # Pipeline!Unavailable
        BY <1>8, <1>10 DEF Pipeline!Unavailable
      <4> QED BY <3>2, <4>1
    <3>3. CASE s[j].role = "user"
      BY <3>3
    <3> QED BY <1>19, <3>1, <3>2, <3>3
  <2>4. \A k \in DOMAIN t : t[k].id \in MadeBy(s[a]) /\ t[k].id = <<t[k].call>>
    <3> TAKE k \in DOMAIN t
    <3>1. k + 1 \in DOMAIN left /\ t[k] = left[k + 1]
      BY <1>6
    <3> QED BY <1>4, <1>5, <2>1, <3>1 DEF Running
  <2>5. request.api = "openai" =>
          \A i \in DOMAIN request.messages : \A k \in DOMAIN request.messages[i].calls :
            <<request.messages[i].calls[k].call>> \notin MadeBy(s[a])
    BY <1>4, <1>5, <2>1 DEF Running
  <2> QED BY <1>1, <1>5, <2>1, <2>2, <2>3, <2>4, <2>5 DEF Running
<1>26. a \in DOMAIN messages'
  BY <1>4, <1>5, <1>18
<1> QED BY <1>1, <1>20, <1>21, <1>22, <1>23, <1>24, <1>25, <1>26 DEF PipeInv

\* What a batch saves is of the messages since the last that made calls.
LEMMA UnsavedIs ==
  ASSUME Sound(messages), NEW a \in DOMAIN messages, Running(a)
  PROVE  /\ Pipeline!Unsaved \in Seq(Messages)
         /\ \A p \in DOMAIN Pipeline!Unsaved : \E j \in a + 1 .. Len(messages) : Pipeline!Unsaved[p] = messages[j]
<1>1. PICK ms : ms = messages
  OBVIOUS
<1>2. ms \in Seq(Messages) /\ DOMAIN ms = 1..Len(ms) /\ Len(ms) \in Nat /\ a \in 1..Len(ms)
  BY <1>1 DEF Sound
<1>3. PICK I : I = {i \in 1..Len(ms) : ms[i].role = "assistant"}
  OBVIOUS
<1>4. a \in I /\ \A i \in I : i <= a
  <2>1. a \in I /\ \A i \in a + 1 .. Len(ms) : ms[i].role # "assistant"
    BY <1>1, <1>2, <1>3 DEF Running
  <2>2. \A i \in 1..Len(ms) : i <= a \/ i \in a + 1 .. Len(ms)
    BY <1>2
  <2> QED BY <1>3, <2>1, <2>2
<1>5. Pipeline!Max(I) = a
  <2>1. I \in SUBSET (0..Len(ms)) /\ I # {}
    BY <1>2, <1>3, <1>4
  <2>2. Pipeline!Max(I) \in I /\ \A y \in I : y <= Pipeline!Max(I)
    BY <1>2, <2>1, MaxIs
  <2>3. \A x, y \in 1..Len(ms) : x <= y /\ y <= x => x = y
    BY <1>2
  <2> QED BY <1>2, <1>3, <1>4, <2>2, <2>3
<1>6. PICK since : since = Pipeline!SelectLastInSeq(messages, LAMBDA m : m.role = "assistant") + 1
  OBVIOUS
<1>7. since = a + 1
  BY <1>1, <1>3, <1>4, <1>5, <1>6 DEF Pipeline!SelectLastInSeq
<1>8. PICK late : late = SubSeq(messages, since, Len(messages))
  OBVIOUS
<1>9. late \in Seq(Messages) /\ \A k \in DOMAIN late : \E j \in a + 1 .. Len(messages) : late[k] = messages[j]
  <2>1. /\ SubSeq(ms, a + 1, Len(ms)) \in Seq(Messages)
        /\ \A k \in DOMAIN SubSeq(ms, a + 1, Len(ms)) :
             a + k \in a + 1 .. Len(ms) /\ SubSeq(ms, a + 1, Len(ms))[k] = ms[a + k]
    BY ONLY <1>2
  <2> QED BY <1>1, <1>7, <1>8, <2>1
<1>10. PICK P : P = DOMAIN late \ {k \in DOMAIN late : late[k].text = Pipeline!Hint}
  OBVIOUS
<1>11. Pipeline!Unsaved = Pipeline!Keep(late, P)
  BY <1>6, <1>8, <1>10 DEF Pipeline!Unsaved, Pipeline!Drop
<1>12. /\ Pipeline!Keep(late, P) \in Seq(Messages)
       /\ \A p \in DOMAIN Pipeline!Keep(late, P) : \E k \in DOMAIN late : k \in P /\ Pipeline!Keep(late, P)[p] = late[k]
  <2>1. late \in Seq(Messages)
    BY <1>9
  <2> QED BY ONLY <2>1, KeepIs
<1> QED BY <1>9, <1>11, <1>12

\* What of a result is saved.
LEMMA StoredIs ==
  ASSUME NEW m \in Messages, Proper(m), m.role \in {"user", "tool"}
  PROVE  LET s == Pipeline!Stored(m) IN
         /\ s \in Messages /\ Proper(s) /\ MadeBy(s) = {} /\ s.calls = <<>>
         /\ s.role = m.role /\ s.text = m.text /\ s.answers = m.answers
<1>1. PICK bs : bs = [k \in DOMAIN m.blocks |-> [m.blocks[k] EXCEPT !.text = Pipeline!Blank]]
  OBVIOUS
<1>2. PICK s : s = Pipeline!Stored(m)
  OBVIOUS
<1>3. s = [m EXCEPT !.blocks = bs]
  BY <1>1, <1>2 DEF Pipeline!Stored
<1>4. m.blocks \in Seq(Blocks)
  BY DEF Messages
<1>5. /\ bs \in Seq(Blocks) /\ DOMAIN bs = DOMAIN m.blocks
      /\ \A k \in DOMAIN bs : bs[k].kind = m.blocks[k].kind
  <2>1. \A b \in Blocks : [b EXCEPT !.text = Pipeline!Blank] \in Blocks
                          /\ [b EXCEPT !.text = Pipeline!Blank].kind = b.kind
    BY DEF Blocks, Pipeline!Blank
  <2>2. \A k \in DOMAIN m.blocks : m.blocks[k] \in Blocks
    BY <1>4
  <2>3. DOMAIN bs = DOMAIN m.blocks /\ \A k \in DOMAIN bs : bs[k] \in Blocks /\ bs[k].kind = m.blocks[k].kind
    BY <1>1, <2>1, <2>2
  <2>4. DOMAIN m.blocks = 1..Len(m.blocks) /\ Len(m.blocks) \in Nat
    BY <1>4
  <2>5. bs \in [1..Len(m.blocks) -> Blocks]
    BY <1>1, <2>3, <2>4
  <2> QED BY <2>3, <2>4, <2>5
<1>6. s \in Messages /\ s.role = m.role /\ s.text = m.text /\ s.answers = m.answers /\ s.calls = m.calls /\ s.blocks = bs
  BY <1>3, <1>5 DEF Messages
<1>7. m.calls = <<>>
  BY DEF Proper, ProperResult
<1>8. Proper(s)
  <2>1. CASE m.role = "user"
    BY <1>5, <1>6, <1>7, <2>1 DEF Proper
  <2>2. CASE m.role = "tool"
    <3>1. ProperResult(m) /\ m.blocks = <<>>
      BY <2>2 DEF Proper, ProperResult
    <3>2. bs = <<>>
      BY <1>5, <3>1
    <3>3. ProperResult(s)
      BY <1>6, <1>7, <3>1, <3>2 DEF ProperResult
    <3> QED BY <1>6, <1>7, <2>2, <3>2, <3>3 DEF Proper
  <2> QED BY <2>1, <2>2
<1>9. MadeBy(s) = {}
  BY <1>6 DEF MadeBy
<1> QED BY <1>2, <1>6, <1>7, <1>8, <1>9

\* The results are saved.
LEMMA BatchKeeps ==
  ASSUME PipeInv, Pipeline!EndBatch
  PROVE  PipeInv'
<1>1. /\ pc = "tools" /\ pc' = "send" /\ left = <<>>
      /\ chatRows' = chatRows \o [k \in DOMAIN Pipeline!Unsaved |-> Pipeline!Stored(Pipeline!Unsaved[k])]
      /\ UNCHANGED <<model, boundary, messages, request, left, turns, requests, asked>>
  BY DEF Pipeline!EndBatch, Pipeline!Goto
<1>2. /\ PipeTypes /\ RowInv /\ RequestInv /\ Sound(messages) /\ asked \in Nat /\ asked' \in Nat /\ asked <= asked'
      /\ requests # 0 /\ \E a \in DOMAIN messages : Running(a)
  <2>1. PipeTypes /\ RowInv /\ RequestInv /\ Sound(messages) /\ \E a \in DOMAIN messages : Running(a)
    BY <1>1 DEF PipeInv
  <2>2. asked \in Nat /\ requests # 0
    BY <1>1, <2>1 DEF PipeTypes
  <2> QED BY <1>1, <2>1, <2>2
<1>3. PICK a \in DOMAIN messages : Running(a)
  BY <1>2
<1>4. PICK ms, r, u, w, t :
        /\ ms = messages /\ r = chatRows /\ u = chatRows' /\ w = Pipeline!Unsaved
        /\ t = [k \in DOMAIN w |-> Pipeline!Stored(w[k])]
  OBVIOUS
<1>5. /\ Sound(ms) /\ ms \in Seq(Messages) /\ Apart(ms) /\ a \in DOMAIN ms
      /\ DOMAIN ms = 1..Len(ms) /\ Len(ms) \in Nat
      /\ \A i \in DOMAIN ms : ms[i] \in Messages /\ Proper(ms[i])
  BY <1>2, <1>3, <1>4 DEF Sound
<1>6. w \in Seq(Messages) /\ \A p \in DOMAIN w : \E j \in a + 1 .. Len(ms) : w[p] = ms[j]
  BY <1>2, <1>3, <1>4, UnsavedIs
<1>7. \A p \in DOMAIN w :
        /\ w[p] \in Messages /\ Proper(w[p]) /\ w[p].role \in {"user", "tool"}
        /\ w[p].role = "tool" => model # "claude" /\ w[p].answers \in MadeBy(ms[a]) /\ w[p].answers = <<w[p].text>>
  <2> TAKE p \in DOMAIN w
  <2>1. PICK j \in a + 1 .. Len(ms) : w[p] = ms[j]
    BY <1>6
  <2>2. j \in DOMAIN ms
    BY <1>5
  <2> QED BY <1>3, <1>4, <1>5, <2>1, <2>2 DEF Running
<1>8. \A p \in DOMAIN t :
        /\ t[p] \in Messages /\ Proper(t[p]) /\ MadeBy(t[p]) = {} /\ t[p].calls = <<>> /\ t[p].role \in {"user", "tool"}
        /\ t[p].role = "tool" => model # "claude" /\ t[p].answers \in MadeBy(ms[a]) /\ t[p].answers = <<t[p].text>>
  <2> TAKE p \in DOMAIN t
  <2>1. p \in DOMAIN w /\ t[p] = Pipeline!Stored(w[p])
    BY <1>4
  <2>2. /\ t[p] \in Messages /\ Proper(t[p]) /\ MadeBy(t[p]) = {} /\ t[p].calls = <<>>
        /\ t[p].role = w[p].role /\ t[p].text = w[p].text /\ t[p].answers = w[p].answers
    BY <1>7, <2>1, StoredIs
  <2> QED BY <1>7, <2>1, <2>2
<1>9. Silent(t) /\ t \in Seq(Messages) /\ DOMAIN t = 1..Len(t) /\ Len(t) \in Nat
  <2>1. DOMAIN t = 1..Len(w) /\ Len(w) \in Nat
    BY <1>4, <1>6
  <2>2. t \in [1..Len(w) -> Messages]
    BY <1>4, <1>8, <2>1
  <2>3. t \in Seq(Messages)
    BY <2>1, <2>2
  <2>4. Sound(t)
    BY <1>8, <2>3 DEF Sound, Apart
  <2> QED BY <1>8, <2>3, <2>4 DEF Silent
<1>10. Sound(r) /\ r \in Seq(Messages) /\ DOMAIN r = 1..Len(r) /\ Len(r) \in Nat /\ u = r \o t
  <2>1. Sound(r)
    BY <1>2, <1>4 DEF RowInv
  <2> QED BY <1>1, <1>4, <2>1 DEF Sound
<1>11. \A p \in DOMAIN t : t[p].role = "tool" => t[p].text \in 1..asked
  <2> TAKE p \in DOMAIN t
  <2> HAVE t[p].role = "tool"
  <2>1. t[p].answers \in MadeBy(ms[a]) /\ t[p].answers = <<t[p].text>>
    BY <1>8
  <2>2. PICK n \in 1..asked : t[p].answers = <<n>>
    BY <1>5, <2>1, MadeIds
  <2>3. \A x, y : <<x>> = <<y>> => x = y
    OBVIOUS
  <2>4. t[p].text = n
    BY ONLY <2>1, <2>2, <2>3
  <2> QED BY <2>4
<1>12. \A c \in SavedResults' : c \in SavedResults \/ (model # "claude" /\ <<c>> \in MadeBy(ms[a]))
  <2> TAKE c \in SavedResults'
  <2>1. c \in SavedResults \/ \E i \in DOMAIN t : t[i].role = "tool" /\ c = t[i].text
    <3>1. chatRows \in Seq(Messages) /\ chatRows' = chatRows \o t /\ t \in Seq(Messages)
      BY <1>4, <1>9, <1>10
    <3> QED BY <3>1, SavedMore
  <2> QED BY <1>8, <2>1
<1>13. /\ DOMAIN u = 1..(Len(r) + Len(t))
       /\ \A i \in DOMAIN u : \/ i \in DOMAIN r /\ u[i] = r[i]
                              \/ Len(r) < i /\ i - Len(r) \in DOMAIN t /\ u[i] = t[i - Len(r)]
  <2>1. /\ u \in Seq(Messages) /\ Len(u) = Len(r) + Len(t) /\ Len(r) \in Nat /\ Len(t) \in Nat
        /\ \A j \in 1..Len(r) : u[j] = r[j]
        /\ \A j \in 1..Len(t) : u[Len(r) + j] = t[j]
    <3>1. r \in Seq(Messages) /\ t \in Seq(Messages)
      BY <1>9, <1>10
    <3>2. u = r \o t
      BY <1>10
    <3> QED BY ONLY <3>1, <3>2, JoinPlaces
  <2>2. DOMAIN u = 1..Len(u)
    BY ONLY <2>1
  <2>3. DOMAIN u = 1..(Len(r) + Len(t))
    BY ONLY <2>1, <2>2
  <2>4. \A k \in 1..(Len(r) + Len(t)) :
          k \in 1..Len(r) \/ (Len(r) < k /\ k - Len(r) \in 1..Len(t) /\ k = Len(r) + (k - Len(r)))
    BY ONLY <2>1
  <2>5. DOMAIN r = 1..Len(r) /\ DOMAIN t = 1..Len(t)
    BY <1>9, <1>10
  <2> QED BY ONLY <2>1, <2>3, <2>4, <2>5
<1>14. /\ \A i \in DOMAIN r :
            /\ r[i].role = "tool" => r[i].answers = <<r[i].text>> /\ r[i].text \in 1..asked
            /\ r[i].role = "assistant" => r[i].blocks = <<>>
       /\ \A i, b \in DOMAIN r : r[i].role = "tool" /\ r[i].answers \in MadeBy(r[b]) => b < i
  BY <1>2, <1>4 DEF RowInv
<1>15. \A i \in DOMAIN u :
         /\ u[i].role = "tool" => u[i].answers = <<u[i].text>> /\ u[i].text \in 1..asked
         /\ u[i].role = "assistant" => u[i].blocks = <<>>
  BY <1>8, <1>11, <1>13, <1>14
<1>16. \A i, b \in DOMAIN u : u[i].role = "tool" /\ u[i].answers \in MadeBy(u[b]) => b < i
  <2> TAKE i, b \in DOMAIN u
  <2> HAVE u[i].role = "tool" /\ u[i].answers \in MadeBy(u[b])
  <2>1. b \in DOMAIN r /\ u[b] = r[b]
    BY <1>8, <1>13
  <2>2. CASE i \in DOMAIN r /\ u[i] = r[i]
    BY <1>14, <2>1, <2>2
  <2>3. CASE Len(r) < i
    <3>1. b \in 1..Len(r) /\ i \in 1..(Len(r) + Len(t)) /\ Len(r) \in Nat /\ Len(t) \in Nat
      BY <1>9, <1>10, <1>13, <2>1
    <3> QED BY ONLY <2>3, <3>1
  <2> QED BY <1>13, <2>2, <2>3
<1>17. Sound(u)'
  <2>1. Sound(u)
    BY <1>9, <1>10, SilentJoins
  <2>2. \A c : \A i \in DOMAIN u : Spared(u[i], c)
    <3>1. \A n \in 1..asked : n # Pipeline!Unavailable
      BY <1>2 DEF Pipeline!Unavailable
    <3> QED BY <1>15, <3>1 DEF Spared
  <2> QED BY <1>2, <2>1, <2>2, SoundStays
<1>18. RowInv'
  <2>1. asked' = asked
    BY <1>1
  <2> QED BY <1>4, <1>15, <1>16, <1>17, <2>1 DEF RowInv
<1>19. Sound(messages)'
  <2>1. \A c \in SavedResults' : c \in SavedResults \/ \A i \in DOMAIN ms : Spared(ms[i], c)
    <3> TAKE c \in SavedResults'
    <3> SUFFICES ASSUME model # "claude", <<c>> \in MadeBy(ms[a]), NEW i \in DOMAIN ms PROVE Spared(ms[i], c)
      BY <1>12
    <3>1. ms[i].role = "tool" /\ ms[i].text = Pipeline!Unavailable => ms[i].answers # <<c>>
      BY <1>3, <1>4 DEF Running
    <3>2. ms[i].role = "assistant" => \A k \in DOMAIN ms[i].blocks : ms[i].blocks[k].id # <<c>>
      <4>1. CASE i = a
        BY <1>3, <1>4, <4>1 DEF Running
      <4>2. CASE i # a
        <5>1. <<c>> \notin MadeBy(ms[i])
          BY <1>5, <4>2 DEF Apart
        <5>2. ms[i].role = "assistant" => \A k \in DOMAIN ms[i].blocks : ms[i].blocks[k].id \in MadeBy(ms[i])
          BY <1>5, CallIsMade
        <5> QED BY <5>1, <5>2
      <4> QED BY <4>1, <4>2
    <3> QED BY <3>1, <3>2 DEF Spared
  <2>2. Sound(ms)'
    BY <1>2, <1>5, <2>1, SoundStays
  <2>3. ms = messages'
    BY <1>1, <1>4
  <2> QED BY <2>2, <2>3
<1>20. PipeTypes'
  BY <1>1, <1>2 DEF PipeTypes
<1>21. FirstInv'
  BY <1>1, <1>2 DEF FirstInv
<1>22. RequestInv'
  <2>1. \A c \in SavedResults' :
          \/ c \in SavedResults
          \/ request.api = "openai" =>
               \A i \in DOMAIN request.messages : \A k \in DOMAIN request.messages[i].calls :
                 request.messages[i].calls[k].call # c
    BY <1>3, <1>4, <1>12 DEF Running
  <2>2. request' = request
    BY <1>1
  <2> QED BY <1>2, <2>1, <2>2, RequestStays
<1> QED BY <1>1, <1>18, <1>19, <1>20, <1>21, <1>22 DEF PipeInv

\* Nothing happens.
LEMMA PipeStays ==
  ASSUME PipeInv, UNCHANGED Pipeline!vars
  PROVE  PipeInv'
<1>1. UNCHANGED <<pc, model, chatRows, boundary, messages, request, left, turns, requests, asked>>
  BY DEF Pipeline!vars
<1>2. PipeTypes /\ RowInv /\ RequestInv /\ asked \in Nat /\ asked' \in Nat /\ asked <= asked' /\ Sound(messages) /\ FirstInv
  <2>1. PipeTypes /\ RowInv /\ RequestInv /\ Sound(messages) /\ FirstInv
    BY DEF PipeInv
  <2>2. asked \in Nat
    BY <2>1 DEF PipeTypes
  <2> QED BY <1>1, <2>1, <2>2
<1>3. RowInv' /\ SavedResults' = SavedResults
  BY <1>1, <1>2, RowsKept
<1>4. PipeTypes'
  BY <1>1, <1>2 DEF PipeTypes
<1>5. Sound(messages)'
  <2>1. PICK ms : ms = messages /\ ms = messages'
    BY <1>1
  <2>2. Sound(ms)'
    BY <1>2, <1>3, <2>1, SoundStays
  <2> QED BY <2>1, <2>2
<1>6. FirstInv'
  BY <1>1, <1>2, <1>3 DEF FirstInv, Results
<1>7. RequestInv'
  BY <1>1, <1>2, <1>3, RequestStays
<1>8. pc' = "tools" => \E a \in DOMAIN messages' : Running(a)'
  <2> SUFFICES ASSUME pc = "tools" PROVE \E a \in DOMAIN messages' : Running(a)'
    BY <1>1
  <2>1. PICK a \in DOMAIN messages : Running(a)
    BY DEF PipeInv
  <2>2. Running(a)'
    BY <1>1, <2>1 DEF Running
  <2> QED BY <1>1, <2>1, <2>2
<1> QED BY <1>3, <1>4, <1>5, <1>6, <1>7, <1>8 DEF PipeInv

\* With ids of their own for the calls, every request is one that its provider
\* takes and shows the calls their own results, whatever the history has been
\* through.
THEOREM RequestsGoThrough == FreshIds /\ Pipeline!Spec => []RequestsArePaired
<1> SUFFICES ASSUME FreshIds PROVE Pipeline!Spec => []RequestsArePaired
  OBVIOUS
<1>1. Pipeline!Init => PipeInv
  BY PipeInit
<1>2. PipeInv /\ [Pipeline!Next]_(Pipeline!vars) => PipeInv'
  <2> SUFFICES ASSUME PipeInv, [Pipeline!Next]_(Pipeline!vars) PROVE PipeInv'
    OBVIOUS
  <2>1. HeadKept \in Nat /\ TailKept \in Nat /\ KeepTail \in Nat
    BY PipelineAssumption
  <2>2. ASSUME NEW m \in Models, Pipeline!BeginTurn(m) PROVE PipeInv'
    BY <2>2, BeginKeeps
  <2>3. CASE Pipeline!Send
    BY <2>1, <2>3, SendKeeps
  <2>4. CASE Pipeline!Answer
    BY <2>4, OverKeeps DEF Pipeline!Answer
  <2>5. CASE Pipeline!Fail
    BY <2>5, OverKeeps DEF Pipeline!Fail
  <2>6. CASE Pipeline!AskAgain
    BY <2>6, AskKeeps
  <2>7. CASE Pipeline!CallTools
    BY <2>7, CallKeeps
  <2>8. CASE Pipeline!RunTool
    BY <2>8, RunKeeps
  <2>9. CASE Pipeline!Cancel
    BY <2>9, OverKeeps DEF Pipeline!Cancel
  <2>10. CASE Pipeline!EndBatch
    BY <2>10, BatchKeeps
  <2>11. CASE Pipeline!UseUpRounds
    BY <2>11, OverKeeps DEF Pipeline!UseUpRounds
  <2>12. CASE Pipeline!Compact
    BY <2>1, <2>12, CompactKeeps
  <2>13. CASE UNCHANGED Pipeline!vars
    BY <2>13, PipeStays
  <2> QED BY <2>2, <2>3, <2>4, <2>5, <2>6, <2>7, <2>8, <2>9, <2>10, <2>11, <2>12, <2>13 DEF Pipeline!Next
<1>3. PipeInv => RequestsArePaired
  BY DEF PipeInv, RequestInv
<1> QED BY <1>1, <1>2, <1>3, PTL DEF Pipeline!Spec
=============================================================================
