-------------------------- MODULE AgentTurnProofs --------------------------
(***************************************************************************)
(* The two limits of AgentTurn that hold whatever is said: the budget that *)
(* both loops share, and what is still done after a cancellation.  Neither *)
(* is inductive alone; each gets the account of where in the turn the next *)
(* request or batch is still to come.  Then the rows of chat_messages,     *)
(* which follow the turn: the results of the batch being handled have      *)
(* their rows to come, those of earlier rounds have one each.              *)
(***************************************************************************)
EXTENDS AgentTurn, TLAPS, SequenceTheorems, WellFoundedInduction

-----------------------------------------------------------------------------
(* the shared budget                                                       *)

Budgets == [llm : 0..MaxLlmCalls, tools : Nat, spent : BOOLEAN]

\* Where a loop has made its forced answer, or will make none.
Concluded == {"forced", "returned", "done"}

BudgetInv ==
  /\ pc \in PC /\ loop \in {1, 2}
  /\ budget \in Budgets
  /\ sent \in [rounds : Nat, final : Nat]
  /\ sent.rounds + (IF pc = "preparing" THEN 1 ELSE 0) <= budget.llm
  /\ sent.final + (IF pc \in Concluded THEN 0 ELSE 1) <= loop

\* A turn starts with the whole budget and no request.
LEMMA BudgetInit == Init => BudgetInv
BY ConstantsOK DEF ConstantsOK, Init, BudgetInv, Budgets, PC, Concluded, FreshSent

\* Counting a reply's tokens deducts nothing.
LEMMA TokensDeductNothing ==
  ASSUME budget \in Budgets, CountTokens
  PROVE  budget' \in Budgets /\ budget'.llm = budget.llm
BY DEF CountTokens, Budgets

\* Each step of the turn that makes a request has one left for it.
LEMMA BudgetStep == BudgetInv /\ [Next]_vars => BudgetInv'
<1> SUFFICES ASSUME BudgetInv, [Next]_vars PROVE BudgetInv'
  OBVIOUS
<1> USE ConstantsOK DEF ConstantsOK, BudgetInv, PC, Concluded, effects, work, talk
<1>1. CASE StartRound
  BY <1>1 DEF StartRound, At, Budgets
<1>2. CASE StopRounds
  BY <1>2 DEF StopRounds, At, Budgets
<1>3. CASE SendRequest
  BY <1>3 DEF SendRequest, At, Budgets
<1>4. CASE ForceAnswer
  BY <1>4 DEF ForceAnswer, At
<1>5. CASE Repair
  BY <1>5 DEF Repair
<1>6. CASE RetryCall \/ TakeForced
  BY <1>6 DEF RetryCall, TakeForced, GoOn, At
<1>7. CASE ExceedTokens \/ Nudge \/ RetryEmpty \/ FinalAnswer \/ CallTools
  <2>1. CountTokens /\ pc = "calling" /\ pc' \in {"finale", "round", "batch"}
        /\ UNCHANGED <<loop, sent>>
    BY <1>7 DEF ExceedTokens, Nudge, RetryEmpty, FinalAnswer, CallTools, GoOn, At
  <2>. QED
    BY <2>1, TokensDeductNothing
<1>8. CASE FailCall \/ BeginTool \/ AbandonBatch \/ EndBatch \/ HasAnswer \/ EndTurn
           \/ SubagentSilent
  BY <1>8 DEF FailCall, BeginTool, AbandonBatch, EndBatch, HasAnswer, EndTurn,
              SubagentSilent, Move, At
<1>9. CASE RunParallel \/ RejectTool
  BY <1>9 DEF RunParallel, RejectTool, At
<1>10. CASE InstallPackage \/ FinishTool \/ ExhaustTools
  <2>1. /\ pc = "running" /\ pc' = "batch" /\ UNCHANGED <<loop, sent>>
        /\ budget' = budget \/ budget' = [budget EXCEPT !.tools = @ + 1]
    BY <1>10 DEF InstallPackage, FinishTool, ExhaustTools, RunTool, At
  <2>. QED
    BY <2>1 DEF Budgets
<1>11. CASE NextRound \/ YieldEnd \/ YieldWait
  BY <1>11 DEF NextRound, YieldEnd, YieldWait, Settle, At
<1>12. CASE SubagentAnswered \/ WaitTimesOut
  BY <1>12 DEF SubagentAnswered, WaitTimesOut, Resume, GoOn, At
<1>13. CASE Cancel \/ SubagentEnds
  BY <1>13 DEF Cancel, SubagentEnds, position
<1>14. CASE UNCHANGED vars
  BY <1>14 DEF vars, position
<1>. QED
  BY <1>1, <1>2, <1>3, <1>4, <1>5, <1>6, <1>7, <1>8, <1>9, <1>10, <1>11, <1>12,
     <1>13, <1>14 DEF Next, Turn, Waiting

\* The requests of the rounds never exceed the one budget that the user's
\* message and its repair share, and a loop forces at most one answer.
THEOREM OneBudgetForAll == Spec => []OneBudget
<1>1. BudgetInv => OneBudget
  BY ConstantsOK DEF ConstantsOK, BudgetInv, Budgets, OneBudget
<1>. QED
  BY <1>1, BudgetInit, BudgetStep, PTL DEF Spec

-----------------------------------------------------------------------------
(* cancellation                                                            *)

\* The requests a cancelled turn may have made where it is now: one that was
\* being prepared, and the forced answers of the loops that are over.
LateAllowed ==
  IF pc = "preparing" THEN 0
  ELSE IF pc \in {"round", "finale"} THEN loop
  ELSE IF pc \in Concluded THEN loop + 1
  ELSE 1

\* Where no tool of the current reply can have been run late.
NoneRun ==
  pc \in {"preparing", "calling", "running"} \/ (pc = "batch" /\ Parallel)

CancelInv ==
  /\ pc \in PC /\ loop \in {1, 2} /\ cancelled \in BOOLEAN
  /\ late \in [requests : Nat, batches : Nat]
  /\ ~cancelled => late.requests = 0 /\ late.batches = 0
  /\ late.requests <= LateAllowed
  /\ late.batches <= 1
  /\ NoneRun => late.batches = 0
  /\ pc = "running" => ~Parallel

\* A turn starts uncancelled.
LEMMA CancelInit == Init => CancelInv
<1> SUFFICES ASSUME Init PROVE CancelInv
  OBVIOUS
<1>1. /\ pc = "round" /\ loop = 1 /\ cancelled = FALSE
      /\ late = [requests |-> 0, batches |-> 0]
  BY DEF Init
<1>2. late \in [requests : Nat, batches : Nat] /\ late.requests = 0 /\ late.batches = 0
  BY <1>1
<1>3. cancelled \in BOOLEAN
  BY <1>1
<1>. QED
  BY <1>1, <1>2, <1>3 DEF CancelInv, LateAllowed, NoneRun, PC, Concluded

\* Which batches are parallel depends on the reply alone.
LEMMA ParallelStays == UNCHANGED reply => (Parallel' <=> Parallel)
BY DEF Parallel

\* After the cancellation no step starts a second request or batch.
LEMMA CancelStep == CancelInv /\ [Next]_vars => CancelInv'
<1> SUFFICES ASSUME CancelInv, [Next]_vars PROVE CancelInv'
  OBVIOUS
<1> USE DEF CancelInv, LateAllowed, NoneRun, PC, Concluded, effects, work, talk
<1>1. CASE StartRound
  BY <1>1 DEF StartRound, At
<1>2. CASE StopRounds
  BY <1>2 DEF StopRounds, At
<1>3. CASE SendRequest
  BY <1>3 DEF SendRequest, LateRequest, At
<1>4. CASE ForceAnswer
  BY <1>4 DEF ForceAnswer, LateRequest, At
<1>5. CASE Repair
  BY <1>5 DEF Repair
<1>6. CASE RetryCall \/ TakeForced \/ ExceedTokens \/ Nudge \/ RetryEmpty \/ FinalAnswer
  BY <1>6 DEF RetryCall, TakeForced, ExceedTokens, Nudge, RetryEmpty, FinalAnswer, GoOn, At
<1>7. CASE CallTools
  BY <1>7 DEF CallTools, At
<1>8. CASE FailCall \/ AbandonBatch \/ EndBatch \/ HasAnswer \/ EndTurn \/ SubagentSilent
  BY <1>8 DEF FailCall, AbandonBatch, EndBatch, HasAnswer, EndTurn, SubagentSilent, Move, At
<1>9. CASE BeginTool
  BY <1>9, ParallelStays DEF BeginTool, Move, At
<1>10. CASE RunParallel
  BY <1>10 DEF RunParallel, LateBatch, At
<1>11. CASE RejectTool
  BY <1>11 DEF RejectTool, At
<1>12. CASE InstallPackage \/ FinishTool \/ ExhaustTools
  <2>1. /\ pc = "running" /\ pc' = "batch" /\ LateBatch
        /\ UNCHANGED <<loop, cancelled, reply>>
    BY <1>12 DEF InstallPackage, FinishTool, ExhaustTools, RunTool, At
  <2>. QED
    BY <2>1, ParallelStays DEF LateBatch
<1>13. CASE NextRound \/ YieldEnd \/ YieldWait \/ SubagentAnswered \/ WaitTimesOut
  BY <1>13 DEF NextRound, YieldEnd, YieldWait, SubagentAnswered, WaitTimesOut, Settle,
               Resume, GoOn, At
<1>14. CASE Cancel \/ SubagentEnds
  BY <1>14, ParallelStays DEF Cancel, SubagentEnds, position
<1>15. CASE UNCHANGED vars
  BY <1>15, ParallelStays DEF vars, position
<1>. QED
  BY <1>1, <1>2, <1>3, <1>4, <1>5, <1>6, <1>7, <1>8, <1>9, <1>10, <1>11, <1>12,
     <1>13, <1>14, <1>15 DEF Next, Turn, Waiting

\* A cancelled turn makes at most the request it was preparing and one forced
\* answer per loop, and runs at most the tool in flight or one parallel batch.
THEOREM CancellationWindsUp == Spec => []CancelWindsUp
<1>1. CancelInv => CancelWindsUp
  BY DEF CancelInv, LateAllowed, CancelWindsUp, Concluded, PC
<1>. QED
  BY <1>1, CancelInit, CancelStep, PTL DEF Spec

-----------------------------------------------------------------------------
(* the elements that are chosen, and flattening                            *)

\* A set of natural numbers that is not empty has a least element.
LEMMA LeastOf ==
  ASSUME NEW U \in SUBSET Nat, U # {}
  PROVE  \E m \in U : \A n \in U : m <= n
<1> DEFINE R == OpToRel(<, Nat)
<1>1. IsWellFoundedOn(R, Nat)
  BY NatLessThanWellFounded
<1>2. PICK m \in U : \A n \in U : ~ (<<n, m>> \in R)
  <2> HIDE DEF R
  <2> QED BY <1>1, WFMin
<1>3. \A k, n \in Nat : ~ (<<n, k>> \in R) => k <= n
  BY DEF OpToRel
<1>4. \A n \in U : m <= n
  <2> HIDE DEF R
  <2> QED BY <1>2, <1>3
<1> QED BY <1>4

Chooses(G, s, P, n) ==
  G = [i \in 0..n |-> IF i = 0 THEN <<>> ELSE IF i \in P THEN Append(G[i - 1], s[i]) ELSE G[i - 1]]

\* The recursion of Chosen has a solution, so that its LET denotes one.
LEMMA ChoosingExists ==
  ASSUME NEW s, NEW P, NEW n \in Nat
  PROVE  \E G : Chooses(G, s, P, n)
<1> DEFINE U == {k \in Nat : ~ \E G : Chooses(G, s, P, k)}
<1>1. SUFFICES ASSUME U # {} PROVE FALSE
  OBVIOUS
<1>2. PICK m \in U : \A k \in U : m <= k
  BY <1>1, LeastOf
<1>3. m # 0
  <2> DEFINE G == [i \in 0..0 |-> <<>>]
  <2>1. Chooses(G, s, P, 0)
    BY DEF Chooses
  <2> QED BY <1>2, <2>1
<1>4. PICK G : Chooses(G, s, P, m - 1)
  BY <1>2, <1>3
<1> DEFINE H == [i \in 0..m |-> IF i < m THEN G[i] ELSE IF m \in P THEN Append(G[m - 1], s[m]) ELSE G[m - 1]]
<1>5. Chooses(H, s, P, m)
  <2>0. m \in Nat /\ m - 1 \in Nat
    BY <1>3
  <2>1. \A i \in 0..(m - 1) : H[i] = G[i]
    BY <2>0
  <2>2. \A i \in 0..(m - 1) : G[i] = IF i = 0 THEN <<>> ELSE IF i \in P THEN Append(G[i - 1], s[i]) ELSE G[i - 1]
    BY <1>4, <2>0 DEF Chooses
  <2>3. \A i \in 0..m : H[i] = IF i = 0 THEN <<>> ELSE IF i \in P THEN Append(H[i - 1], s[i]) ELSE H[i - 1]
    <3> TAKE i \in 0..m
    <3>1. CASE i = 0
      BY <2>0, <2>1, <2>2, <3>1, <1>3
    <3>2. CASE i \in 1..(m - 1)
      <4>1. i - 1 \in 0..(m - 1) /\ i \in 0..(m - 1)
        BY <3>2, <2>0
      <4> HIDE DEF H
      <4> QED BY <2>1, <2>2, <3>2, <4>1
    <3>3. CASE i = m
      <4>1. H[m - 1] = G[m - 1]
        BY <2>0, <2>1
      <4> QED BY <2>0, <3>3, <4>1
    <3> QED BY <3>1, <3>2, <3>3
  <2> QED BY <2>3 DEF Chooses
<1> QED BY <1>2, <1>5

Picks(t, s, P) ==
  \E f \in [1..Len(t) -> P \cap (1..Len(s))] :
    /\ \A i, j \in 1..Len(t) : i < j => f[i] < f[j]
    /\ \A i \in 1..Len(t) : t[i] = s[f[i]]
    /\ \A p \in P \cap (1..Len(s)) : \E i \in 1..Len(t) : f[i] = p

\* What is chosen are the elements at the given places, each once and in their order.
LEMMA ChosenPicks ==
  ASSUME NEW S, NEW s \in Seq(S), NEW P
  PROVE  Chosen(s, P) \in Seq(S) /\ Picks(Chosen(s, P), s, P)
<1> DEFINE n == Len(s)
           G == CHOOSE F : Chooses(F, s, P, n)
           Upto(k, f) ==
             /\ f \in [1..Len(G[k]) -> P \cap (1..k)]
             /\ \A i, j \in 1..Len(G[k]) : i < j => f[i] < f[j]
             /\ \A i \in 1..Len(G[k]) : G[k][i] = s[f[i]]
             /\ \A p \in P \cap (1..k) : \E i \in 1..Len(G[k]) : f[i] = p
           Good(k) == G[k] \in Seq(S) /\ \E f : Upto(k, f)
           U == {k \in 0..n : ~ Good(k)}
<1>1. n \in Nat /\ Chosen(s, P) = G[n]
  BY DEF Chosen, Chooses
<1>2. Chooses(G, s, P, n)
  <2> \E F : Chooses(F, s, P, n)
    BY <1>1, ChoosingExists
  <2> QED OBVIOUS
<1> HIDE DEF G
<1>3. G[0] = <<>>
  BY <1>1, <1>2 DEF Chooses
<1>4. \A k \in 1..n : G[k] = IF k \in P THEN Append(G[k - 1], s[k]) ELSE G[k - 1]
  <2> TAKE k \in 1..n
  <2>1. k \in 0..n /\ k # 0
    BY <1>1
  <2> QED BY <1>2, <2>1 DEF Chooses
<1>5. SUFFICES U = {}
  <2>1. ASSUME U = {} PROVE Good(n)
    BY <1>1, <2>1
  <2>2. ASSUME Good(n) PROVE Picks(G[n], s, P)
    BY <2>2 DEF Picks
  <2> QED BY <1>1, <2>1, <2>2
<1>6. SUFFICES ASSUME U # {} PROVE FALSE
  OBVIOUS
<1>7. PICK m \in U : \A k \in U : m <= k
  <2> U \in SUBSET Nat
    BY <1>1
  <2> HIDE DEF U
  <2> QED BY <1>6, LeastOf
<1>8. Good(0)
  <2>1. Len(G[0]) = 0 /\ G[0] \in Seq(S)
    BY <1>3
  <2>2. Upto(0, [i \in {} |-> 0])
    BY <2>1
  <2> QED BY <2>1, <2>2
<1>9. m \in 1..n /\ m - 1 \in 0..n /\ Good(m - 1)
  <2>1. m # 0
    BY <1>7, <1>8
  <2>2. m \in 0..n /\ ~ (m <= m - 1)
    BY <1>1, <1>7
  <2>3. m - 1 \notin U
    <3> HIDE DEF U
    <3> QED BY <1>7, <2>2
  <2>4. m \in 1..n /\ m - 1 \in 0..n
    BY <1>1, <2>1, <2>2
  <2> QED BY <2>3, <2>4
<1>10. PICK f : Upto(m - 1, f)
  BY <1>9
<1>11. CASE m \notin P
  <2>1. G[m] = G[m - 1]
    BY <1>4, <1>9, <1>11
  <2>2. P \cap (1..m) = P \cap (1..(m - 1))
    BY <1>9, <1>11
  <2>3. Upto(m, f)
    BY <1>10, <2>1, <2>2
  <2>4. Good(m)
    BY <1>9, <2>1, <2>3
  <2> QED BY <1>7, <2>4
<1>12. CASE m \in P
  <2> DEFINE t == G[m - 1]
             l == Len(t)
             g == [i \in 1..(l + 1) |-> IF i = l + 1 THEN m ELSE f[i]]
  <2>1. G[m] = Append(t, s[m]) /\ t \in Seq(S) /\ s[m] \in S /\ l \in Nat
    <3>1. G[m] = Append(t, s[m])
      BY <1>4, <1>9, <1>12
    <3>2. t \in Seq(S)
      BY <1>9
    <3> HIDE DEF t
    <3> QED BY <1>9, <3>1, <3>2
  <2>2. G[m] \in Seq(S) /\ Len(G[m]) = l + 1 /\ G[m][l + 1] = s[m] /\ \A i \in 1..l : G[m][i] = t[i]
    BY <2>1
  <2>3. f \in [1..l -> P \cap (1..(m - 1))] /\ \A i \in 1..l : f[i] < m /\ f[i] \in P \cap (1..m)
    <3>1. f \in [1..l -> P \cap (1..(m - 1))]
      BY <1>10
    <3>2. \A x \in 1..(m - 1) : x < m /\ x \in 1..m
      BY <1>1, <1>9
    <3> HIDE DEF t, l
    <3> QED BY <3>1, <3>2
  <2>4. g \in [1..(l + 1) -> P \cap (1..m)]
    BY <1>9, <1>12, <2>1, <2>3
  <2>5. g[l + 1] = m /\ \A i \in 1..l : g[i] = f[i]
    BY <2>1
  <2>6. \A i, j \in 1..(l + 1) : i < j => g[i] < g[j]
    <3> TAKE i, j \in 1..(l + 1)
    <3>1. CASE j = l + 1 /\ i < j
      <4>1. i \in 1..l
        BY <2>1, <3>1
      <4> QED BY <2>3, <2>5, <3>1, <4>1
    <3>2. CASE j # l + 1 /\ i < j
      <4>1. i \in 1..l /\ j \in 1..l
        BY <2>1, <3>2
      <4> HIDE DEF g
      <4> QED BY <1>10, <2>5, <3>2, <4>1
    <3> QED BY <3>1, <3>2
  <2>7. \A i \in 1..(l + 1) : G[m][i] = s[g[i]]
    <3> TAKE i \in 1..(l + 1)
    <3>1. CASE i = l + 1
      BY <2>2, <2>5, <3>1
    <3>2. CASE i \in 1..l
      <4> HIDE DEF g
      <4> QED BY <1>10, <2>2, <2>5, <3>2
    <3> QED BY <2>1, <3>1, <3>2
  <2>8. \A p \in P \cap (1..m) : \E i \in 1..(l + 1) : g[i] = p
    <3> TAKE p \in P \cap (1..m)
    <3>1. CASE p = m
      <4>1. l + 1 \in 1..(l + 1)
        BY <2>1
      <4> HIDE DEF g, l
      <4> QED BY <2>5, <3>1, <4>1
    <3>2. CASE p # m
      <4>1. PICK i \in 1..l : f[i] = p
        BY <1>9, <1>10, <3>2
      <4>2. i \in 1..(l + 1) /\ g[i] = p
        BY <2>1, <2>5, <4>1
      <4> QED BY <4>2
    <3> QED BY <3>1, <3>2
  <2>9. Good(m)
    <3> HIDE DEF g
    <3>1. Upto(m, g)
      BY <2>2, <2>4, <2>6, <2>7, <2>8
    <3> QED BY <2>2, <3>1
  <2> QED BY <1>7, <2>9
<1> QED BY <1>11, <1>12

Flattens(G, ss, n) == G = [i \in 1..n |-> IF i = 1 THEN ss[i] ELSE G[i - 1] \o ss[i]]

\* The recursion of FlattenSeq has a solution.
LEMMA FlatteningExists ==
  ASSUME NEW ss, NEW n \in Nat
  PROVE  \E G : Flattens(G, ss, n)
<1> DEFINE U == {k \in Nat : ~ \E G : Flattens(G, ss, k)}
<1>1. SUFFICES ASSUME U # {} PROVE FALSE
  OBVIOUS
<1>2. PICK m \in U : \A k \in U : m <= k
  BY <1>1, LeastOf
<1>3. m # 0
  <2> DEFINE G == [i \in 1..0 |-> <<>>]
  <2>1. Flattens(G, ss, 0)
    BY DEF Flattens
  <2> QED BY <1>2, <2>1
<1>4. m \in Nat /\ m - 1 \in Nat
  BY <1>3
<1>5. PICK G : Flattens(G, ss, m - 1)
  BY <1>2, <1>4
<1> DEFINE H == [i \in 1..m |-> IF i < m THEN G[i] ELSE IF m = 1 THEN ss[1] ELSE G[m - 1] \o ss[m]]
<1>6. \A i \in 1..(m - 1) : H[i] = G[i]
  BY <1>4
<1>7. \A i \in 1..(m - 1) : G[i] = IF i = 1 THEN ss[i] ELSE G[i - 1] \o ss[i]
  BY <1>4, <1>5 DEF Flattens
<1>8. \A i \in 1..m : H[i] = IF i = 1 THEN ss[i] ELSE H[i - 1] \o ss[i]
  <2> TAKE i \in 1..m
  <2>1. CASE i \in 1..(m - 1)
    <3>1. i # 1 => i - 1 \in 1..(m - 1)
      BY <1>4, <2>1
    <3> HIDE DEF H
    <3> QED BY <1>6, <1>7, <2>1, <3>1
  <2>2. CASE i = m
    <3>1. m # 1 => m - 1 \in 1..(m - 1) /\ H[m - 1] = G[m - 1]
      BY <1>3, <1>4, <1>6
    <3>2. H[m] = IF m = 1 THEN ss[1] ELSE G[m - 1] \o ss[m]
      BY <2>2, <1>4
    <3> HIDE DEF H
    <3> QED BY <2>2, <3>1, <3>2
  <2> QED BY <1>4, <2>1, <2>2
<1>9. Flattens(H, ss, m)
  BY <1>8 DEF Flattens
<1> QED BY <1>2, <1>9

\* What a flattened sequence of sequences has is in one of them.
LEMMA Flattened ==
  ASSUME NEW S, NEW ss \in Seq(Seq(S))
  PROVE  /\ FlattenSeq(ss) \in Seq(S)
         /\ \A i \in 1..Len(FlattenSeq(ss)) :
              \E j \in 1..Len(ss) : \E k \in 1..Len(ss[j]) : FlattenSeq(ss)[i] = ss[j][k]
<1>1. CASE Len(ss) = 0
  <2>1. FlattenSeq(ss) = ss /\ ss = <<>>
    BY <1>1 DEF FlattenSeq
  <2> QED BY <2>1
<1>2. CASE Len(ss) # 0
  <2> DEFINE n == Len(ss)
             G == CHOOSE F : Flattens(F, ss, n)
             From(x, l) == \E j \in 1..l : \E k \in 1..Len(ss[j]) : x = ss[j][k]
             Good(l) == G[l] \in Seq(S) /\ \A i \in 1..Len(G[l]) : From(G[l][i], l)
             U == {l \in 1..n : ~ Good(l)}
  <2>1. n \in Nat /\ n # 0 /\ FlattenSeq(ss) = G[n]
    BY <1>2 DEF FlattenSeq, Flattens
  <2>2. Flattens(G, ss, n)
    <3> \E F : Flattens(F, ss, n)
      BY <2>1, FlatteningExists
    <3> QED OBVIOUS
  <2> HIDE DEF G
  <2>3. \A l \in 1..n : G[l] = IF l = 1 THEN ss[l] ELSE G[l - 1] \o ss[l]
    BY <2>1, <2>2 DEF Flattens
  <2>4. SUFFICES U = {}
    <3>1. ASSUME U = {} PROVE Good(n)
      <4>1. n \in 1..n
        BY <2>1
      <4> HIDE DEF Good, n
      <4> QED BY <3>1, <4>1
    <3> HIDE DEF U
    <3> QED BY <2>1, <3>1
  <2>5. SUFFICES ASSUME U # {} PROVE FALSE
    OBVIOUS
  <2>6. PICK m \in U : \A l \in U : m <= l
    <3> U \in SUBSET Nat
      BY <2>1
    <3> HIDE DEF U
    <3> QED BY <2>5, LeastOf
  <2>7. m \in 1..n /\ ~ Good(m) /\ m \in Nat
    BY <2>1, <2>6
  <2>8. ss[m] \in Seq(S)
    BY <2>7
  <2>9. CASE m = 1
    <3>1. G[m] = ss[m]
      BY <2>3, <2>7, <2>9
    <3>2. \A i \in 1..Len(ss[m]) : From(ss[m][i], m)
      BY <2>7
    <3> QED BY <2>7, <2>8, <3>1, <3>2
  <2>10. CASE m # 1
    <3>1. m - 1 \in 1..n /\ ~ (m <= m - 1)
      BY <2>1, <2>7, <2>10
    <3>2. Good(m - 1)
      <4>1. m - 1 \notin U
        <5> HIDE DEF U
        <5> QED BY <2>6, <3>1
      <4> QED BY <3>1, <4>1
    <3> DEFINE t == G[m - 1]
    <3>3. G[m] = t \o ss[m] /\ t \in Seq(S)
      BY <2>3, <2>7, <2>10, <3>2
    <3>4. \A i \in 1..Len(t) : From(t[i], m - 1)
      BY <3>2
    <3> HIDE DEF t
    <3>5. \A i \in 1..Len(t) : From(t[i], m)
      <4> \A j \in 1..(m - 1) : j \in 1..m
        BY <2>7
      <4> QED BY <3>4
    <3>6. \A i \in 1..Len(ss[m]) : From(ss[m][i], m)
      BY <2>7
    <3> HIDE DEF From
    <3>7. \A i \in 1..Len(t \o ss[m]) : From((t \o ss[m])[i], m)
      <4> TAKE i \in 1..Len(t \o ss[m])
      <4>1. Len(t \o ss[m]) = Len(t) + Len(ss[m]) /\ Len(t) \in Nat /\ Len(ss[m]) \in Nat
        BY <2>8, <3>3
      <4>2. CASE i \in 1..Len(t)
        BY <2>8, <3>3, <3>5, <4>2
      <4>3. CASE i \notin 1..Len(t)
        <5>1. i - Len(t) \in 1..Len(ss[m]) /\ (t \o ss[m])[i] = ss[m][i - Len(t)]
          BY <2>8, <3>3, <4>1, <4>3
        <5> QED BY <3>6, <5>1
      <4> QED BY <4>2, <4>3
    <3>8. t \o ss[m] \in Seq(S)
      BY <2>8, <3>3
    <3> QED BY <2>7, <3>3, <3>7, <3>8
  <2> QED BY <2>9, <2>10
<1> QED BY <1>1, <1>2

-----------------------------------------------------------------------------
(* messages                                                                *)

CallIds == {1, 2} \X Nat \X Nat
Messages ==
  [role : {"user", "assistant", "tool"}, calls : Seq(CallIds), answers : CallIds \cup {NoId}, text : Texts]

\* What the three kinds of message consist of.
LEMMA MessageTypes ==
  /\ \A t \in Texts : /\ UserSays(t) \in Messages /\ UserSays(t).role = "user"
                      /\ UserSays(t).answers = NoId /\ UserSays(t).text = t
  /\ \A ids \in Seq(CallIds) :
       /\ AssistantSays(ids) \in Messages /\ AssistantSays(ids).role = "assistant"
       /\ AssistantSays(ids).answers = NoId /\ AssistantSays(ids).calls = ids
  /\ \A id \in CallIds, t \in Texts :
       /\ ToolResult(id, t) \in Messages /\ ToolResult(id, t).role = "tool"
       /\ ToolResult(id, t).answers = id /\ ToolResult(id, t).text = t
<1>1. <<>> \in Seq(CallIds)
  OBVIOUS
<1> QED BY <1>1 DEF UserSays, AssistantSays, ToolResult, Messages, Texts, NoId

\* The id of a call is an id, and not the absence of one.
LEMMA IdTypes ==
  ASSUME NEW l \in {1, 2}, NEW r \in Nat, NEW k \in Nat
  PROVE  <<l, r, k>> \in CallIds /\ <<l, r, k>> # NoId
<1>1. <<l, r, k>> \in CallIds
  BY DEF CallIds
<1>2. Len(<<l, r, k>>) = 3 /\ Len(NoId) = 0
  BY DEF NoId
<1> QED BY <1>1, <1>2

\* The result found for a call is one of the messages, unless it is made up.
LEMMA ResultIsThere ==
  ASSUME NEW ms \in Seq(Messages), NEW id \in CallIds
  PROVE  /\ ResultFor(ms, id) \in Messages
         /\ \/ ResultFor(ms, id).text = "unavailable"
            \/ \E j \in 1..Len(ms) : ResultFor(ms, id) = ms[j]
<1> DEFINE found == {i \in DOMAIN ms : ms[i].role = "tool" /\ ms[i].answers = id}
<1>1. DOMAIN ms = 1..Len(ms)
  OBVIOUS
<1>2. CASE found = {}
  BY <1>2, MessageTypes DEF ResultFor, Texts
<1>3. CASE found # {}
  <2>1. ResultFor(ms, id) = ms[Min(found)]
    BY <1>3 DEF ResultFor
  <2>2. found \in SUBSET Nat
    BY <1>1
  <2>3. Min(found) \in found
    <3> HIDE DEF found
    <3>1. \E x \in found : \A y \in found : x <= y
      BY <1>3, <2>2, LeastOf
    <3> QED BY <3>1 DEF Min
  <2>4. Min(found) \in 1..Len(ms) /\ ms[Min(found)] \in Messages
    BY <1>1, <2>3
  <2> QED BY <2>1, <2>4
<1> QED BY <1>2, <1>3

\* Sanitizing for the model adds no results but the made-up ones.
LEMMA SanitizedKeeps ==
  ASSUME NEW ms \in Seq(Messages)
  PROVE  /\ Sanitized(ms) \in Seq(Messages)
         /\ \A i \in 1..Len(Sanitized(ms)) :
              LET m == Sanitized(ms)[i] IN
              m.role = "tool" /\ m.text # "unavailable" => \E j \in 1..Len(ms) : m = ms[j]
<1> DEFINE Unmarked(m) == IF m.text = "internal" THEN [m EXCEPT !.text = "plain"] ELSE m
           ss == [i \in 1..Len(ms) |-> WithResults(ms, Unmarked(ms[i]))]
           Kept(m) == m.role = "tool" /\ m.text # "unavailable" => \E j \in 1..Len(ms) : m = ms[j]
<1>1. Sanitized(ms) = FlattenSeq(ss)
  BY DEF Sanitized
<1>2. \A i \in 1..Len(ms) : Unmarked(ms[i]) \in Messages
  <2> TAKE i \in 1..Len(ms)
  <2>1. ms[i] \in Messages
    OBVIOUS
  <2> QED BY <2>1 DEF Messages, Texts
<1>3. \A m \in Messages : /\ WithResults(ms, m) \in Seq(Messages)
                          /\ \A k \in 1..Len(WithResults(ms, m)) : Kept(WithResults(ms, m)[k])
  <2> TAKE m \in Messages
  <2>1. CASE m.role = "tool"
    BY <2>1 DEF WithResults
  <2>2. CASE m.role # "tool"
    <3> DEFINE rs == [k \in 1..Len(m.calls) |-> ResultFor(ms, m.calls[k])]
    <3>1. m.calls \in Seq(CallIds) /\ Len(m.calls) \in Nat
      BY DEF Messages
    <3>2. \A k \in 1..Len(m.calls) : m.calls[k] \in CallIds
      BY <3>1
    <3>3. rs \in Seq(Messages) /\ Len(rs) = Len(m.calls)
      BY <3>1, <3>2, ResultIsThere
    <3>4. \A k \in 1..Len(m.calls) : Kept(rs[k])
      BY <3>2, ResultIsThere
    <3>5. WithResults(ms, m) = <<m>> \o rs
      BY <2>2 DEF WithResults
    <3> HIDE DEF rs
    <3>6. <<m>> \in Seq(Messages) /\ Len(<<m>>) = 1 /\ <<m>>[1] = m
      OBVIOUS
    <3>7. <<m>> \o rs \in Seq(Messages) /\ Len(<<m>> \o rs) = 1 + Len(rs) /\ (<<m>> \o rs)[1] = m
      BY <3>3, <3>6
    <3>8. \A k \in 2..(1 + Len(rs)) : (<<m>> \o rs)[k] = rs[k - 1] /\ k - 1 \in 1..Len(rs)
      BY <3>3, <3>6
    <3>9. Kept(m)
      BY <2>2
    <3> HIDE DEF Kept
    <3>10. \A k \in 1..(1 + Len(rs)) : Kept((<<m>> \o rs)[k])
      <4> TAKE k \in 1..(1 + Len(rs))
      <4>1. CASE k = 1
        BY <3>7, <3>9, <4>1
      <4>2. CASE k # 1
        <5>1. k \in 2..(1 + Len(rs))
          BY <3>1, <3>3, <4>2
        <5> QED BY <3>3, <3>4, <3>8, <5>1
      <4> QED BY <4>1, <4>2
    <3> QED BY <3>5, <3>7, <3>10
  <2> QED BY <2>1, <2>2
<1> HIDE DEF Unmarked
<1>4. \A j \in 1..Len(ms) : /\ ss[j] \in Seq(Messages)
                            /\ \A k \in 1..Len(ss[j]) : Kept(ss[j][k])
  BY <1>2, <1>3
<1>5. ss \in Seq(Seq(Messages)) /\ Len(ss) = Len(ms)
  <2>1. Len(ms) \in Nat
    OBVIOUS
  <2> QED BY <1>4, <2>1
<1> HIDE DEF ss, Kept
<1>6. \A i \in 1..Len(FlattenSeq(ss)) : Kept(FlattenSeq(ss)[i])
  <2> TAKE i \in 1..Len(FlattenSeq(ss))
  <2>1. PICK j \in 1..Len(ss) : \E k \in 1..Len(ss[j]) : FlattenSeq(ss)[i] = ss[j][k]
    BY <1>5, Flattened
  <2>2. PICK k \in 1..Len(ss[j]) : FlattenSeq(ss)[i] = ss[j][k]
    BY <2>1
  <2>3. Kept(ss[j][k])
    BY <1>4, <1>5
  <2> QED BY <2>2, <2>3
<1> QED BY <1>1, <1>5, <1>6, Flattened DEF Kept

\* The assistant that no other follows is the last one.
LEMMA LastAssistantIs ==
  ASSUME NEW ms \in Seq(Messages), NEW a \in 1..Len(ms), ms[a].role = "assistant",
         \A i \in (a + 1)..Len(ms) : ms[i].role # "assistant"
  PROVE  LastAssistant(ms) = a
<1> DEFINE I == {i \in 1..Len(ms) : ms[i].role = "assistant"}
<1>1. a \in I /\ \A i \in I : a >= i
  OBVIOUS
<1>2. LastAssistant(ms) = Max(I)
  BY <1>1 DEF LastAssistant, SelectLastInSeq
<1>3. Max(I) \in I /\ \A i \in I : Max(I) >= i
  <2>1. \E x \in I : \A y \in I : x >= y
    BY <1>1
  <2> HIDE DEF I
  <2> QED BY <2>1 DEF Max
<1>4. \A i \in I : i \in Nat
  OBVIOUS
<1> DEFINE x == Max(I)
<1>5. x \in Nat /\ a \in Nat /\ a >= x /\ x >= a
  <2> HIDE DEF I
  <2> QED BY <1>1, <1>3, <1>4
<1>6. x = a
  <2> HIDE DEF x
  <2> QED BY <1>5
<1> QED BY <1>2, <1>6

\* What is saved are the messages after the last assistant but for the hints.
LEMMA UnsavedIs ==
  ASSUME NEW ms \in Seq(Messages), NEW a \in 1..Len(ms), ms[a].role = "assistant",
         \A i \in (a + 1)..Len(ms) : ms[i].role # "assistant"
  PROVE  /\ Unsaved(ms) \in Seq(Messages)
         /\ \E f \in [1..Len(Unsaved(ms)) -> (a + 1)..Len(ms)] :
              /\ \A i, j \in 1..Len(Unsaved(ms)) : i < j => f[i] < f[j]
              /\ \A i \in 1..Len(Unsaved(ms)) : Unsaved(ms)[i] = ms[f[i]]
              /\ \A p \in (a + 1)..Len(ms) : ms[p].text # "internal" =>
                   \E i \in 1..Len(Unsaved(ms)) : f[i] = p
<1> DEFINE new == SubSeq(ms, a + 1, Len(ms))
           P == {i \in DOMAIN new : new[i].text # "internal"}
           u == Chosen(new, P)
<1>1. Unsaved(ms) = u
  BY LastAssistantIs DEF Unsaved
<1>2. /\ new \in Seq(Messages) /\ Len(new) = Len(ms) - a /\ a \in Nat /\ Len(ms) \in Nat
      /\ \A i \in 1..(Len(ms) - a) : new[i] = ms[a + i]
  <2>1. a \in Nat /\ Len(ms) \in Nat /\ a <= Len(ms)
    OBVIOUS
  <2> QED BY <2>1
<1> HIDE DEF new
<1>3. DOMAIN new = 1..(Len(ms) - a)
  BY <1>2
<1>4. u \in Seq(Messages) /\ Picks(u, new, P)
  <2> HIDE DEF P
  <2> QED BY <1>2, ChosenPicks
<1>5. P \cap (1..Len(new)) = P
  BY <1>2, <1>3
<1> HIDE DEF u
<1>6. PICK g \in [1..Len(u) -> P] :
        /\ \A i, j \in 1..Len(u) : i < j => g[i] < g[j]
        /\ \A i \in 1..Len(u) : u[i] = new[g[i]]
        /\ \A p \in P : \E i \in 1..Len(u) : g[i] = p
  <2> HIDE DEF P
  <2> QED BY <1>4, <1>5 DEF Picks
<1> DEFINE f == [i \in 1..Len(u) |-> a + g[i]]
<1>7. \A i \in 1..Len(u) : g[i] \in 1..(Len(ms) - a)
  BY <1>3, <1>6
<1>8. f \in [1..Len(u) -> (a + 1)..Len(ms)]
  BY <1>2, <1>7
<1>9. \A i, j \in 1..Len(u) : i < j => f[i] < f[j]
  BY <1>2, <1>6, <1>7
<1>10. \A i \in 1..Len(u) : u[i] = ms[f[i]]
  BY <1>2, <1>6, <1>7
<1>11. ASSUME NEW p \in (a + 1)..Len(ms), ms[p].text # "internal"
       PROVE  \E i \in 1..Len(u) : f[i] = p
  <2>1. p - a \in 1..(Len(ms) - a) /\ a + (p - a) = p
    BY <1>2
  <2>2. p - a \in P
    BY <1>2, <1>3, <1>11, <2>1
  <2>3. PICK i \in 1..Len(u) : g[i] = p - a
    BY <1>6, <2>2
  <2> QED BY <2>1, <2>3
<1> HIDE DEF f
<1> QED BY <1>1, <1>4, <1>8, <1>9, <1>10, <1>11

\* The calls that are denied, and those that are not, each once.
LEMMA PositionsChosen ==
  ASSUME NEW calls \in Seq(CallKinds), NEW P \in SUBSET (1..Len(calls)),
         NEW t, t = Chosen(Positions(calls), P)
  PROVE  /\ t \in Seq(1..Len(calls))
         /\ \A i \in 1..Len(t) : t[i] \in P
         /\ \A i, j \in 1..Len(t) : i # j => t[i] # t[j]
<1> DEFINE n == Len(calls)
           s == Positions(calls)
<1>1. n \in Nat /\ s \in Seq(1..n) /\ Len(s) = n /\ \A i \in 1..n : s[i] = i
  <2>1. n \in Nat
    OBVIOUS
  <2> HIDE DEF n
  <2> QED BY <2>1 DEF Positions, n
<1> HIDE DEF s
<1>2. t \in Seq(1..n) /\ Picks(t, s, P)
  <2> HIDE DEF n
  <2> QED BY <1>1, ChosenPicks DEF s
<1>3. PICK f \in [1..Len(t) -> P \cap (1..n)] :
        /\ \A i, j \in 1..Len(t) : i < j => f[i] < f[j]
        /\ \A i \in 1..Len(t) : t[i] = s[f[i]]
  BY <1>1, <1>2 DEF Picks
<1>4. \A i \in 1..Len(t) : t[i] = f[i] /\ f[i] \in P
  BY <1>1, <1>3
<1>5. Len(t) \in Nat /\ \A i \in P : i \in Nat
  BY <1>2
<1>6. \A i, j \in 1..Len(t) : i # j => t[i] # t[j]
  <2> TAKE i, j \in 1..Len(t)
  <2>1. t[i] \in Nat /\ t[j] \in Nat
    BY <1>4, <1>5
  <2>2. i < j \/ j < i \/ i = j
    BY <1>5
  <2> QED BY <1>3, <1>4, <2>1, <2>2
<1> QED BY <1>2, <1>4, <1>6

-----------------------------------------------------------------------------
(* the rows                                                                *)

\* Where the calls of the present round may have no rows yet.
Fresh    == {"round", "preparing", "calling", "batch", "running", "settling"}
Handling == {"batch", "running", "settling"}
Clean    == {"round", "preparing", "calling", "waiting"}

RowTypes ==
  /\ pc \in PC /\ loop \in {1, 2} /\ round \in Nat
  /\ messages \in Seq(Messages) /\ chat \in Seq(Messages)
  /\ reply \in Seq(CallKinds) /\ batch \in Seq(1..Len(reply))

Earlier(id) ==
  id[1] < loop \/ (id[1] = loop /\ (id[2] < round \/ (id[2] = round /\ pc \notin Fresh)))

\* The rows are of results of earlier rounds until a batch is settled.
OlderInv == \A i \in 1..Len(chat) : chat[i].answers # NoId => Earlier(chat[i].answers)

IsSaved(m) == m.role = "tool" /\ m.text # "unavailable" => \E j \in 1..Len(chat) : m = chat[j]

SavedInv == pc \in Clean => \A i \in 1..Len(messages) : IsSaved(messages[i])

\* The messages since the assistant at a: results of its calls, one each and none of a call
\* that is still to be executed, and what the loop has to say.
Results(a) ==
  /\ messages[a].role = "assistant"
  /\ \A i \in 1..(a - 1) : IsSaved(messages[i])
  /\ \A i \in (a + 1)..Len(messages) :
       \/ messages[i].role = "user" /\ messages[i].answers = NoId
       \/ /\ messages[i].role = "tool" /\ messages[i].text # "internal"
          /\ \E k \in 1..Len(reply) : messages[i].answers = CallId(k)
  /\ \A i, j \in (a + 1)..Len(messages) :
       i # j /\ messages[i].role = "tool" => messages[i].answers # messages[j].answers
  /\ \A i \in (a + 1)..Len(messages), n \in 1..Len(batch) : messages[i].answers # CallId(batch[n])

\* A batch names each call once, and the row of the assistant is there.
BatchInv ==
  pc \in Handling =>
    /\ \E a \in 1..Len(messages) : Results(a)
    /\ \A i, j \in 1..Len(batch) : i # j => batch[i] # batch[j]
    /\ pc = "running" => batch # <<>>
    /\ \E h \in 1..Len(chat) : \A k \in 1..Len(reply) : CallId(k) \in Range(chat[h].calls)

RowInv == RowTypes /\ RowsInOrder /\ OlderInv /\ SavedInv /\ BatchInv

\* A turn starts with no rows and without a batch.
LEMMA RowInit == Init => RowInv
<1> SUFFICES ASSUME Init PROVE RowInv
  OBVIOUS
<1>1. messages = <<UserSays("plain")>> /\ chat = <<>> /\ pc = "round" /\ loop = 1 /\ round = 0
      /\ reply = <<>> /\ batch = <<>>
  BY DEF Init
<1>2. UserSays("plain") \in Messages /\ UserSays("plain").role = "user"
  BY MessageTypes DEF Texts
<1> QED BY <1>1, <1>2 DEF RowInv, RowTypes, RowsInOrder, OlderInv, SavedInv, IsSaved, BatchInv, Handling, PC

RowsOrdered(c) ==
  \A i \in 1..Len(c) : c[i].role = "tool" =>
    /\ \E h \in 1..(i - 1) : c[i].answers \in Range(c[h].calls)
    /\ \A h \in 1..(i - 1) : c[h].answers # c[i].answers

\* Rows that are added keep the order if each result has its call before it, and is new.
LEMMA OrderKept ==
  ASSUME NEW c \in Seq(Messages), NEW new \in Seq(Messages), RowsOrdered(c),
         \A i \in 1..Len(new) : new[i].role = "tool" =>
           /\ \E h \in 1..Len(c) : new[i].answers \in Range(c[h].calls)
           /\ \A h \in 1..Len(c) : c[h].answers # new[i].answers
           /\ \A h \in 1..(i - 1) : new[h].answers # new[i].answers
  PROVE  RowsOrdered(c \o new)
<1> DEFINE d == c \o new
           n == Len(c)
<1>0. n \in Nat /\ Len(new) \in Nat /\ Len(d) = n + Len(new)
  OBVIOUS
<1>1. /\ \A i \in 1..n : d[i] = c[i]
      /\ \A i \in 1..Len(new) : d[n + i] = new[i]
  OBVIOUS
<1> HIDE DEF d, n
<1>2. \A i \in 1..n : c[i].role = "tool" =>
        /\ \E h \in 1..(i - 1) : c[i].answers \in Range(c[h].calls)
        /\ \A h \in 1..(i - 1) : c[h].answers # c[i].answers
  BY DEF RowsOrdered, n
<1>3. ASSUME NEW i \in 1..Len(d), d[i].role = "tool"
      PROVE  /\ \E h \in 1..(i - 1) : d[i].answers \in Range(d[h].calls)
             /\ \A h \in 1..(i - 1) : d[h].answers # d[i].answers
  <2>1. CASE i \in 1..n
    <3>1. \A h \in 1..(i - 1) : d[h] = c[h]
      BY <1>0, <1>1, <2>1
    <3>2. d[i] = c[i]
      BY <1>1, <2>1
    <3>3. /\ \E h \in 1..(i - 1) : c[i].answers \in Range(c[h].calls)
          /\ \A h \in 1..(i - 1) : c[h].answers # c[i].answers
      BY <1>2, <1>3, <2>1, <3>2
    <3> QED BY <3>1, <3>2, <3>3
  <2>2. CASE i \notin 1..n
    <3> DEFINE k == i - n
    <3>1. k \in 1..Len(new) /\ i = n + k /\ k \in Nat /\ k >= 1 /\ i \in Nat
      BY <1>0, <2>2
    <3>2. d[i] = new[k]
      <4> HIDE DEF k
      <4> QED BY <1>1, <3>1
    <3> HIDE DEF k
    <3>3. /\ \E h \in 1..n : new[k].answers \in Range(c[h].calls)
          /\ \A h \in 1..n : c[h].answers # new[k].answers
          /\ \A h \in 1..(k - 1) : new[h].answers # new[k].answers
      BY <1>3, <3>1, <3>2 DEF n
    <3>4. \A h \in 1..n : h \in 1..(i - 1)
      BY <1>0, <3>1
    <3>5. ASSUME NEW h \in 1..(i - 1) PROVE d[h].answers # d[i].answers
      <4>1. CASE h \in 1..n
        BY <1>1, <3>2, <3>3, <4>1
      <4>2. CASE h \notin 1..n
        <5>1. h - n \in 1..(k - 1) /\ h - n \in 1..Len(new) /\ h = n + (h - n)
          BY <1>0, <3>1, <4>2
        <5>2. d[h] = new[h - n]
          <6> DEFINE j == h - n
          <6>1. j \in 1..Len(new) /\ h = n + j
            BY <1>0, <5>1
          <6> HIDE DEF j
          <6>2. d[n + j] = new[j]
            BY <1>1, <6>1
          <6> QED BY <6>1, <6>2 DEF j
        <5> QED BY <3>2, <3>3, <5>1, <5>2
      <4> QED BY <4>1, <4>2
    <3>6. \E h \in 1..(i - 1) : d[i].answers \in Range(d[h].calls)
      <4>1. PICK h \in 1..n : new[k].answers \in Range(c[h].calls)
        BY <3>3
      <4>2. d[h] = c[h] /\ h \in 1..(i - 1)
        BY <1>1, <3>4
      <4> QED BY <3>2, <4>1, <4>2
    <3> QED BY <3>5, <3>6
  <2> QED BY <2>1, <2>2
<1> QED BY <1>3 DEF RowsOrdered, d

\* One more row that is no result.
LEMMA RowAdded ==
  ASSUME RowInv, NEW row \in Messages, row.role # "tool", row.answers = NoId,
         chat' = Append(chat, row), loop' = loop,
         round' \in Nat, round <= round', pc \in Fresh \/ pc' \notin Fresh \/ round < round'
  PROVE  /\ chat' \in Seq(Messages) /\ RowsInOrder' /\ OlderInv'
         /\ \A m \in Messages : IsSaved(m) => IsSaved(m)'
         /\ \A h \in 1..Len(chat) : h \in 1..Len(chat') /\ chat'[h] = chat[h]
         /\ chat'[Len(chat')] = row /\ Len(chat') \in 1..Len(chat')
<1> USE DEF RowInv, RowTypes
<1>1. chat' = chat \o <<row>> /\ <<row>> \in Seq(Messages) /\ Len(<<row>>) = 1 /\ <<row>>[1] = row
  OBVIOUS
<1>0. Len(chat) \in Nat /\ Len(chat') = Len(chat) + 1
  OBVIOUS
<1>2. /\ \A h \in 1..Len(chat) : chat'[h] = chat[h]
      /\ chat'[Len(chat) + 1] = row /\ chat' \in Seq(Messages)
  OBVIOUS
<1>3. RowsOrdered(chat')
  <2>1. RowsOrdered(chat)
    BY DEF RowsInOrder, RowsOrdered
  <2>2. \A i \in 1..Len(<<row>>) : <<row>>[i].role # "tool"
    BY <1>1
  <2> HIDE DEF RowInv
  <2> QED BY <1>1, <2>1, <2>2, OrderKept DEF RowInv
<1>4. RowsInOrder'
  BY <1>3 DEF RowsInOrder, RowsOrdered
<1>5. OlderInv'
  <2>1. \A id \in CallIds : Earlier(id) => Earlier(id)'
    BY DEF CallIds, Earlier
  <2>2. \A i \in 1..Len(chat) : chat[i].answers \in CallIds \cup {NoId}
    <3> TAKE i \in 1..Len(chat)
    <3>1. chat[i] \in Messages
      OBVIOUS
    <3> QED BY <3>1 DEF Messages
  <2>3. \A i \in 1..Len(chat) : chat'[i].answers # NoId => Earlier(chat[i].answers)'
    <3> TAKE i \in 1..Len(chat)
    <3>1. chat'[i] = chat[i] /\ chat[i].answers \in CallIds \cup {NoId}
      BY <1>2, <2>2
    <3>2. chat[i].answers # NoId => Earlier(chat[i].answers)
      BY DEF OlderInv
    <3> QED BY <2>1, <3>1, <3>2 DEF Earlier
  <2>4. \A i \in 1..Len(chat') : i \in 1..Len(chat) \/ i = Len(chat) + 1
    <3> HIDE DEF RowInv, RowTypes
    <3> QED BY <1>0
  <2>5. SUFFICES ASSUME NEW i \in 1..Len(chat'), chat'[i].answers # NoId
                 PROVE  Earlier(chat[i].answers)'
    BY DEF OlderInv
  <2> QED BY <1>2, <2>3, <2>4, <2>5
<1>6. \A m \in Messages : IsSaved(m) => IsSaved(m)'
  BY <1>2 DEF IsSaved
<1> QED BY <1>0, <1>2, <1>4, <1>5, <1>6

\* As long as no row is added.
LEMMA RowsKept ==
  ASSUME RowInv, chat' = chat, loop' = loop, round' \in Nat, round <= round',
         pc \in Fresh \/ pc' \notin Fresh \/ round < round'
  PROVE  RowsInOrder' /\ OlderInv' /\ \A m : IsSaved(m) => IsSaved(m)'
<1> USE DEF RowInv, RowTypes
<1>1. \A id \in CallIds : Earlier(id) => Earlier(id)'
  BY DEF CallIds, Earlier
<1>2. OlderInv'
  <2> SUFFICES ASSUME NEW i \in 1..Len(chat), chat[i].answers # NoId PROVE Earlier(chat[i].answers)'
    BY DEF OlderInv
  <2>1. chat[i] \in Messages
    OBVIOUS
  <2>2. chat[i].answers \in CallIds /\ Earlier(chat[i].answers)
    BY <2>1 DEF OlderInv, Messages
  <2> QED BY <1>1, <2>2 DEF Earlier
<1> QED BY <1>2 DEF RowsInOrder, IsSaved

\* Steps that say nothing.
LEMMA QuietStep ==
  ASSUME RowInv, UNCHANGED <<loop, messages, chat, reply, batch>>, pc' \in PC,
         \/ round' = round /\ (pc \in Fresh \/ pc' \notin Fresh)
            /\ (pc' \in Clean => pc \in Clean) /\ (pc' \in Handling => pc \in Handling)
         \/ pc = "calling" /\ pc' = "round" /\ round' = round + 1,
         pc' = "running" => batch # <<>>
  PROVE  RowInv'
<1> USE DEF RowInv, RowTypes
<1>1. RowsInOrder' /\ OlderInv' /\ \A m : IsSaved(m) => IsSaved(m)'
  BY RowsKept DEF Fresh, Handling
<1>2. SavedInv'
  BY <1>1 DEF SavedInv, Clean
<1>3. BatchInv'
  <2> SUFFICES ASSUME pc' \in Handling PROVE BatchInv'
    BY DEF BatchInv
  <2>1. pc \in Handling /\ round' = round
    BY DEF Handling
  <2>2. \A k : CallId(k)' = CallId(k)
    BY <2>1 DEF CallId
  <2>3. \A a \in 1..Len(messages) : Results(a) => Results(a)'
    BY <1>1, <2>2 DEF Results
  <2> QED BY <2>1, <2>2, <2>3 DEF BatchInv
<1> QED BY <1>1, <1>2, <1>3

\* The results of calls of the batch that are not executed again, and hints.
LEMMA ResultsAdded ==
  ASSUME RowInv, pc \in Handling, pc' \in Handling, UNCHANGED <<chat, reply, loop, round>>,
         NEW more \in Seq(Messages), messages' = messages \o more,
         NEW rest \in Seq(1..Len(reply)), batch' = rest,
         \A i \in 1..Len(more) :
           \/ more[i].role = "user" /\ more[i].answers = NoId
           \/ /\ more[i].role = "tool" /\ more[i].text # "internal"
              /\ \E n \in 1..Len(batch) : more[i].answers = CallId(batch[n]),
         \A i, j \in 1..Len(more) : i # j /\ more[i].role = "tool" => more[i].answers # more[j].answers,
         \A i \in 1..Len(more), n \in 1..Len(rest) : more[i].answers # CallId(rest[n]),
         \A n \in 1..Len(rest) : \E p \in 1..Len(batch) : rest[n] = batch[p],
         \A i, j \in 1..Len(rest) : i # j => rest[i] # rest[j],
         pc' = "running" => rest # <<>>
  PROVE  RowInv'
<1> USE DEF RowInv, RowTypes
<1>1. RowsInOrder' /\ OlderInv' /\ \A m : IsSaved(m) => IsSaved(m)'
  BY RowsKept DEF Fresh, Handling
<1>2. RowTypes' /\ SavedInv'
  BY DEF SavedInv, Clean, Handling, PC
<1>3. \A k : CallId(k)' = CallId(k)
  BY DEF CallId
<1>4. PICK a \in 1..Len(messages) : Results(a)
  BY DEF BatchInv
<1> DEFINE l == Len(messages)
           ms == messages'
<1>5. l \in Nat /\ Len(more) \in Nat /\ Len(ms) = l + Len(more) /\ a \in Nat /\ a <= l
  OBVIOUS
<1>6. /\ \A i \in 1..l : ms[i] = messages[i]
      /\ \A i \in 1..Len(more) : ms[l + i] = more[i]
  OBVIOUS
<1>7. \A i \in 1..Len(ms) : i \in 1..l \/ (i - l \in 1..Len(more) /\ ms[i] = more[i - l])
  <2> TAKE i \in 1..Len(ms)
  <2>1. CASE i \in 1..l
    BY <2>1
  <2>2. CASE i \notin 1..l
    <3> DEFINE j == i - l
    <3>1. j \in 1..Len(more) /\ i = l + j
      BY <1>5, <2>2
    <3> HIDE DEF j
    <3>2. ms[l + j] = more[j]
      BY <1>6, <3>1
    <3> QED BY <3>1, <3>2 DEF j
  <2> QED BY <2>1, <2>2
<1> HIDE DEF ms, l
<1>8. \A i \in (a + 1)..Len(ms) :
        \/ i \in (a + 1)..l /\ ms[i] = messages[i]
        \/ i - l \in 1..Len(more) /\ ms[i] = more[i - l]
  <2> TAKE i \in (a + 1)..Len(ms)
  <2>1. i \in 1..Len(ms)
    BY <1>5
  <2>2. i \in 1..l => i \in (a + 1)..l
    BY <1>5
  <2> QED BY <1>6, <1>7, <2>1, <2>2
<1> DEFINE Said(m) ==
             \/ m.role = "user" /\ m.answers = NoId
             \/ m.role = "tool" /\ m.text # "internal" /\ \E k \in 1..Len(reply) : m.answers = CallId(k)
<1>9. \A i \in (a + 1)..l : Said(messages[i])
  BY <1>4 DEF Results, l
<1>10. \A i \in 1..Len(more) : Said(more[i])
  <2> TAKE i \in 1..Len(more)
  <2>1. CASE more[i].role = "user" /\ more[i].answers = NoId
    BY <2>1
  <2>2. CASE more[i].role = "tool" /\ more[i].text # "internal" /\ \E n \in 1..Len(batch) : more[i].answers = CallId(batch[n])
    <3>1. PICK n \in 1..Len(batch) : more[i].answers = CallId(batch[n])
      BY <2>2
    <3>2. batch[n] \in 1..Len(reply)
      OBVIOUS
    <3> QED BY <2>2, <3>1, <3>2
  <2> QED BY <2>1, <2>2
<1>11. \A i \in (a + 1)..Len(ms) : Said(ms[i])
  <2> HIDE DEF Said
  <2> QED BY <1>8, <1>9, <1>10
<1>12. \A i \in (a + 1)..l, n \in 1..Len(batch) : messages[i].answers # CallId(batch[n])
  BY <1>4 DEF Results, l
<1>13. \A i \in (a + 1)..Len(ms), n \in 1..Len(rest) : ms[i].answers # CallId(rest[n])
  <2> TAKE i \in (a + 1)..Len(ms), n \in 1..Len(rest)
  <2>1. PICK p \in 1..Len(batch) : rest[n] = batch[p]
    OBVIOUS
  <2>2. CASE i \in (a + 1)..l /\ ms[i] = messages[i]
    BY <1>12, <2>1, <2>2
  <2>3. CASE i - l \in 1..Len(more) /\ ms[i] = more[i - l]
    BY <2>3
  <2> QED BY <1>8, <2>2, <2>3
<1>14. \A i, j \in (a + 1)..Len(ms) : i # j /\ ms[i].role = "tool" => ms[i].answers # ms[j].answers
  <2> SUFFICES ASSUME NEW i \in (a + 1)..Len(ms), NEW j \in (a + 1)..Len(ms), i # j, ms[i].role = "tool"
               PROVE  ms[i].answers # ms[j].answers
    OBVIOUS
  <2> DEFINE Old(x) == x \in (a + 1)..l /\ ms[x] = messages[x]
             New(x) == x - l \in 1..Len(more) /\ ms[x] = more[x - l]
  <2>1. (Old(i) \/ New(i)) /\ (Old(j) \/ New(j))
    BY <1>8
  <2>2. CASE Old(i) /\ Old(j)
    <3>1. \A x, y \in (a + 1)..l : x # y /\ messages[x].role = "tool" => messages[x].answers # messages[y].answers
      BY <1>4 DEF Results, l
    <3> QED BY <2>2, <3>1
  <2>3. CASE New(i) /\ New(j)
    <3>1. i - l # j - l
      BY <1>5
    <3> QED BY <2>3, <3>1
  <2>4. ASSUME NEW x \in (a + 1)..Len(ms), NEW y \in (a + 1)..Len(ms), Old(x), New(y), more[y - l].role = "tool"
        PROVE  ms[x].answers # ms[y].answers
    <3>1. PICK n \in 1..Len(batch) : more[y - l].answers = CallId(batch[n])
      BY <2>4
    <3> QED BY <1>12, <2>4, <3>1
  <2>5. CASE Old(i) /\ New(j)
    <3>1. CASE more[j - l].role = "tool"
      BY <2>4, <2>5, <3>1
    <3>2. CASE more[j - l].role # "tool"
      <4>1. ms[j].answers = NoId
        BY <2>5, <3>2
      <4>2. PICK k \in 1..Len(reply) : ms[i].answers = CallId(k)
        BY <1>11
      <4>3. CallId(k) # NoId
        BY IdTypes DEF CallId
      <4> QED BY <4>1, <4>2, <4>3
    <3> QED BY <3>1, <3>2
  <2>6. CASE New(i) /\ Old(j)
    BY <2>4, <2>6
  <2> QED BY <2>1, <2>2, <2>3, <2>5, <2>6
<1>15. \A i \in 1..(a - 1) : IsSaved(ms[i])
  <2> TAKE i \in 1..(a - 1)
  <2>1. IsSaved(messages[i]) /\ ms[i] = messages[i]
    BY <1>4, <1>5, <1>6 DEF Results
  <2> QED BY <2>1
<1>16. ms[a].role = "assistant" /\ a \in 1..Len(ms)
  BY <1>4, <1>5, <1>6 DEF Results
<1>17. Results(a)'
  BY <1>3, <1>11, <1>13, <1>14, <1>15, <1>16 DEF Results, ms, IsSaved
<1>18. BatchInv'
  BY <1>3, <1>16, <1>17 DEF BatchInv, ms
<1> QED BY <1>1, <1>2, <1>18

\* One tool is over.
LEMMA ToolDone ==
  ASSUME RowInv, pc = "running", pc' = "batch", UNCHANGED <<chat, reply, loop, round>>,
         NEW t \in Texts \ {"internal"}, NEW hints,
         hints = <<>> \/ \E x \in Texts : hints = <<UserSays(x)>>,
         messages' = Append(messages, ToolResult(CallId(Head(batch)), t)) \o hints,
         batch' \in {Tail(batch), <<>>}
  PROVE  RowInv'
<1> USE DEF RowInv, RowTypes
<1> DEFINE r == ToolResult(CallId(Head(batch)), t)
           more == <<r>> \o hints
           n == Len(batch)
<1>1. batch # <<>> /\ \A i, j \in 1..n : i # j => batch[i] # batch[j]
  BY DEF BatchInv, Handling
<1>2. n \in Nat /\ n >= 1 /\ Head(batch) = batch[1] /\ Len(Tail(batch)) = n - 1
      /\ \A i \in 1..(n - 1) : Tail(batch)[i] = batch[i + 1]
  BY <1>1
<1>3. batch[1] \in 1..Len(reply) /\ batch[1] \in Nat /\ \A i \in 1..n : batch[i] \in Nat
  BY <1>1, <1>2
<1>4. CallId(Head(batch)) \in CallIds /\ CallId(Head(batch)) # NoId
  BY <1>2, <1>3, IdTypes DEF CallId
<1>5. r \in Messages /\ r.role = "tool" /\ r.text = t /\ r.answers = CallId(batch[1])
  BY <1>2, <1>4, MessageTypes
<1>6. hints \in Seq(Messages) /\ Len(hints) \in {0, 1}
      /\ \A i \in 1..Len(hints) : hints[i].role = "user" /\ hints[i].answers = NoId
  <2>1. CASE hints = <<>>
    BY <2>1
  <2>2. CASE \E x \in Texts : hints = <<UserSays(x)>>
    <3>1. PICK x \in Texts : hints = <<UserSays(x)>>
      BY <2>2
    <3> DEFINE u == UserSays(x)
    <3>2. u \in Messages /\ u.role = "user" /\ u.answers = NoId
      BY MessageTypes
    <3> HIDE DEF u
    <3>3. hints = <<u>>
      BY <3>1 DEF u
    <3> QED BY <3>2, <3>3
  <2> QED BY <2>1, <2>2
<1> HIDE DEF r
<1>7. /\ more \in Seq(Messages) /\ Len(more) = 1 + Len(hints) /\ more[1] = r
      /\ \A i \in 2..Len(more) : more[i] = hints[i - 1] /\ i - 1 \in 1..Len(hints)
  BY <1>5, <1>6
<1>8. messages' = messages \o more
  <2>1. messages \in Seq(Messages) /\ <<r>> \in Seq(Messages)
    BY <1>5
  <2>2. messages' = (messages \o <<r>>) \o hints
    <3>1. messages' = Append(messages, r) \o hints
      BY DEF r
    <3>2. Append(messages, r) = messages \o <<r>>
      BY <1>5, <2>1
    <3> QED BY <3>1, <3>2
  <2>3. ASSUME NEW p \in Seq(Messages), NEW q \in Seq(Messages), NEW s \in Seq(Messages)
        PROVE  (p \o q) \o s = p \o (q \o s)
    <3> HIDE DEF RowInv, RowTypes
    <3> QED BY SMT
  <2>4. hints \in Seq(Messages)
    BY <1>6
  <2>5. (messages \o <<r>>) \o hints = messages \o (<<r>> \o hints)
    <3> HIDE DEF RowInv, RowTypes
    <3> QED BY <2>1, <2>3, <2>4
  <2> QED BY <2>2, <2>5
<1> HIDE DEF more
<1>9. \A i \in 2..Len(more) : more[i].role = "user" /\ more[i].answers = NoId
  BY <1>6, <1>7
<1>10. \A i \in 1..Len(more) : i = 1 \/ i \in 2..Len(more)
  BY <1>7
<1>11. /\ batch' \in Seq(1..Len(reply))
       /\ \A i \in 1..Len(batch') : i + 1 \in 1..n /\ batch'[i] = batch[i + 1]
  <2>1. CASE batch' = Tail(batch)
    BY <1>1, <1>2, <2>1
  <2>2. CASE batch' = <<>>
    BY <2>2
  <2> QED BY <2>1, <2>2
<1>12. 1 \in 1..n
  BY <1>2
<1>13. \A i \in 1..Len(batch') : batch'[i] # batch[1] /\ batch'[i] \in Nat
  <2> TAKE i \in 1..Len(batch')
  <2>1. i + 1 # 1 /\ i + 1 \in 1..n
    BY <1>11
  <2> QED BY <1>1, <1>3, <1>11, <1>12, <2>1
<1>14. \A i, j \in 1..Len(batch') : i # j => batch'[i] # batch'[j]
  <2> TAKE i, j \in 1..Len(batch')
  <2>1. i # j => i + 1 # j + 1
    OBVIOUS
  <2> QED BY <1>1, <1>11, <2>1
<1>15. \A x, y : CallId(x) = CallId(y) => x = y
  BY DEF CallId
<1>16. \A i \in 1..Len(more) :
         \/ more[i].role = "user" /\ more[i].answers = NoId
         \/ /\ more[i].role = "tool" /\ more[i].text # "internal"
            /\ \E m \in 1..n : more[i].answers = CallId(batch[m])
  BY <1>5, <1>7, <1>9, <1>10, <1>12
<1>17. \A i, j \in 1..Len(more) : i # j /\ more[i].role = "tool" => more[i].answers # more[j].answers
  BY <1>2, <1>4, <1>5, <1>7, <1>9, <1>10
<1>18. \A i \in 1..Len(more), m \in 1..Len(batch') : more[i].answers # CallId(batch'[m])
  <2> TAKE i \in 1..Len(more), m \in 1..Len(batch')
  <2>1. CallId(batch'[m]) # NoId
    BY <1>13, IdTypes DEF CallId
  <2> QED BY <1>5, <1>7, <1>9, <1>10, <1>13, <1>15, <2>1
<1>19. \A i \in 1..Len(batch') : \E p \in 1..n : batch'[i] = batch[p]
  BY <1>11
<1> QED
  BY <1>7, <1>8, <1>11, <1>14, <1>16, <1>17, <1>18, <1>19, ResultsAdded DEF Handling, n

\* Where no batch is handled: the rows gain at most what the agent or the user says, and the
\* results in the messages were in the messages before.
LEMMA OutsideBatch ==
  ASSUME RowInv, pc' \in PC, pc' \notin Handling, loop' = loop, UNCHANGED <<reply, batch>>,
         messages' \in Seq(Messages), round' \in Nat, round <= round',
         pc \in Fresh \/ pc' \notin Fresh \/ round < round',
         \/ chat' = chat
         \/ \E row \in Messages : row.role # "tool" /\ row.answers = NoId /\ chat' = Append(chat, row),
         pc' \in Clean =>
           /\ pc \in Clean
           /\ \A i \in 1..Len(messages') :
                messages'[i].role = "tool" /\ messages'[i].text # "unavailable"
                  => \E j \in 1..Len(messages) : messages'[i] = messages[j]
  PROVE  RowInv'
<1>1. RowsInOrder' /\ OlderInv' /\ \A m \in Messages : IsSaved(m) => IsSaved(m)'
  <2>1. CASE chat' = chat
    BY <2>1, RowsKept
  <2>2. CASE \E row \in Messages : row.role # "tool" /\ row.answers = NoId /\ chat' = Append(chat, row)
    BY <2>2, RowAdded
  <2> QED BY <2>1, <2>2
<1>2. RowTypes'
  <2>1. chat' \in Seq(Messages)
    <3>1. CASE chat' = chat
      BY <3>1 DEF RowInv, RowTypes
    <3>2. CASE \E row \in Messages : row.role # "tool" /\ row.answers = NoId /\ chat' = Append(chat, row)
      BY <3>2 DEF RowInv, RowTypes
    <3> QED BY <3>1, <3>2
  <2> QED BY <2>1 DEF RowInv, RowTypes
<1>3. SavedInv'
  <2> SUFFICES ASSUME pc' \in Clean, NEW i \in 1..Len(messages'), messages'[i].role = "tool",
                      messages'[i].text # "unavailable"
               PROVE  \E j \in 1..Len(chat') : messages'[i] = chat'[j]
    BY DEF SavedInv, IsSaved
  <2>1. PICK j \in 1..Len(messages) : messages'[i] = messages[j]
    OBVIOUS
  <2>2. messages[j] \in Messages /\ IsSaved(messages[j])
    BY DEF RowInv, RowTypes, SavedInv
  <2> DEFINE m == messages[j]
  <2>3. PICK n \in Messages : n = messages[j]
    BY <2>2
  <2>4. IsSaved(n)'
    BY <1>1, <2>2, <2>3
  <2> QED BY <2>1, <2>3, <2>4 DEF IsSaved
<1>4. BatchInv'
  BY DEF BatchInv
<1> QED BY <1>1, <1>2, <1>3, <1>4 DEF RowInv

\* The rows of a batch are saved.
LEMMA BatchSaved ==
  ASSUME RowInv, pc = "settling", pc' \in PC, pc' \notin Handling, loop' = loop,
         UNCHANGED <<messages, reply, batch>>, chat' = chat \o Unsaved(messages),
         \/ round' = round /\ pc' \notin Fresh
         \/ round' = round + 1
  PROVE  RowInv'
<1> DEFINE u == Unsaved(messages)
           n == Len(chat)
<1>1. /\ messages \in Seq(Messages) /\ chat \in Seq(Messages) /\ loop \in {1, 2} /\ round \in Nat
      /\ n \in Nat /\ Len(messages) \in Nat
  BY DEF RowInv, RowTypes
<1>2. PICK a \in 1..Len(messages) : Results(a)
  BY DEF RowInv, BatchInv, Handling
<1>3. \A i \in (a + 1)..Len(messages) : messages[i].role # "assistant"
  BY <1>2 DEF Results
<1>4. messages[a].role = "assistant"
  BY <1>2 DEF Results
<1>5. u \in Seq(Messages)
  BY <1>1, <1>3, <1>4, UnsavedIs
<1>6. PICK f \in [1..Len(u) -> (a + 1)..Len(messages)] :
        /\ \A i, j \in 1..Len(u) : i < j => f[i] < f[j]
        /\ \A i \in 1..Len(u) : u[i] = messages[f[i]]
        /\ \A p \in (a + 1)..Len(messages) : messages[p].text # "internal" => \E i \in 1..Len(u) : f[i] = p
  BY <1>1, <1>3, <1>4, UnsavedIs
<1> HIDE DEF u
<1>7. \A i \in 1..Len(u) : u[i].role = "tool" => \E k \in 1..Len(reply) : u[i].answers = CallId(k)
  <2> TAKE i \in 1..Len(u)
  <2>1. f[i] \in (a + 1)..Len(messages) /\ u[i] = messages[f[i]]
    BY <1>6
  <2>2. messages[f[i]].role = "tool" => \E k \in 1..Len(reply) : messages[f[i]].answers = CallId(k)
    BY <1>2, <2>1 DEF Results
  <2> QED BY <2>1, <2>2
<1>8. \A i \in 1..Len(u) : u[i].role # "tool" => u[i].answers = NoId
  <2> TAKE i \in 1..Len(u)
  <2>1. f[i] \in (a + 1)..Len(messages) /\ u[i] = messages[f[i]]
    BY <1>6
  <2> QED BY <1>2, <2>1 DEF Results
<1>9. PICK h \in 1..n : \A k \in 1..Len(reply) : CallId(k) \in Range(chat[h].calls)
  BY DEF RowInv, BatchInv, Handling
<1>10. \A i \in 1..n : chat[i].answers # NoId => Earlier(chat[i].answers) /\ chat[i].answers \in CallIds
  <2> TAKE i \in 1..n
  <2>1. chat[i] \in Messages
    BY <1>1
  <2> QED BY <2>1 DEF RowInv, OlderInv, Messages
<1>11. ASSUME NEW k \in 1..Len(reply)
       PROVE  /\ CallId(k) # NoId /\ ~ Earlier(CallId(k))
              /\ \A id : id = CallId(k) => Earlier(id)'
  <2>0. k \in Nat /\ loop' = loop /\ loop \in Nat /\ round' \in Nat
    BY <1>1 DEF RowInv, RowTypes
  <2>1. CallId(k) # NoId
    BY <1>1, <2>0, IdTypes DEF CallId
  <2>2. CallId(k)[1] = loop /\ CallId(k)[2] = round
    BY DEF CallId
  <2>3. ~ Earlier(CallId(k))
    BY <1>1, <2>0, <2>2 DEF Earlier, Fresh
  <2>4. ASSUME NEW id, id = CallId(k) PROVE Earlier(id)'
    <3>1. id[1] = loop /\ id[2] = round
      BY <2>2, <2>4
    <3> QED BY <1>1, <2>0, <3>1 DEF Earlier
  <2> QED BY <2>1, <2>3, <2>4
<1>12. \A i \in 1..n, k \in 1..Len(reply) : chat[i].answers # CallId(k)
  BY <1>10, <1>11
<1>13. RowsOrdered(chat \o u)
  <2>1. RowsOrdered(chat)
    BY DEF RowInv, RowsInOrder, RowsOrdered
  <2>2. ASSUME NEW i \in 1..Len(u), u[i].role = "tool"
        PROVE  /\ \E g \in 1..Len(chat) : u[i].answers \in Range(chat[g].calls)
               /\ \A g \in 1..Len(chat) : chat[g].answers # u[i].answers
               /\ \A g \in 1..(i - 1) : u[g].answers # u[i].answers
    <3>1. PICK k \in 1..Len(reply) : u[i].answers = CallId(k)
      BY <1>7, <2>2
    <3>2. ASSUME NEW g \in 1..(i - 1) PROVE u[g].answers # u[i].answers
      <4>1. g \in 1..Len(u) /\ g < i
        BY <1>5
      <4>2. f[g] \in (a + 1)..Len(messages) /\ f[i] \in (a + 1)..Len(messages) /\ f[g] < f[i]
        BY <1>6, <4>1
      <4>3. f[g] # f[i]
        BY <1>1, <4>2
      <4>4. messages[f[i]].role = "tool" /\ messages[f[i]] = u[i] /\ messages[f[g]] = u[g]
        BY <1>6, <2>2, <4>1
      <4>5. messages[f[i]].answers # messages[f[g]].answers
        BY <1>2, <4>2, <4>3, <4>4 DEF Results
      <4> QED BY <4>4, <4>5
    <3> QED BY <1>9, <1>12, <3>1, <3>2
  <2> QED BY <1>1, <1>5, <2>1, <2>2, OrderKept
<1>14. RowsInOrder'
  BY <1>13 DEF RowsInOrder, RowsOrdered, u
<1>15. /\ chat' \in Seq(Messages) /\ Len(chat') = n + Len(u) /\ Len(u) \in Nat
       /\ \A i \in 1..n : chat'[i] = chat[i]
       /\ \A i \in 1..Len(u) : chat'[n + i] = u[i]
  <2>1. chat' = chat \o u
    BY DEF u
  <2> QED BY <1>1, <1>5, <2>1
<1>16. \A i \in 1..Len(chat') : chat'[i].answers # NoId => Earlier(chat[i].answers)'
  <2> TAKE i \in 1..Len(chat')
  <2>1. CASE i \in 1..n
    <3>1. \A id \in CallIds : Earlier(id) => Earlier(id)'
      BY <1>1 DEF CallIds, Earlier, Fresh
    <3>2. chat'[i] = chat[i]
      BY <1>15, <2>1
    <3> QED BY <1>10, <2>1, <3>1, <3>2 DEF Earlier
  <2>2. CASE i \notin 1..n
    <3>1. PICK j \in 1..Len(u) : i = n + j
      <4>1. i - n \in 1..Len(u) /\ i = n + (i - n)
        BY <1>1, <1>15, <2>2
      <4> QED BY <4>1
    <3>2. chat'[i] = u[j]
      BY <1>15, <3>1
    <3>3. CASE u[j].role = "tool"
      <4>1. PICK k \in 1..Len(reply) : u[j].answers = CallId(k)
        BY <1>7, <3>3
      <4>2. PICK id : id = CallId(k)
        OBVIOUS
      <4> QED BY <1>11, <3>2, <4>1, <4>2 DEF Earlier
    <3>4. CASE u[j].role # "tool"
      BY <1>8, <3>2, <3>4
    <3> QED BY <3>3, <3>4
  <2> QED BY <2>1, <2>2
<1>17. OlderInv'
  BY <1>16 DEF OlderInv
<1>18. ASSUME NEW i \in 1..Len(messages), messages[i].role = "tool", messages[i].text # "unavailable"
       PROVE  \E j \in 1..Len(chat') : messages[i] = chat'[j]
  <2>1. CASE i \in 1..(a - 1)
    <3>1. PICK j \in 1..n : messages[i] = chat[j]
      BY <1>2, <1>18, <2>1 DEF Results, IsSaved
    <3> QED BY <1>1, <1>15, <3>1
  <2>2. CASE i = a
    BY <1>4, <1>18, <2>2
  <2>3. CASE i \in (a + 1)..Len(messages)
    <3>1. messages[i].text # "internal"
      BY <1>2, <1>18, <2>3 DEF Results
    <3>2. PICK j \in 1..Len(u) : f[j] = i
      BY <1>6, <2>3, <3>1
    <3>3. u[j] = messages[i] /\ chat'[n + j] = u[j]
      BY <1>6, <1>15, <3>2
    <3>4. n + j \in 1..Len(chat')
      BY <1>1, <1>15
    <3> QED BY <3>3, <3>4
  <2>4. i \in 1..(a - 1) \/ i = a \/ i \in (a + 1)..Len(messages)
    BY <1>1
  <2> QED BY <2>1, <2>2, <2>3, <2>4
<1>19. SavedInv'
  BY <1>18 DEF SavedInv, IsSaved
<1>20. RowTypes'
  BY <1>15 DEF RowInv, RowTypes
<1>21. BatchInv'
  BY DEF BatchInv
<1> QED BY <1>14, <1>17, <1>19, <1>20, <1>21 DEF RowInv

\* A reply with tool calls begins a batch.
LEMMA BatchBegins == RowInv /\ CallTools => RowInv'
<1> SUFFICES ASSUME RowInv, CallTools PROVE RowInv'
  OBVIOUS
<1>1. pc = "calling" /\ pc' = "batch" /\ UNCHANGED <<loop, round>>
  BY DEF CallTools, At
<1>2. PICK calls \in Replies :
        /\ reply' = calls
        /\ batch' = Allowed(calls)
        /\ chat' = Append(chat, AssistantSays([k \in 1..Len(calls) |-> CallId(k)]))
        /\ messages' = Append(messages, AssistantSays([k \in 1..Len(calls) |-> CallId(k)])) \o
             [n \in 1..Len(Denied(calls)) |->
                ToolResult([k \in 1..Len(calls) |-> CallId(k)][Denied(calls)[n]], "plain")]
  BY DEF CallTools
<1>3. calls \in Seq(CallKinds) /\ Len(calls) \in Nat
  <2>1. PICK n \in 1..MaxCalls : calls \in [1..n -> CallKinds]
    BY <1>2 DEF Replies
  <2>2. n \in Nat
    BY ConstantsOK
  <2> QED BY <2>1, <2>2
<1>4. /\ messages \in Seq(Messages) /\ chat \in Seq(Messages) /\ loop \in {1, 2} /\ round \in Nat
      /\ Len(messages) \in Nat
  BY DEF RowInv, RowTypes
<1> DEFINE ids == [k \in 1..Len(calls) |-> CallId(k)]
           row == AssistantSays(ids)
           d   == Denied(calls)
           den == [n \in 1..Len(d) |-> ToolResult(ids[d[n]], "plain")]
           b   == Allowed(calls)
<1>5. /\ ids \in Seq(CallIds) /\ DOMAIN ids = 1..Len(calls)
      /\ \A k \in 1..Len(calls) : ids[k] = CallId(k) /\ CallId(k) \in CallIds /\ CallId(k) # NoId
  <2>1. \A k \in 1..Len(calls) : CallId(k) \in CallIds /\ CallId(k) # NoId
    BY <1>3, <1>4, IdTypes DEF CallId
  <2> QED BY <1>3, <2>1
<1>6. chat' = Append(chat, row) /\ messages' = Append(messages, row) \o den /\ batch' = b
  BY <1>2
<1> HIDE DEF ids
<1>7. row \in Messages /\ row.role = "assistant" /\ row.answers = NoId /\ row.calls = ids
  BY <1>5, MessageTypes
<1> HIDE DEF row
<1>8. /\ d \in Seq(1..Len(calls)) /\ \A i \in 1..Len(d) : d[i] \in 1..Len(calls) /\ calls[d[i]] = "denied"
      /\ \A i, j \in 1..Len(d) : i # j => d[i] # d[j]
  <2> DEFINE P == {k \in DOMAIN calls : calls[k] = "denied"}
  <2>1. P \in SUBSET (1..Len(calls))
    BY <1>3
  <2>2. d = Chosen(Positions(calls), P)
    BY DEF Denied
  <2> HIDE DEF d, P
  <2>3. /\ d \in Seq(1..Len(calls)) /\ \A i \in 1..Len(d) : d[i] \in P
        /\ \A i, j \in 1..Len(d) : i # j => d[i] # d[j]
    BY <1>3, <2>1, <2>2, PositionsChosen
  <2>4. \A k \in P : k \in 1..Len(calls) /\ calls[k] = "denied"
    BY <1>3 DEF P
  <2> QED BY <2>3, <2>4
<1>9. /\ b \in Seq(1..Len(calls)) /\ \A i \in 1..Len(b) : b[i] \in 1..Len(calls) /\ calls[b[i]] # "denied"
      /\ \A i, j \in 1..Len(b) : i # j => b[i] # b[j]
  <2> DEFINE P == {k \in DOMAIN calls : calls[k] # "denied"}
  <2>1. P \in SUBSET (1..Len(calls))
    BY <1>3
  <2>2. b = Chosen(Positions(calls), P)
    BY DEF Allowed
  <2> HIDE DEF b, P
  <2>3. /\ b \in Seq(1..Len(calls)) /\ \A i \in 1..Len(b) : b[i] \in P
        /\ \A i, j \in 1..Len(b) : i # j => b[i] # b[j]
    BY <1>3, <2>1, <2>2, PositionsChosen
  <2>4. \A k \in P : k \in 1..Len(calls) /\ calls[k] # "denied"
    BY <1>3 DEF P
  <2> QED BY <2>3, <2>4
<1> HIDE DEF d, b
<1>10. /\ Len(d) \in Nat /\ Len(b) \in Nat
  BY <1>8, <1>9
<1>11. \A i \in 1..Len(d) : /\ den[i] \in Messages /\ den[i].role = "tool" /\ den[i].text = "plain"
                            /\ den[i].answers = CallId(d[i])
  <2> TAKE i \in 1..Len(d)
  <2>1. den[i] = ToolResult(CallId(d[i]), "plain") /\ CallId(d[i]) \in CallIds
    BY <1>5, <1>8
  <2> HIDE DEF den
  <2> QED BY <2>1, MessageTypes DEF Texts
<1>12. den \in Seq(Messages) /\ Len(den) = Len(d)
  <2>1. \A i \in 1..Len(d) : ToolResult(ids[d[i]], "plain") \in Messages
    BY <1>11
  <2> QED BY <1>10, <2>1
<1> HIDE DEF den
<1>13. PICK a \in Nat : a = Len(messages) + 1
  BY <1>4
<1>14. /\ messages' \in Seq(Messages) /\ Len(messages') = a + Len(d) /\ messages'[a] = row
       /\ \A i \in 1..(a - 1) : messages'[i] = messages[i]
       /\ \A i \in 1..Len(d) : messages'[a + i] = den[i]
  <2> DEFINE s == Append(messages, row)
  <2>1. s \in Seq(Messages) /\ Len(s) = a /\ s[a] = row /\ \A i \in 1..(a - 1) : s[i] = messages[i]
    BY <1>4, <1>7, <1>13
  <2>2. messages' = s \o den
    BY <1>6
  <2> HIDE DEF s
  <2>3. /\ s \o den \in Seq(Messages) /\ Len(s \o den) = a + Len(d)
        /\ \A i \in 1..Len(s) : (s \o den)[i] = s[i]
        /\ \A i \in 1..Len(den) : (s \o den)[Len(s) + i] = den[i]
    BY <1>12, <2>1
  <2>4. a \in 1..Len(s) /\ \A i \in 1..(a - 1) : i \in 1..Len(s)
    BY <1>4, <1>13, <2>1
  <2> QED BY <1>12, <1>13, <2>1, <2>2, <2>3, <2>4
<1>15. \A i \in (a + 1)..Len(messages') : \E j \in 1..Len(d) : i = a + j /\ messages'[i] = den[j]
  <2> TAKE i \in (a + 1)..Len(messages')
  <2>1. i - a \in 1..Len(d) /\ i = a + (i - a)
    BY <1>10, <1>13, <1>14
  <2>2. PICK j \in 1..Len(d) : i = a + j
    BY <2>1
  <2> QED BY <1>14, <2>2
<1>16. /\ chat' \in Seq(Messages) /\ RowsInOrder' /\ OlderInv'
       /\ \A m \in Messages : IsSaved(m) => IsSaved(m)'
       /\ chat'[Len(chat')] = row /\ Len(chat') \in 1..Len(chat')
  BY <1>1, <1>4, <1>6, <1>7, RowAdded DEF Fresh
<1>17. RowTypes'
  BY <1>1, <1>2, <1>3, <1>4, <1>6, <1>9, <1>14, <1>16 DEF RowTypes, PC
<1>18. SavedInv'
  BY <1>1 DEF SavedInv, Clean
<1>19. \A k : CallId(k)' = CallId(k)
  BY <1>1 DEF CallId
<1>20. \A x, y : CallId(x) = CallId(y) => x = y
  BY DEF CallId
<1>21. \A i \in 1..(a - 1) : messages'[i].role = "tool" /\ messages'[i].text # "unavailable" =>
         \E j \in 1..Len(chat') : messages'[i] = chat'[j]
  <2> TAKE i \in 1..(a - 1)
  <2>1. i \in 1..Len(messages) /\ messages'[i] = messages[i]
    BY <1>13, <1>14
  <2>2. messages[i] \in Messages /\ IsSaved(messages[i])
    BY <1>1, <1>4, <2>1 DEF RowInv, SavedInv, Clean
  <2>3. PICK m \in Messages : m = messages[i]
    BY <2>2
  <2>4. IsSaved(m)'
    BY <1>16, <2>2, <2>3
  <2> QED BY <2>1, <2>3, <2>4 DEF IsSaved
<1>22. \A i \in (a + 1)..Len(messages') :
         /\ messages'[i].role = "tool" /\ messages'[i].text # "internal"
         /\ \E k \in 1..Len(calls) : messages'[i].answers = CallId(k)
  <2> TAKE i \in (a + 1)..Len(messages')
  <2>1. PICK j \in 1..Len(d) : messages'[i] = den[j]
    BY <1>15
  <2> QED BY <1>8, <1>11, <2>1
<1>23. \A i, j \in (a + 1)..Len(messages') : i # j => messages'[i].answers # messages'[j].answers
  <2> TAKE i, j \in (a + 1)..Len(messages')
  <2>1. PICK x \in 1..Len(d) : i = a + x /\ messages'[i] = den[x]
    BY <1>15
  <2>2. PICK y \in 1..Len(d) : j = a + y /\ messages'[j] = den[y]
    BY <1>15
  <2>3. i # j => d[x] # d[y]
    BY <1>8, <2>1, <2>2
  <2>4. messages'[i].answers = CallId(d[x]) /\ messages'[j].answers = CallId(d[y])
    BY <1>11, <2>1, <2>2
  <2> QED BY <1>20, <2>3, <2>4
<1>24. \A i \in (a + 1)..Len(messages'), n \in 1..Len(b) : messages'[i].answers # CallId(b[n])
  <2> TAKE i \in (a + 1)..Len(messages'), n \in 1..Len(b)
  <2>1. PICK x \in 1..Len(d) : messages'[i] = den[x]
    BY <1>15
  <2>2. d[x] # b[n]
    BY <1>8, <1>9
  <2> QED BY <1>11, <1>20, <2>1, <2>2
<1>25. Results(a)'
  <2>1. messages'[a].role = "assistant"
    BY <1>7, <1>14
  <2> QED BY <1>2, <1>6, <1>19, <1>21, <1>22, <1>23, <1>24, <2>1 DEF Results, IsSaved
<1>26. BatchInv'
  <2>1. a \in 1..Len(messages')
    BY <1>10, <1>13, <1>14
  <2>2. \A k \in 1..Len(calls) : CallId(k) \in Range(chat'[Len(chat')].calls)
    BY <1>5, <1>7, <1>16 DEF Range
  <2>3. PICK h \in 1..Len(chat') : h = Len(chat')
    BY <1>16
  <2>4. \A k \in 1..Len(reply') : CallId(k)' \in Range(chat'[h].calls)
    BY <1>2, <1>19, <2>2, <2>3
  <2> QED BY <1>1, <1>6, <1>9, <1>25, <2>1, <2>4 DEF BatchInv
<1> QED BY <1>16, <1>17, <1>18, <1>26 DEF RowInv

\* No result of a tool is marked as internal.
LEMMA ResultTexts == \A kind : ResultText(kind) \in Texts \ {"internal"}
BY DEF ResultText, Texts

\* The calls of a batch that run in parallel.
LEMMA AllRun == RowInv /\ RunParallel => RowInv'
<1> SUFFICES ASSUME RowInv, RunParallel PROVE RowInv'
  OBVIOUS
<1>1. /\ pc = "batch" /\ pc' = "settling" /\ UNCHANGED <<chat, reply, loop, round>> /\ batch' = <<>>
      /\ messages' = messages \o [n \in 1..Len(batch) |-> ResultOfCall(batch[n])]
  BY DEF RunParallel, At
<1> DEFINE more == [n \in 1..Len(batch) |-> ResultOfCall(batch[n])]
<1>2. /\ reply \in Seq(CallKinds) /\ batch \in Seq(1..Len(reply)) /\ loop \in {1, 2} /\ round \in Nat
      /\ Len(batch) \in Nat
  BY DEF RowInv, RowTypes
<1>3. \A i, j \in 1..Len(batch) : i # j => batch[i] # batch[j]
  BY <1>1 DEF RowInv, BatchInv, Handling
<1>4. \A i \in 1..Len(batch) :
        /\ ResultOfCall(batch[i]) \in Messages /\ ResultOfCall(batch[i]).role = "tool"
        /\ ResultOfCall(batch[i]).text # "internal"
        /\ ResultOfCall(batch[i]).answers = CallId(batch[i])
  <2> TAKE i \in 1..Len(batch)
  <2>1. batch[i] \in Nat
    BY <1>2
  <2>2. CallId(batch[i]) \in CallIds
    BY <1>2, <2>1, IdTypes DEF CallId
  <2> QED BY <2>2, ResultTexts, MessageTypes DEF ResultOfCall
<1>5. more \in Seq(Messages) /\ Len(more) = Len(batch)
  BY <1>2, <1>4
<1>6. \A i \in 1..Len(more) : more[i] = ResultOfCall(batch[i])
  BY <1>5
<1> HIDE DEF more
<1>7. \A x, y : CallId(x) = CallId(y) => x = y
  BY DEF CallId
<1>8. \A i \in 1..Len(more) :
        /\ more[i].role = "tool" /\ more[i].text # "internal"
        /\ \E n \in 1..Len(batch) : more[i].answers = CallId(batch[n])
  BY <1>4, <1>5, <1>6
<1>9. \A i, j \in 1..Len(more) : i # j => more[i].answers # more[j].answers
  BY <1>3, <1>4, <1>5, <1>6, <1>7
<1>10. messages' = messages \o more
  BY <1>1 DEF more
<1> DEFINE rest == <<>>
<1>11. /\ rest \in Seq(1..Len(reply)) /\ Len(rest) = 0 /\ batch' = rest /\ pc' # "running"
       /\ pc \in Handling /\ pc' \in Handling
  BY <1>1 DEF Handling
<1> HIDE DEF rest
<1>12. /\ \A i \in 1..Len(more), n \in 1..Len(rest) : more[i].answers # CallId(rest[n])
       /\ \A n \in 1..Len(rest) : \E p \in 1..Len(batch) : rest[n] = batch[p]
       /\ \A i, j \in 1..Len(rest) : i # j => rest[i] # rest[j]
  BY <1>11
<1>13. /\ \A i \in 1..Len(more) :
            \/ more[i].role = "user" /\ more[i].answers = NoId
            \/ /\ more[i].role = "tool" /\ more[i].text # "internal"
               /\ \E n \in 1..Len(batch) : more[i].answers = CallId(batch[n])
       /\ \A i, j \in 1..Len(more) : i # j /\ more[i].role = "tool" => more[i].answers # more[j].answers
  BY <1>8, <1>9
<1> QED BY <1>1, <1>5, <1>10, <1>11, <1>12, <1>13, ResultsAdded

\* A tool runs, or is refused by a hook.
LEMMA ToolRuns ==
  ASSUME RowInv, NEW hints, hints = <<>> \/ \E x \in Texts : hints = <<UserSays(x)>>,
         RunTool(hints), batch' \in {Tail(batch), <<>>}
  PROVE  RowInv'
<1> DEFINE t == ResultText(reply[Head(batch)])
<1>1. /\ pc = "running" /\ pc' = "batch" /\ UNCHANGED <<chat, reply, loop, round>>
      /\ messages' = Append(messages, ToolResult(CallId(Head(batch)), t)) \o hints
  BY DEF RunTool, At, ResultOfCall
<1>2. t \in Texts \ {"internal"}
  BY ResultTexts
<1> HIDE DEF t
<1> QED BY <1>1, <1>2, ToolDone

\* The BeforeToolCall hook refuses: the call has its result all the same.
LEMMA ToolRefused == RowInv /\ RejectTool => RowInv'
<1> SUFFICES ASSUME RowInv, RejectTool PROVE RowInv'
  OBVIOUS
<1>1. /\ pc = "running" /\ pc' = "batch" /\ UNCHANGED <<chat, reply, loop, round>> /\ batch' = Tail(batch)
      /\ messages' = Append(messages, ToolResult(CallId(Head(batch)), "plain"))
  BY DEF RejectTool, At
<1>2. messages' \in Seq(Messages)
  <2>1. batch # <<>> /\ batch \in Seq(1..Len(reply))
    BY <1>1 DEF RowInv, RowTypes, BatchInv, Handling
  <2>2. Head(batch) \in Nat
    BY <2>1
  <2>3. CallId(Head(batch)) \in CallIds
    BY <2>2, IdTypes DEF CallId, RowInv, RowTypes
  <2>4. ToolResult(CallId(Head(batch)), "plain") \in Messages
    BY <2>3, MessageTypes DEF Texts
  <2> QED BY <1>1, <2>4 DEF RowInv, RowTypes
<1>3. messages' = Append(messages, ToolResult(CallId(Head(batch)), "plain")) \o <<>>
  BY <1>1, <1>2
<1>4. "plain" \in Texts \ {"internal"}
  BY DEF Texts
<1> QED BY <1>1, <1>3, <1>4, ToolDone

\* The second loop begins with the errors and nothing else.
LEMMA Repairs == RowInv /\ Repair => RowInv'
<1> SUFFICES ASSUME RowInv, Repair PROVE RowInv'
  OBVIOUS
<1>1. /\ pc = "returned" /\ loop = 1 /\ pc' = "round" /\ loop' = 2 /\ round' = 0
      /\ messages' = <<UserSays("plain")>> /\ UNCHANGED <<chat, reply, batch>>
  BY DEF Repair, work
<1>2. UserSays("plain") \in Messages /\ UserSays("plain").role = "user"
  BY MessageTypes DEF Texts
<1>3. messages' \in Seq(Messages) /\ \A i \in 1..Len(messages') : messages'[i].role = "user"
  BY <1>1, <1>2
<1>4. RowTypes'
  BY <1>1, <1>3 DEF RowInv, RowTypes, PC
<1>5. OlderInv'
  <2> SUFFICES ASSUME NEW i \in 1..Len(chat), chat[i].answers # NoId PROVE Earlier(chat[i].answers)'
    BY <1>1 DEF OlderInv
  <2>1. chat[i] \in Messages
    BY DEF RowInv, RowTypes
  <2>2. chat[i].answers[1] \in {1, 2} /\ Earlier(chat[i].answers)
    BY <2>1 DEF RowInv, OlderInv, Messages, CallIds
  <2>3. chat[i].answers[1] = 1
    BY <1>1, <2>2 DEF Earlier
  <2> QED BY <1>1, <2>3 DEF Earlier
<1>6. SavedInv' /\ BatchInv' /\ RowsInOrder'
  BY <1>1, <1>3 DEF SavedInv, IsSaved, BatchInv, Handling, RowInv, RowsInOrder
<1> QED BY <1>4, <1>5, <1>6 DEF RowInv

\* More of what the agent or the user says is no result.
LEMMA NoResultAdded ==
  ASSUME RowInv, NEW more \in Seq(Messages), \A i \in 1..Len(more) : more[i].role # "tool",
         messages' = messages \o more
  PROVE  /\ messages' \in Seq(Messages)
         /\ \A i \in 1..Len(messages') :
              messages'[i].role = "tool" => \E j \in 1..Len(messages) : messages'[i] = messages[j]
<1>1. messages \in Seq(Messages)
  BY DEF RowInv, RowTypes
<1>2. messages' \in Seq(Messages) /\ Len(messages') = Len(messages) + Len(more)
  BY <1>1
<1>3. ASSUME NEW i \in 1..Len(messages'), messages'[i].role = "tool"
      PROVE  \E j \in 1..Len(messages) : messages'[i] = messages[j]
  <2>1. CASE i \in 1..Len(messages)
    BY <1>1, <2>1
  <2>2. CASE i \notin 1..Len(messages)
    <3>1. i - Len(messages) \in 1..Len(more) /\ messages'[i] = more[i - Len(messages)]
      BY <1>1, <1>2, <2>2
    <3> QED BY <1>3, <3>1
  <2> QED BY <2>1, <2>2
<1> QED BY <1>2, <1>3

\* The nudge, and what follows an empty reply.
LEMMA HintAdded ==
  ASSUME RowInv, messages' = messages \o <<AssistantSays(<<>>), UserSays("internal")>>
  PROVE  /\ messages' \in Seq(Messages)
         /\ \A i \in 1..Len(messages') :
              messages'[i].role = "tool" => \E j \in 1..Len(messages) : messages'[i] = messages[j]
<1> DEFINE x == AssistantSays(<<>>)
           y == UserSays("internal")
           more == <<x, y>>
<1>1. x \in Messages /\ x.role = "assistant" /\ y \in Messages /\ y.role = "user"
  <2>1. <<>> \in Seq(CallIds)
    OBVIOUS
  <2> QED BY <2>1, MessageTypes DEF Texts
<1>2. messages' = messages \o more
  OBVIOUS
<1> HIDE DEF x, y
<1>3. more \in Seq(Messages) /\ \A i \in 1..Len(more) : more[i].role # "tool"
  BY <1>1
<1> HIDE DEF more
<1> QED BY <1>2, <1>3, NoResultAdded

\* Each step keeps the rows in order and what is seen saved.
LEMMA RowStep == RowInv /\ [Next]_vars => RowInv'
<1> SUFFICES ASSUME RowInv, [Next]_vars PROVE RowInv'
  OBVIOUS
<1>1. /\ pc \in PC /\ loop \in {1, 2} /\ round \in Nat /\ messages \in Seq(Messages)
  BY DEF RowInv, RowTypes
<1>2. \A i \in 1..Len(messages) : \E j \in 1..Len(messages) : messages[i] = messages[j]
  OBVIOUS
<1>3. /\ AssistantSays(<<>>) \in Messages /\ AssistantSays(<<>>).role # "tool"
      /\ AssistantSays(<<>>).answers = NoId
      /\ UserSays("plain") \in Messages /\ UserSays("plain").role # "tool"
      /\ UserSays("plain").answers = NoId /\ UserSays("internal") \in Messages
  <2>1. <<>> \in Seq(CallIds)
    OBVIOUS
  <2> QED BY <2>1, MessageTypes DEF Texts
<1>4. CASE StartRound
  BY <1>1, <1>2, <1>4, OutsideBatch DEF StartRound, At, talk, work, PC, Fresh, Clean, Handling
<1>5. CASE StopRounds
  BY <1>1, <1>2, <1>5, OutsideBatch DEF StopRounds, At, talk, work, PC, Fresh, Clean, Handling
<1>6. CASE SendRequest
  <2>1. /\ messages' \in Seq(Messages)
        /\ \A i \in 1..Len(messages') :
             messages'[i].role = "tool" /\ messages'[i].text # "unavailable"
               => \E j \in 1..Len(messages) : messages'[i] = messages[j]
    BY <1>1, <1>6, SanitizedKeeps DEF SendRequest
  <2> QED BY <1>1, <1>6, <2>1, OutsideBatch DEF SendRequest, At, work, PC, Fresh, Clean, Handling
<1>7. CASE RetryCall
  BY <1>1, <1>2, <1>7, OutsideBatch DEF RetryCall, GoOn, At, talk, work, PC, Fresh, Clean, Handling
<1>8. CASE FailCall \/ HasAnswer \/ EndTurn \/ AbandonBatch \/ SubagentSilent
  BY <1>1, <1>2, <1>8, OutsideBatch
     DEF FailCall, HasAnswer, EndTurn, AbandonBatch, SubagentSilent, Move, At, talk, work, PC, Fresh, Clean, Handling
<1>9. CASE ExceedTokens
  BY <1>1, <1>2, <1>9, OutsideBatch DEF ExceedTokens, At, talk, work, PC, Fresh, Clean, Handling
<1>10. CASE Nudge
  <2>1. messages' = messages \o <<AssistantSays(<<>>), UserSays("internal")>>
    BY <1>10 DEF Nudge
  <2>2. /\ messages' \in Seq(Messages)
        /\ \A i \in 1..Len(messages') :
             messages'[i].role = "tool" => \E j \in 1..Len(messages) : messages'[i] = messages[j]
    BY <2>1, HintAdded
  <2> QED BY <1>1, <1>10, <2>2, OutsideBatch DEF Nudge, GoOn, At, work, PC, Fresh, Clean, Handling
<1>11. CASE RetryEmpty
  <2>1. CASE messages' = messages
    BY <1>1, <1>2, <1>11, <2>1, OutsideBatch DEF RetryEmpty, GoOn, At, work, PC, Fresh, Clean, Handling
  <2>2. CASE messages' = messages \o <<AssistantSays(<<>>), UserSays("internal")>>
    <3>1. /\ messages' \in Seq(Messages)
          /\ \A i \in 1..Len(messages') :
               messages'[i].role = "tool" => \E j \in 1..Len(messages) : messages'[i] = messages[j]
      BY <2>2, HintAdded
    <3> QED BY <1>1, <1>11, <3>1, OutsideBatch DEF RetryEmpty, GoOn, At, work, PC, Fresh, Clean, Handling
  <2> QED BY <1>11, <2>1, <2>2 DEF RetryEmpty
<1>12. CASE FinalAnswer
  BY <1>1, <1>2, <1>3, <1>12, OutsideBatch DEF FinalAnswer, At, work, PC, Fresh, Clean, Handling
<1>13. CASE CallTools
  BY <1>13, BatchBegins
<1>14. CASE RunParallel
  BY <1>14, AllRun
<1>15. CASE BeginTool
  BY <1>1, <1>15, QuietStep DEF BeginTool, Move, At, talk, work, PC, Fresh, Clean, Handling
<1>16. CASE EndBatch
  BY <1>1, <1>16, QuietStep DEF EndBatch, Move, At, talk, work, PC, Fresh, Clean, Handling
<1>17. CASE RejectTool
  BY <1>17, ToolRefused
<1>18. CASE InstallPackage
  BY <1>18, ToolRuns DEF InstallPackage, Texts
<1>19. CASE FinishTool
  <2>1. PICK hints \in Hints(reply[Head(batch)]) \cup Warnings(reply[Head(batch)]) : RunTool(hints)
    BY <1>19 DEF FinishTool
  <2>2. hints = <<>> \/ \E x \in Texts : hints = <<UserSays(x)>>
    BY DEF Hints, Warnings, Texts
  <2> QED BY <1>19, <2>1, <2>2, ToolRuns DEF FinishTool
<1>20. CASE ExhaustTools
  <2>1. PICK hints \in Hints(reply[Head(batch)]) : RunTool(hints)
    BY <1>20 DEF ExhaustTools
  <2>2. hints = <<>> \/ \E x \in Texts : hints = <<UserSays(x)>>
    BY DEF Hints, Texts
  <2> QED BY <1>20, <2>1, <2>2, ToolRuns DEF ExhaustTools
<1>21. CASE NextRound \/ YieldEnd \/ YieldWait
  <2>1. /\ pc = "settling" /\ pc' \in {"round", "returned", "waiting"} /\ loop' = loop
        /\ UNCHANGED <<messages, reply, batch>> /\ chat' = chat \o Unsaved(messages)
        /\ (round' = round /\ pc' \in {"returned", "waiting"}) \/ round' = round + 1
    BY <1>21 DEF NextRound, YieldEnd, YieldWait, Settle, At, work
  <2> QED BY <2>1, BatchSaved DEF PC, Fresh, Handling
<1>22. CASE SubagentAnswered \/ WaitTimesOut
  <2>1. /\ pc = "waiting" /\ pc' = "round" /\ loop' = loop /\ round' = round + 1
        /\ messages' = Append(messages, UserSays("plain")) /\ chat' = Append(chat, UserSays("plain"))
        /\ UNCHANGED <<reply, batch>>
    BY <1>22 DEF SubagentAnswered, WaitTimesOut, Resume, GoOn, At, work
  <2> DEFINE u == UserSays("plain")
  <2>2. u \in Messages /\ u.role # "tool" /\ messages' = Append(messages, u)
    BY <1>3, <2>1
  <2> HIDE DEF u
  <2>3. <<u>> \in Seq(Messages) /\ \A i \in 1..Len(<<u>>) : <<u>>[i].role # "tool"
    BY <2>2
  <2>4. messages' = messages \o <<u>>
    BY <1>1, <2>2
  <2>5. /\ messages' \in Seq(Messages)
        /\ \A i \in 1..Len(messages') :
             messages'[i].role = "tool" => \E j \in 1..Len(messages) : messages'[i] = messages[j]
    BY <2>3, <2>4, NoResultAdded
  <2> QED BY <1>1, <1>3, <2>1, <2>5, OutsideBatch DEF PC, Fresh, Clean, Handling
<1>23. CASE ForceAnswer
  <2>1. Append(messages, UserSays("internal")) \in Seq(Messages)
    BY <1>1, <1>3
  <2>2. messages' \in Seq(Messages)
    BY <1>23, <2>1, SanitizedKeeps DEF ForceAnswer
  <2> QED BY <1>1, <1>23, <2>2, OutsideBatch DEF ForceAnswer, At, work, PC, Fresh, Clean, Handling
<1>24. CASE TakeForced
  BY <1>1, <1>3, <1>24, OutsideBatch DEF TakeForced, At, work, PC, Fresh, Clean, Handling
<1>25. CASE Repair
  BY <1>25, Repairs
<1>26. CASE Cancel \/ SubagentEnds \/ UNCHANGED vars
  <2>1. UNCHANGED <<pc, loop, round, messages, chat, reply, batch>>
    BY <1>26 DEF Cancel, SubagentEnds, vars, position, talk, work
  <2>2. pc = "running" => batch # <<>>
    BY DEF RowInv, BatchInv, Handling
  <2> QED BY <1>1, <2>1, <2>2, QuietStep
<1> QED
  BY <1>4, <1>5, <1>6, <1>7, <1>8, <1>9, <1>10, <1>11, <1>12, <1>13, <1>14, <1>15, <1>16, <1>17, <1>18,
     <1>19, <1>20, <1>21, <1>22, <1>23, <1>24, <1>25, <1>26 DEF Next, Turn, Waiting

\* At any moment of the turn, hence also wherever the process dies, the rows it has
\* added to chat_messages follow it: each result stands after the row of the assistant
\* that made its call, no call has two results, and what a request shows the model of
\* its tools has been saved.
THEOREM RowsFollowTheTurn == Spec => []RowsFollowTurn
<1>1. RowInv => RowsFollowTurn
  <2> SUFFICES ASSUME RowInv PROVE SeenIsSaved
    BY DEF RowsFollowTurn, RowInv
  <2> SUFFICES ASSUME pc = "calling", NEW i \in 1..Len(messages), messages[i].role = "tool",
                      messages[i].text # "unavailable"
               PROVE  messages[i] \in Range(chat)
    BY DEF SeenIsSaved
  <2>1. PICK j \in 1..Len(chat) : messages[i] = chat[j]
    BY DEF RowInv, SavedInv, Clean, IsSaved
  <2>2. j \in DOMAIN chat
    BY DEF RowInv, RowTypes
  <2> QED BY <2>1, <2>2 DEF Range
<1> QED BY <1>1, RowInit, RowStep, PTL DEF Spec
=============================================================================
