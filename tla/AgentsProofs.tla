---------------------------- MODULE AgentsProofs ----------------------------
(***************************************************************************)
(* Theorems about what an agent is made of, for any budget, agents,        *)
(* sessions, documents and listings: its strategies, its delegations, its  *)
(* retriever, the contracts of its outputs, its structured answers, the    *)
(* schemas it has pinned, the tools its sessions get and the check of the  *)
(* arguments they are called with.                                         *)
(***************************************************************************)
EXTENDS Strategies, Delegation, Retrieval, ContractEvaluation, StructuredOutput, SchemaPins,
        ToolSelection, ToolSchemas, OrderLemmas, SequenceTheorems, TLAPS

-----------------------------------------------------------------------------
(* Until the budget has run out nothing is charged after it; then the        *)
(* strategy has stopped, and only Reflexion may charge once more.            *)
StopInv ==
  /\ queries \in Nat /\ toolCalls \in Nat /\ after \in Nat
  /\ ~Exhausted => after = 0
  /\ Exhausted => point \in {"attempted", "done", "raised"}
  /\ Exhausted /\ point = "attempted" => after = 0
  /\ after <= 1

LEMMA LimitsTyped == MaxQueries \in Nat /\ MaxToolCalls \in Nat /\ MaxSteps \in Nat
  BY StrategyAssumption

(* A budget that has run out stays so.                                       *)
LEMMA ChargeGrows ==
  ASSUME StopInv, NEW q \in {0, 1}, NEW t \in {0, 1}, Charge(q, t)
  PROVE  /\ queries' \in Nat /\ toolCalls' \in Nat /\ after' \in Nat
         /\ Exhausted => Exhausted'
         /\ ~Exhausted => after' = 0
         /\ Exhausted => after' = after + 1
  BY LimitsTyped DEF StopInv, Charge, Exhausted, Over

(* A call within the budget, or a refused one, disturbs nothing.             *)
LEMMA ChargedWithin ==
  ASSUME StopInv, point \notin {"attempted", "done", "raised"} \/ QueryModel,
         QueryModel \/ CallTool
  PROVE  StopInv'
<1>1. CASE QueryModel
  <2>1. ~Exhausted' /\ ~Exhausted /\ after' = 0 /\ queries' \in Nat /\ toolCalls' \in Nat
    BY <1>1, ChargeGrows DEF QueryModel
  <2> QED
    BY <2>1 DEF StopInv
<1>2. CASE Charge(0, 1) /\ ~Exhausted'
  <2>1. ~Exhausted' /\ ~Exhausted /\ after' = 0 /\ queries' \in Nat /\ toolCalls' \in Nat
    BY <1>2, ChargeGrows
  <2> QED
    BY <2>1 DEF StopInv
<1>3. CASE UNCHANGED charges /\ point \notin {"attempted", "done", "raised"}
  <2>1. ~Exhausted /\ (Exhausted' <=> Exhausted) /\ UNCHANGED <<queries, toolCalls, after>>
    BY <1>3 DEF StopInv, charges, Exhausted
  <2> QED
    BY <2>1 DEF StopInv
<1> QED
  BY <1>1, <1>2, <1>3 DEF CallTool

(* Once the budget has run out at most one more call is made, whatever the   *)
(* strategy, its parameters and the answers it gets.                         *)
THEOREM StopsWhenOutHolds == StrategySpec => []StopsWhenOut
<1>1. StrategyInit => StopInv
  BY LimitsTyped DEF StrategyInit, StopInv, Exhausted, Over
<1>2. StopInv /\ [StrategyNext]_strategyVars => StopInv'
  <2> SUFFICES ASSUME StopInv, [StrategyNext]_strategyVars PROVE StopInv'
    OBVIOUS
  <2>1. CASE ReActAsk \/ LatsExpand \/ LatsScore \/ Translate \/ Backtranslate \/ Reflect
    BY <2>1, ChargedWithin
    DEF ReActAsk, LatsExpand, LatsScore, Translate, Backtranslate, Reflect
  <2>2. CASE ReActCall \/ LatsCall \/ Plan
    BY <2>2, ChargedWithin DEF ReActCall, LatsCall, Plan
  <2>3. CASE StepsEnd \/ LatsSimulate \/ LatsChoose
    <3>1. ~Exhausted
      BY <2>3 DEF StepsEnd, LatsSimulate, LatsChoose, StopInv
    <3>2. UNCHANGED <<queries, toolCalls, after>>
      BY <2>3 DEF StepsEnd, LatsSimulate, LatsChoose, charges
    <3> QED
      BY <3>1, <3>2 DEF StopInv, Exhausted
  <2>4. CASE RunOut
    <3>1. ~Exhausted
      BY <2>4 DEF RunOut, StopInv
    <3>2. after' = 0 /\ queries' \in Nat /\ toolCalls' \in Nat
      BY <2>4, <3>1, ChargeGrows DEF RunOut
    <3>3. Exhausted' /\ point' \in {"attempted", "raised"}
      BY <2>4 DEF RunOut, Answers
    <3> QED
      BY <3>2, <3>3 DEF StopInv
  <2>5. CASE Conclude
    <3>1. UNCHANGED <<queries, toolCalls, after>> /\ point' = "done"
      BY <2>5 DEF Conclude, charges
    <3> QED
      BY <3>1 DEF StopInv, Exhausted
  <2>6. CASE ReflectRunsOut
    <3>1. /\ after = 0 /\ Charge(1, 0) /\ Exhausted' /\ point' = "raised"
      BY <2>6 DEF ReflectRunsOut, ToReflect, GiveUp, StopInv
    <3>2. queries' \in Nat /\ toolCalls' \in Nat /\ after' \in {0, 1}
      BY <3>1, ChargeGrows
    <3> QED
      BY <3>1, <3>2 DEF StopInv
  <2>7. CASE NextSession
    BY <2>7, LimitsTyped DEF NextSession, StartAttempt, StopInv, Exhausted, Over
  <2>8. CASE UNCHANGED strategyVars
    BY <2>8 DEF strategyVars, charges, StopInv, Exhausted
  <2> QED
    BY <2>1, <2>2, <2>3, <2>4, <2>5, <2>6, <2>7, <2>8 DEF StrategyNext, StrategyStep
<1>3. StopInv => StopsWhenOut
  BY DEF StopInv, StopsWhenOut
<1> QED
  BY <1>1, <1>2, <1>3, PTL DEF StrategySpec

-----------------------------------------------------------------------------
(* A quotient is determined by the remainder's bounds.                       *)
LEMMA QuotientIs ==
  ASSUME NEW t \in Nat, NEW v \in Nat, v > 0, NEW a \in Nat,
         a * v <= t, t < a * v + v
  PROVE  t \div v = a
  OBVIOUS

(* What integer division returns.                                            *)
LEMMA QuotientBounds ==
  ASSUME NEW t \in Nat, NEW v \in Nat, v > 0
  PROVE  /\ t \div v \in Nat
         /\ (t \div v) * v <= t
         /\ t < (t \div v) * v + v
  OBVIOUS

(* Backpropagation adds a child's average to its total and one to its        *)
(* visits: the average stays what it was.                                    *)
LEMMA AverageKept ==
  ASSUME NEW t \in Nat, NEW v \in Nat, v > 0
  PROVE  (t + t \div v) \div (v + 1) = t \div v
<1>1. PICK a \in Nat : a = t \div v /\ a * v <= t /\ t < a * v + v
  BY QuotientBounds
<1>2. a * (v + 1) = a * v + a
  OBVIOUS
<1>3. a * (v + 1) <= t + a /\ t + a < a * (v + 1) + (v + 1)
  BY <1>1, <1>2
<1>4. t + a \in Nat /\ v + 1 \in Nat /\ v + 1 > 0
  BY <1>1
<1>5. (t + a) \div (v + 1) = a
  BY <1>3, <1>4, QuotientIs
<1> QED
  BY <1>1, <1>5

(* Some element of a finite sequence of numbers is the highest.              *)
LEMMA HighestExists ==
  ASSUME NEW n \in Nat, n > 0, NEW f, \A i \in 1..n : f[i] \in Nat
  PROVE  \E i \in 1..n : \A j \in 1..n : f[j] <= f[i]
<1> DEFINE Led(m) == \E i \in 1..m : \A j \in 1..m : f[j] <= f[i]
<1>1. SUFFICES ASSUME ~Led(n) PROVE FALSE
  OBVIOUS
<1>2. PICK S : S = {m \in 1..n : ~Led(m)}
  OBVIOUS
<1>3. S \in SUBSET Nat /\ S # {}
  BY <1>1, <1>2
<1>4. PICK m \in S : \A k \in S : m <= k
  BY <1>3, LeastIsOne
<1>5. m \in 1..n /\ ~Led(m) /\ m \in Nat
  BY <1>2, <1>4
<1>6. CASE m = 1
  BY <1>5, <1>6
<1>7. CASE m # 1
  <2>1. m - 1 \in 1..n /\ m - 1 \notin S
    BY <1>4, <1>5, <1>7, <1>3
  <2>2. PICK i \in 1..(m - 1) : \A j \in 1..(m - 1) : f[j] <= f[i]
    BY <1>2, <2>1
  <2>3. \A j \in 1..m : j \in 1..(m - 1) \/ j = m
    BY <1>5
  <2>4. CASE f[m] <= f[i]
    BY <1>5, <2>2, <2>3, <2>4
  <2>5. CASE ~(f[m] <= f[i])
    <3>1. f[m] \in Nat /\ \A j \in 1..(m - 1) : f[j] \in Nat /\ f[j] <= f[m]
      BY <1>5, <2>1, <2>2, <2>5
    <3>2. \A j \in 1..m : f[j] <= f[m]
      BY <2>3, <3>1
    <3> QED
      BY <1>5, <3>2
  <2> QED
    BY <2>4, <2>5
<1> QED
  BY <1>6, <1>7

-----------------------------------------------------------------------------
Child == [visits : Nat \ {0}, total : Nat]

(* The average of every child is the score the model gave it.                *)
ScoreInv ==
  /\ scored \in Seq(Nat) /\ children \in Seq(Child)
  /\ point \in {"score", "simulate"} =>
       /\ chosen = 0
       /\ Len(children) = Len(scored)
       /\ \A i \in 1..Len(children) : Average(children[i]) = scored[i]
  /\ point = "simulate" => Len(children) > 0
  /\ BestScored

(* A candidate that is scored enters the tree with its score as average.     *)
LEMMA ScoredAppended ==
  ASSUME ScoreInv, LatsScore PROVE ScoreInv'
<1>1. PICK score \in Scores :
        /\ children' = Append(children, [visits |-> 1, total |-> score])
        /\ scored' = Append(scored, score)
  BY DEF LatsScore
<1>2. score \in Nat /\ [visits |-> 1, total |-> score] \in Child
  BY StrategyAssumption DEF Child
<1>3. PICK n \in Nat : n = Len(children) /\ n = Len(scored)
  BY LenProperties DEF ScoreInv, LatsScore
<1>4. /\ scored' \in Seq(Nat) /\ Len(scored') = n + 1 /\ scored'[n + 1] = score
      /\ \A i \in 1..n : scored'[i] = scored[i]
  BY <1>1, <1>2, <1>3, AppendProperties DEF ScoreInv
<1>5. /\ children' \in Seq(Child) /\ Len(children') = n + 1
      /\ children'[n + 1] = [visits |-> 1, total |-> score]
      /\ \A i \in 1..n : children'[i] = children[i]
  <2>1. children \in Seq(Child)
    BY DEF ScoreInv
  <2>2. PICK child \in Child : child = [visits |-> 1, total |-> score]
    BY <1>2
  <2>3. children' = Append(children, child)
    BY <1>1, <2>2
  <2>4. /\ Append(children, child) \in Seq(Child)
        /\ Len(Append(children, child)) = Len(children) + 1
        /\ Append(children, child)[Len(children) + 1] = child
        /\ \A i \in 1..Len(children) : Append(children, child)[i] = children[i]
    <3>1. child \in Child
      BY <2>2
    <3> QED
      BY <2>1, <3>1, AppendProperties
  <2> QED
    BY <1>3, <2>2, <2>3, <2>4
<1>6. Average(children'[n + 1]) = scored'[n + 1]
  <2>1. score \div 1 = score
    <3>1. 1 \in Nat /\ score * 1 <= score /\ score < score * 1 + 1
      BY <1>2
    <3> QED
      BY <1>2, <3>1, QuotientIs
  <2> QED
    BY <1>4, <1>5, <2>1 DEF Average
<1>7. \A i \in 1..(n + 1) : Average(children'[i]) = scored'[i]
  <2>1. \A i \in 1..n : Average(children[i]) = scored[i]
    BY <1>3 DEF ScoreInv, LatsScore
  <2>2. \A i \in 1..(n + 1) : i \in 1..n \/ i = n + 1
    OBVIOUS
  <2> QED
    BY <1>4, <1>5, <1>6, <2>1, <2>2
<1>8. chosen' = 0
  BY DEF LatsScore, ScoreInv
<1> QED
  BY <1>4, <1>5, <1>7, <1>8 DEF ScoreInv, BestScored

(* Whichever child is simulated keeps its average.                           *)
LEMMA SimulationKeepsAverages ==
  ASSUME ScoreInv, LatsSimulate PROVE ScoreInv'
<1>1. PICK i \in DOMAIN children : children' = [children EXCEPT ![i] = Rewarded(@)]
  BY DEF LatsSimulate
<1>2. PICK n \in Nat : /\ n = Len(children) /\ n = Len(scored) /\ DOMAIN children = 1..n /\ n > 0
                       /\ chosen = 0
  BY LenProperties DEF ScoreInv, LatsSimulate
<1>3. children[i] \in Child
  BY <1>1, <1>2, ElementOfSeq DEF ScoreInv
<1>4. children[i].visits \in Nat /\ children[i].visits > 0 /\ children[i].total \in Nat
  BY <1>3 DEF Child
<1>5. PICK a \in Nat : /\ a = children[i].total \div children[i].visits
                       /\ (children[i].total + a) \div (children[i].visits + 1) = a
  BY <1>4, AverageKept, QuotientBounds
<1>6. Rewarded(children[i]) = [visits |-> children[i].visits + 1, total |-> children[i].total + a]
  BY <1>5 DEF Rewarded, Average
<1>7. Rewarded(children[i]) \in Child /\ Average(Rewarded(children[i])) = Average(children[i])
  BY <1>4, <1>5, <1>6 DEF Child, Average
<1>8. /\ children' \in Seq(Child) /\ Len(children') = n
      /\ children'[i] = Rewarded(children[i])
      /\ \A j \in 1..n : j # i => children'[j] = children[j]
  BY <1>1, <1>2, <1>7, ExceptSeq DEF ScoreInv
<1>9. \A j \in 1..n : Average(children'[j]) = scored[j]
  BY <1>2, <1>7, <1>8 DEF ScoreInv, LatsSimulate
<1> QED
  BY <1>2, <1>8, <1>9 DEF ScoreInv, LatsSimulate, BestScored, seen

(* The child of the best average is the one the model scored highest.        *)
LEMMA ChoiceIsBest ==
  ASSUME ScoreInv, LatsChoose PROVE ScoreInv' /\ chosen' \in Nat
<1>1. PICK n \in Nat : /\ n = Len(children) /\ n = Len(scored) /\ n > 0
                       /\ DOMAIN children = 1..n /\ DOMAIN scored = 1..n
  BY LenProperties DEF ScoreInv, LatsChoose
<1>2. \A i \in 1..n : Average(children[i]) = scored[i] /\ scored[i] \in Nat
  BY <1>1, ElementOfSeq DEF ScoreInv, LatsChoose
<1>3. PICK A : A = {Average(children[i]) : i \in DOMAIN children}
  OBVIOUS
<1>4. PICK top \in 1..n : \A j \in 1..n : scored[j] <= scored[top]
  BY <1>1, <1>2, HighestExists
<1>5. Max(A) = scored[top]
  <2>1. scored[top] \in A /\ \A y \in A : scored[top] >= y
    BY <1>1, <1>2, <1>3, <1>4
  <2>2. \A x \in A : x \in Nat
    BY <1>1, <1>2, <1>3
  <2>3. Max(A) \in A /\ \A y \in A : Max(A) >= y
    BY <2>1 DEF Max
  <2> QED
    BY <2>1, <2>2, <2>3
<1>6. PICK S : S = {i \in DOMAIN children : Average(children[i]) = scored[top]}
  OBVIOUS
<1>7. S \in SUBSET Nat /\ S # {}
  BY <1>1, <1>2, <1>6
<1>8. chosen' = Min(S)
  BY <1>3, <1>5, <1>6 DEF LatsChoose
<1>9. chosen' \in S
  BY <1>7, <1>8, LeastIsOne
<1>10. \A i \in 1..n : scored[i] <= scored[chosen']
  BY <1>1, <1>2, <1>4, <1>6, <1>9
<1>11. UNCHANGED <<scored, children>> /\ point' = "call"
  BY DEF LatsChoose, loopVars
<1> QED
  BY <1>1, <1>7, <1>9, <1>10, <1>11 DEF ScoreInv, BestScored

LEMMA ScoresInductive == StrategySpec => []ScoreInv
<1>1. StrategyInit => ScoreInv
  BY EmptySeq DEF StrategyInit, ScoreInv, BestScored
<1>2. ScoreInv /\ [StrategyNext]_strategyVars => ScoreInv'
  <2> SUFFICES ASSUME ScoreInv, [StrategyNext]_strategyVars PROVE ScoreInv'
    OBVIOUS
  <2>1. CASE LatsScore
    BY <2>1, ScoredAppended
  <2>2. CASE LatsSimulate
    BY <2>2, SimulationKeepsAverages
  <2>3. CASE LatsChoose
    BY <2>3, ChoiceIsBest
  <2>4. CASE children' = <<>> /\ scored' = <<>> /\ chosen' = 0 /\ point' # "simulate"
    BY <2>4, EmptySeq DEF ScoreInv, BestScored
  <2>5. CASE UNCHANGED <<children, scored, chosen>> /\ point' \notin {"score", "simulate"}
    BY <2>5 DEF ScoreInv, BestScored
  <2>6. CASE LatsExpand
    BY <2>4, <2>6 DEF LatsExpand, Answers
  <2>7. CASE Reflect \/ NextSession
    BY <2>4, <2>7 DEF Reflect, NextSession, StartAttempt
  <2>8. CASE ReActAsk \/ ReActCall \/ LatsCall \/ Translate \/ Plan \/ Backtranslate
    BY <2>5, <2>8
    DEF ReActAsk, ReActCall, LatsCall, Translate, Plan, Backtranslate, Answers, loopVars, seen
  <2>9. CASE StepsEnd \/ RunOut \/ Conclude \/ ReflectRunsOut
    BY <2>5, <2>9 DEF StepsEnd, RunOut, Conclude, ReflectRunsOut, GiveUp, Answers, loopVars, seen
  <2>10. CASE UNCHANGED strategyVars
    BY <2>10 DEF strategyVars, loopVars, seen, ScoreInv, BestScored
  <2> QED
    BY <2>1, <2>2, <2>3, <2>6, <2>7, <2>8, <2>9, <2>10 DEF StrategyNext, StrategyStep
<1> QED
  BY <1>1, <1>2, PTL DEF StrategySpec

(* The candidate that LATS executes is one the model scored highest, for any *)
(* scores, breadth and number of simulations, whichever children these visit.*)
THEOREM BestScoredHolds == StrategySpec => []BestScored
<1>1. ScoreInv => BestScored
  BY DEF ScoreInv
<1> QED
  BY <1>1, ScoresInductive, PTL

-----------------------------------------------------------------------------
(* Stacks.  What is on one has any type, so a stack is a sequence over some  *)
(* set.                                                                      *)
IsStack(s) == \E S : s \in Seq(S)

(* Sessions on the stack are numbered; pushing, replacing and popping the    *)
(* top leave the others where they are.                                      *)
LEMMA StackLength ==
  ASSUME NEW s, IsStack(s) PROVE Len(s) \in Nat
  BY LenProperties DEF IsStack

LEMMA StackPush ==
  ASSUME NEW s, IsStack(s), NEW e
  PROVE  /\ IsStack(Append(s, e)) /\ Len(s) \in Nat /\ Len(Append(s, e)) = Len(s) + 1
         /\ Append(s, e)[Len(s) + 1] = e
         /\ \A i \in 1..Len(s) : Append(s, e)[i] = s[i]
<1>1. PICK S : s \in Seq(S)
  BY DEF IsStack
<1>2. PICK T : T = S \union {e}
  OBVIOUS
<1>3. s \in Seq(T) /\ e \in T
  BY <1>1, <1>2, SeqMonotonic
<1> QED
  BY <1>3, AppendProperties, LenProperties DEF IsStack

LEMMA StackTop ==
  ASSUME NEW s, IsStack(s), Len(s) >= 1, NEW e
  PROVE  /\ Len(s) \in Nat
         /\ IsStack([s EXCEPT ![Len(s)] = e]) /\ Len([s EXCEPT ![Len(s)] = e]) = Len(s)
         /\ [s EXCEPT ![Len(s)] = e][Len(s)] = e
         /\ \A i \in 1..(Len(s) - 1) : [s EXCEPT ![Len(s)] = e][i] = s[i]
<1>1. PICK S : s \in Seq(S)
  BY DEF IsStack
<1>2. PICK T : T = S \union {e}
  OBVIOUS
<1>3. s \in Seq(T) /\ e \in T
  BY <1>1, <1>2, SeqMonotonic
<1>4. PICK n \in Nat : n = Len(s) /\ n \in 1..Len(s)
  BY <1>3, LenProperties
<1>5. /\ [s EXCEPT ![n] = e] \in Seq(T) /\ Len([s EXCEPT ![n] = e]) = Len(s)
      /\ \A i \in 1..Len(s) : [s EXCEPT ![n] = e][i] = IF i = n THEN e ELSE s[i]
  BY <1>3, <1>4, ExceptSeq
<1>6. /\ [s EXCEPT ![n] = e][n] = e
      /\ \A i \in 1..(n - 1) : [s EXCEPT ![n] = e][i] = s[i]
  BY <1>4, <1>5
<1> QED
  BY <1>4, <1>5, <1>6 DEF IsStack

LEMMA StackPop ==
  ASSUME NEW s, IsStack(s), Len(s) > 1
  PROVE  /\ IsStack(Front(s)) /\ Len(s) \in Nat /\ Len(Front(s)) = Len(s) - 1
         /\ \A i \in 1..(Len(s) - 1) : Front(s)[i] = s[i]
<1>1. PICK S : s \in Seq(S)
  BY DEF IsStack
<1>2. PICK n \in Nat : n = Len(s)
  BY <1>1, LenProperties
<1>3. 1 \in 1..n /\ n - 1 \in 1..n /\ n - 1 \in Nat
  BY <1>2
<1>4. /\ SubSeq(s, 1, n - 1) \in Seq(S) /\ Len(SubSeq(s, 1, n - 1)) = n - 1
      /\ \A i \in 1..(n - 1) : SubSeq(s, 1, n - 1)[i] = s[i]
  BY <1>1, <1>2, <1>3, SubSeqProperties
<1> QED
  BY <1>2, <1>4 DEF IsStack, Front

-----------------------------------------------------------------------------
Fields == {"agent", "context", "strict", "budget", "shown", "wrapper", "tokens", "toolCalls",
           "caught"}

(* A session under way has passed no limit by more than it may.              *)
Within(n, limit, more) == limit # None => n <= limit + more

SessionOK(s) ==
  /\ s \in [Fields -> {s[field] : field \in Fields}]
  /\ s.tokens \in Nat /\ s.toolCalls \in Nat
  /\ s.budget.tokens \in Nat \union {None} /\ s.budget.toolCalls \in Nat \union {None}
  /\ Within(s.tokens, s.budget.tokens, Overshoot) /\ Within(s.toolCalls, s.budget.toolCalls, 1)
  /\ s.caught \in BOOLEAN /\ (s.caught => Exceeded(s))

(* Only the session on top may have passed a limit.                          *)
Sound(s) ==
  /\ IsStack(s) /\ Len(s) >= 1
  /\ \A i \in 1..Len(s) : SessionOK(s[i])
  /\ \A i \in 1..(Len(s) - 1) : ~Exceeded(s[i])
  /\ s[1].budget = RootBudget

(* A session that has passed its limit by one response at most.              *)
Once(s) == Within(s.tokens, s.budget.tokens, MaxUsage)

(* A session that passed a limit is raising, or has caught that and may      *)
(* query for the second time.                                                *)
DelegationInv ==
  /\ Sound(stack)
  /\ raising = None /\ ~Top.caught => ~Exceeded(Top)
  /\ raising = None \/ ~Top.caught => Once(Top)
  /\ raising = "BudgetExceeded" => Exceeded(Top)
  /\ OwnBudgetOnly

LEMMA UsageBounds ==
  /\ MaxUsage \in Nat /\ Overshoot \in Nat /\ Overshoot = MaxUsage + MaxUsage
  /\ \A usage \in Usages : usage \in Nat /\ usage <= MaxUsage
BY DelegationAssumption DEF Overshoot

(* A session within its limits has not even begun to overshoot.              *)
LEMMA WithinIsOnce ==
  ASSUME NEW s, SessionOK(s), ~Exceeded(s)
  PROVE  Once(s) /\ ~s.caught /\ Within(s.tokens, s.budget.tokens, 0)
BY UsageBounds, DelegationAssumption DEF SessionOK, Once, Within, Exceeded, Above

(* A tool call more passes a limit by one at most.                           *)
LEMMA CountedOne ==
  ASSUME NEW s, SessionOK(s), ~Exceeded(s)
  PROVE  LET t == [s EXCEPT !.toolCalls = @ + 1] IN
         /\ SessionOK(t) /\ Once(t)
         /\ t.budget = s.budget /\ t.tokens = s.tokens /\ ~t.caught
<1>1. PICK t : t = [s EXCEPT !.toolCalls = @ + 1]
  OBVIOUS
<1>2. /\ t \in [Fields -> {t[f] : f \in Fields}]
      /\ t.toolCalls = s.toolCalls + 1
      /\ t.budget = s.budget /\ t.tokens = s.tokens /\ t.caught = s.caught
  BY <1>1 DEF SessionOK, Fields
<1>3. t.budget.tokens = s.budget.tokens /\ t.budget.toolCalls = s.budget.toolCalls
  BY <1>2
<1>4. t.toolCalls \in Nat /\ Within(t.toolCalls, t.budget.toolCalls, 1)
  BY <1>2, <1>3, DelegationAssumption DEF SessionOK, Within, Exceeded, Above
<1>5. Once(t) /\ ~t.caught /\ Within(t.tokens, t.budget.tokens, Overshoot)
  BY <1>2, <1>3, WithinIsOnce DEF Once, SessionOK
<1>6. SessionOK(t)
  BY <1>2, <1>3, <1>4, <1>5 DEF SessionOK
<1> QED
  BY <1>1, <1>2, <1>5, <1>6

(* A response more passes a limit by its usage at most, and the limit stays  *)
(* passed.                                                                   *)
LEMMA SpentMore ==
  ASSUME NEW s, SessionOK(s), NEW usage \in Usages,
         ~s.caught => ~Exceeded(s), Once(s)
  PROVE  LET t == [s EXCEPT !.tokens = @ + usage] IN
         /\ SessionOK(t) /\ t.budget = s.budget /\ t.tokens = s.tokens + usage
         /\ t.caught = s.caught /\ (Exceeded(s) => Exceeded(t)) /\ (~t.caught => Once(t))
<1>1. PICK t : t = [s EXCEPT !.tokens = @ + usage]
  OBVIOUS
<1>2. /\ t \in [Fields -> {t[f] : f \in Fields}]
      /\ t.tokens = s.tokens + usage
      /\ t.budget = s.budget /\ t.toolCalls = s.toolCalls /\ t.caught = s.caught
  BY <1>1 DEF SessionOK, Fields
<1>3. t.budget.tokens = s.budget.tokens /\ t.budget.toolCalls = s.budget.toolCalls
  BY <1>2
<1>4. usage \in Nat /\ s.tokens \in Nat /\ t.tokens \in Nat /\ usage <= MaxUsage
  BY <1>2, UsageBounds DEF SessionOK
<1>5. Exceeded(s) => Exceeded(t)
  BY <1>2, <1>3, <1>4, DelegationAssumption DEF SessionOK, Exceeded, Above
<1>6. Within(t.tokens, t.budget.tokens, Overshoot)
  BY <1>2, <1>3, <1>4, UsageBounds DEF Once, Within, SessionOK
<1>7. ~t.caught => Once(t)
  <2>1. ~t.caught => Within(s.tokens, s.budget.tokens, 0)
    BY <1>2, WithinIsOnce
  <2> QED
    BY <1>2, <1>3, <1>4, <2>1, UsageBounds DEF Once, Within, SessionOK
<1>8. SessionOK(t)
  BY <1>2, <1>3, <1>4, <1>5, <1>6 DEF SessionOK
<1> QED
  BY <1>1, <1>2, <1>5, <1>7, <1>8

(* A session that begins has spent nothing of a budget with proper limits.   *)
LEMMA BegunOK ==
  ASSUME NEW agent, NEW context, NEW strict, NEW budget, NEW tools, NEW wrapper,
         budget.tokens \in Nat \union {None}, budget.toolCalls \in Nat \union {None}
  PROVE  LET s == Begin(agent, context, strict, budget, tools, wrapper) IN
         /\ SessionOK(s) /\ ~Exceeded(s) /\ s.budget = budget
         /\ s.tokens = 0 /\ s.toolCalls = 0 /\ ~s.caught
<1>1. PICK s : s = Begin(agent, context, strict, budget, tools, wrapper)
  OBVIOUS
<1>2. s.budget = budget /\ s.tokens = 0 /\ s.toolCalls = 0
  BY <1>1 DEF Begin
<1>3. s \in [Fields -> {s[field] : field \in Fields}]
  BY <1>1 DEF Begin, Fields
<1>4. s.caught = FALSE
  BY <1>1 DEF Begin
<1>5. SessionOK(s) /\ ~Exceeded(s)
  <2>1. \A limit \in Nat \union {None}, more \in Nat : Within(0, limit, more) /\ ~Above(0, limit)
    BY DelegationAssumption DEF Within, Above
  <2>2. 0 \in Nat /\ 1 \in Nat /\ Overshoot \in Nat
    BY UsageBounds
  <2>3. ~Exceeded(s)
    BY <1>2, <2>1 DEF Exceeded
  <2>4. Within(s.tokens, s.budget.tokens, Overshoot) /\ Within(s.toolCalls, s.budget.toolCalls, 1)
    BY <1>2, <2>1, <2>2
  <2> QED
    BY <1>2, <1>3, <1>4, <2>2, <2>3, <2>4 DEF SessionOK
<1> QED
  BY <1>1, <1>2, <1>4, <1>5

(* The slices a child is given are limits.                                   *)
LEMMA ChildLimits ==
  ASSUME NEW w \in DOMAIN Wrappers
  PROVE  ChildBudget(w).tokens \in Nat \union {None} /\ ChildBudget(w).toolCalls \in Nat \union {None}
<1>1. \A limit \in Nat \union {None} : Slice(limit) \in Nat \union {None}
  BY DelegationAssumption DEF Slice
<1>2. CASE Wrappers[w].budget = None
  BY <1>2 DEF ChildBudget, Unlimited
<1>3. CASE Wrappers[w].budget # None
  BY <1>1, <1>3, DelegationAssumption DEF ChildBudget
<1> QED
  BY <1>2, <1>3

(* The top may be replaced by a session of the same budget.                  *)
LEMMA TopReplaced ==
  ASSUME NEW s, Sound(s), NEW e, SessionOK(e), e.budget = s[Len(s)].budget
  PROVE  /\ Sound([s EXCEPT ![Len(s)] = e]) /\ Len([s EXCEPT ![Len(s)] = e]) = Len(s)
         /\ [s EXCEPT ![Len(s)] = e][Len(s)] = e
<1>1. PICK t : t = [s EXCEPT ![Len(s)] = e]
  OBVIOUS
<1>2. PICK n \in Nat : n = Len(s) /\ n >= 1
  BY StackLength DEF Sound
<1>3. IsStack(t) /\ Len(t) = n /\ t[n] = e /\ \A i \in 1..(n - 1) : t[i] = s[i]
  <2>1. IsStack(s) /\ Len(s) >= 1
    BY DEF Sound
  <2>2. /\ IsStack([s EXCEPT ![Len(s)] = e]) /\ Len([s EXCEPT ![Len(s)] = e]) = Len(s)
        /\ [s EXCEPT ![Len(s)] = e][Len(s)] = e
        /\ \A i \in 1..(Len(s) - 1) : [s EXCEPT ![Len(s)] = e][i] = s[i]
    BY <2>1, StackTop
  <2> QED
    BY <1>1, <1>2, <2>2
<1>4. \A i \in 1..n : SessionOK(t[i])
  BY <1>2, <1>3 DEF Sound
<1>5. \A i \in 1..(n - 1) : ~Exceeded(t[i])
  BY <1>2, <1>3 DEF Sound
<1>6. t[1].budget = RootBudget
  <2>1. n = 1 \/ 1 \in 1..(n - 1)
    BY <1>2
  <2> QED
    BY <1>2, <1>3, <2>1 DEF Sound
<1> QED
  BY <1>1, <1>2, <1>3, <1>4, <1>5, <1>6 DEF Sound

(* Without its top, a stack is one of sessions within their limits.          *)
LEMMA Popped ==
  ASSUME NEW s, Sound(s), Len(s) # 1
  PROVE  /\ Sound(Front(s)) /\ Len(Front(s)) = Len(s) - 1
         /\ ~Exceeded(Front(s)[Len(Front(s))])
<1>1. PICK n \in Nat : n = Len(s) /\ n > 1
  BY StackLength DEF Sound
<1>2. IsStack(Front(s)) /\ Len(Front(s)) = n - 1 /\ \A i \in 1..(n - 1) : Front(s)[i] = s[i]
  BY <1>1, StackPop DEF Sound
<1>3. \A i \in 1..(n - 1) : SessionOK(Front(s)[i]) /\ ~Exceeded(Front(s)[i])
  BY <1>1, <1>2 DEF Sound
<1>4. Front(s)[1].budget = RootBudget
  BY <1>1, <1>2 DEF Sound
<1> QED
  BY <1>1, <1>2, <1>3, <1>4 DEF Sound

(* A call that returns to a session within its limits charges it, and raises *)
(* just when that passes them.                                               *)
LEMMA ToolReturnsOK ==
  ASSUME NEW below, Sound(below), ~Exceeded(below[Len(below)]), ToolReturns(below), outcome' = None
  PROVE  DelegationInv'
<1>1. PICK n \in Nat : n = Len(below) /\ n >= 1
  BY StackLength DEF Sound
<1>2. SessionOK(below[n]) /\ ~Exceeded(below[n])
  BY <1>1 DEF Sound
<1>3. PICK e : e = [below[n] EXCEPT !.toolCalls = @ + 1]
  OBVIOUS
<1>4. SessionOK(e) /\ Once(e) /\ ~e.caught /\ e.budget = below[n].budget
  BY <1>2, <1>3, CountedOne
<1>5. stack' = [below EXCEPT ![n] = e] /\ raising' = IF Exceeded(e) THEN "BudgetExceeded" ELSE None
  BY <1>1, <1>3 DEF ToolReturns
<1>6. Sound(stack') /\ Len(stack') = n /\ stack'[n] = e
  BY <1>1, <1>4, <1>5, TopReplaced
<1>7. Top' = e /\ Sound(stack)'
  BY <1>6 DEF Top, Sound, IsStack, SessionOK, Exceeded, Above, Within
<1>8. /\ (raising = None /\ ~Top.caught => ~Exceeded(Top))'
      /\ (raising = "BudgetExceeded" => Exceeded(Top))'
      /\ Once(Top)'
  <2>1. raising' = None => ~Exceeded(e)
    BY <1>5, DelegationAssumption
  <2>2. raising' = "BudgetExceeded" => Exceeded(e)
    BY <1>5, DelegationAssumption
  <2> QED
    BY <1>4, <1>7, <2>1, <2>2 DEF Exceeded, Above, Once, Within
<1>9. OwnBudgetOnly'
  BY DelegationAssumption DEF OwnBudgetOnly
<1> QED
  BY <1>7, <1>8, <1>9 DEF DelegationInv

(* DelegationInv is an invariant.                                            *)
LEMMA DelegationInductive == DelegationSpec => []DelegationInv
<1>1. DelegationInit => DelegationInv
  <2> SUFFICES ASSUME DelegationInit PROVE DelegationInv
    OBVIOUS
  <2>1. PICK agent \in DOMAIN Agents : stack = <<Begin(agent, Agents[agent].context,
          Agents[agent].strict, RootBudget, Agents[agent].filter, None)>>
    BY DEF DelegationInit
  <2>2. PICK e : e = Begin(agent, Agents[agent].context, Agents[agent].strict, RootBudget,
                           Agents[agent].filter, None)
    OBVIOUS
  <2>3. SessionOK(e) /\ ~Exceeded(e) /\ Once(e) /\ e.budget = RootBudget
    BY <2>2, BegunOK, WithinIsOnce, DelegationAssumption
  <2>4. stack = <<e>> /\ stack \in Seq({e}) /\ Len(stack) = 1 /\ stack[1] = e
    BY <2>1, <2>2
  <2>5. \A i \in 1..Len(stack) : stack[i] = e
    BY <2>4
  <2>6. \A i \in 1..(Len(stack) - 1) : FALSE
    BY <2>4
  <2>7. IsStack(stack) /\ Len(stack) >= 1
    <3>1. stack \in Seq({e})
      BY <2>4
    <3>2. IsStack(stack)
      BY <3>1, Zenon DEF IsStack
    <3> QED
      BY <2>4, <3>2
  <2>8. Sound(stack) /\ Top = e
    BY <2>3, <2>4, <2>5, <2>6, <2>7 DEF Sound, Top
  <2>9. outcome # "BudgetExceeded" /\ raising # "BudgetExceeded"
    BY DelegationAssumption DEF DelegationInit
  <2> QED
    BY <2>3, <2>8, <2>9 DEF DelegationInv, OwnBudgetOnly
<1>2. DelegationInv /\ [DelegationNext]_delegationVars => DelegationInv'
  <2> SUFFICES ASSUME DelegationInv, [DelegationNext]_delegationVars PROVE DelegationInv'
    OBVIOUS
  <2>1. PICK n \in Nat : n = Len(stack) /\ n >= 1
    BY StackLength DEF DelegationInv, Sound
  <2>2. SessionOK(Top) /\ Top = stack[n]
    BY <2>1 DEF DelegationInv, Sound, Top
  <2>3. CASE Query
    <3>1. (~Top.caught => ~Exceeded(Top)) /\ Once(Top)
      BY <2>3 DEF Query, Running, DelegationInv
    <3>2. PICK usage \in Usages :
            LET used == [Top EXCEPT !.tokens = @ + usage] IN
            /\ stack' = [stack EXCEPT ![n] = used]
            /\ raising' = IF Exceeded(used) THEN "BudgetExceeded" ELSE None
      BY <2>1, <2>3 DEF Query
    <3>3. PICK e : e = [Top EXCEPT !.tokens = @ + usage]
      OBVIOUS
    <3>4. /\ SessionOK(e) /\ e.budget = Top.budget
          /\ e.caught => Exceeded(e)
          /\ ~e.caught => Once(e)
      <4>1. SessionOK(e) /\ e.budget = Top.budget /\ (~e.caught => Once(e))
        BY <2>2, <3>1, <3>3, SpentMore
      <4>2. e.caught => Exceeded(e)
        BY <4>1 DEF SessionOK
      <4> QED
        BY <4>1, <4>2
    <3>5. stack' = [stack EXCEPT ![n] = e] /\ raising' = IF Exceeded(e) THEN "BudgetExceeded" ELSE None
      BY <3>2, <3>3
    <3>6. Sound(stack') /\ Len(stack') = n /\ stack'[n] = e
      BY <2>1, <2>2, <3>4, <3>5, TopReplaced DEF DelegationInv
    <3>7. Top' = e /\ Sound(stack)'
      BY <3>6 DEF Top, Sound, IsStack, SessionOK, Exceeded, Above, Within
    <3>8. /\ raising' = None => ~Exceeded(e)
          /\ raising' = "BudgetExceeded" => Exceeded(e)
      BY <3>5, DelegationAssumption
    <3>9. OwnBudgetOnly'
      BY <2>3, DelegationAssumption DEF OwnBudgetOnly, Query, Running
    <3>10. raising' = None \/ ~e.caught => Once(e)
      BY <3>4, <3>8
    <3> QED
      BY <3>7, <3>8, <3>9, <3>10 DEF DelegationInv, Exceeded, Above, Once, Within
  <2>9. CASE Recover
    <3>1. Exceeded(Top) /\ Once(Top) /\ SessionOK(Top)
      BY <2>2, <2>9 DEF Recover, DelegationInv
    <3>2. PICK e : e = [Top EXCEPT !.caught = TRUE]
      OBVIOUS
    <3>3. /\ e \in [Fields -> {e[f] : f \in Fields}] /\ e.caught = TRUE
          /\ e.budget = Top.budget /\ e.tokens = Top.tokens /\ e.toolCalls = Top.toolCalls
      BY <3>1, <3>2 DEF SessionOK, Fields
    <3>4. SessionOK(e) /\ Once(e) /\ Exceeded(e)
      BY <3>1, <3>3 DEF SessionOK, Once, Exceeded, Above
    <3>5. stack' = [stack EXCEPT ![n] = e]
      BY <2>1, <2>9, <3>2 DEF Recover, Top
    <3>6. Sound(stack') /\ Len(stack') = n /\ stack'[n] = e
      <4>1. Sound(stack) /\ SessionOK(e) /\ e.budget = stack[Len(stack)].budget
        BY <2>1, <2>2, <3>3, <3>4 DEF DelegationInv
      <4> QED
        BY <2>1, <3>5, <4>1, TopReplaced
    <3>7. Top' = e /\ Sound(stack)'
      BY <3>6 DEF Top, Sound, IsStack, SessionOK, Exceeded, Above, Within
    <3>8. raising' = None /\ raising' # "BudgetExceeded" /\ OwnBudgetOnly'
      BY <2>9, DelegationAssumption DEF Recover, OwnBudgetOnly
    <3> QED
      BY <3>3, <3>4, <3>7, <3>8 DEF DelegationInv, Exceeded, Above, Once, Within
  <2>4. CASE Answer
    <3>1. CASE Len(stack) = 1
      <4>1. UNCHANGED <<stack, raising>> /\ outcome' = "answer"
        BY <2>4, <3>1 DEF Answer
      <4>2. OwnBudgetOnly'
        BY <4>1 DEF OwnBudgetOnly
      <4> QED
        BY <4>1, <4>2
        DEF DelegationInv, Top, Exceeded, Above, Sound, IsStack, SessionOK, Within, Once
    <3>2. CASE Len(stack) # 1
      BY <2>4, <3>2, Popped, ToolReturnsOK DEF Answer, Running, DelegationInv
    <3> QED
      BY <3>1, <3>2
  <2>5. CASE ToolAsserts
    BY <2>5, DelegationAssumption
    DEF ToolAsserts, Running, DelegationInv, OwnBudgetOnly, Top, Exceeded, Above, Sound, IsStack,
        SessionOK, Within, Once
  <2>6. CASE Unwind
    <3>1. CASE Len(stack) = 1
      <4>1. UNCHANGED <<stack, raising>> /\ outcome' = raising
        BY <2>6, <3>1 DEF Unwind
      <4>2. Top = stack[1]
        BY <3>1 DEF Top
      <4>3. raising = "BudgetExceeded" => Exceeded(stack[1])
        BY <4>2 DEF DelegationInv
      <4>4. OwnBudgetOnly'
        BY <4>1, <4>3 DEF OwnBudgetOnly, Exceeded, Above
      <4> QED
        BY <4>1, <4>4
        DEF DelegationInv, Top, Exceeded, Above, Sound, IsStack, SessionOK, Within, Once
    <3>2. CASE Len(stack) # 1 /\ Caught(raising)
      BY <2>6, <3>2, Popped, ToolReturnsOK DEF Unwind, DelegationInv
    <3>3. CASE Len(stack) # 1 /\ ~Caught(raising)
      <4>1. stack' = Front(stack) /\ raising' = "AssertionError" /\ outcome' = None
        BY <2>6, <3>3 DEF Unwind, Caught
      <4>2. Sound(stack)'
        BY <3>3, <4>1, Popped DEF DelegationInv, Sound, IsStack, SessionOK, Exceeded, Above, Within
      <4>3. Once(Top)'
        <5>1. PICK m \in Nat : m = Len(Front(stack)) /\ m >= 1
          <6>1. Sound(Front(stack))
            BY <3>3, Popped DEF DelegationInv
          <6> QED
            BY <6>1, StackLength DEF Sound
        <5>2. Sound(Front(stack)) /\ ~Exceeded(Front(stack)[m]) /\ SessionOK(Front(stack)[m])
          BY <3>3, <5>1, Popped DEF DelegationInv, Sound
        <5> QED
          BY <4>1, <5>1, <5>2, WithinIsOnce DEF Top, Once, Within
      <4> QED
        BY <4>1, <4>2, <4>3, DelegationAssumption DEF DelegationInv, OwnBudgetOnly
    <3> QED
      BY <3>1, <3>2, <3>3
  <2>7. ASSUME NEW w \in DOMAIN Wrappers, Delegate(w) PROVE DelegationInv'
    <3>1. ~Exceeded(Top) /\ outcome' = None
      BY <2>2, <2>7 DEF Delegate, Running, DelegationInv
    <3>2. CASE ToolReturns(stack)
      BY <2>1, <2>2, <3>1, <3>2, ToolReturnsOK DEF DelegationInv
    <3>3. CASE UNCHANGED raising /\ \E agent, context, strict, tools :
                 stack' = Append(stack, Begin(agent, context, strict, ChildBudget(w), tools, w))
      <4>1. PICK agent, context, strict, tools :
              stack' = Append(stack, Begin(agent, context, strict, ChildBudget(w), tools, w))
        BY <3>3
      <4>2. PICK e : e = Begin(agent, context, strict, ChildBudget(w), tools, w)
        OBVIOUS
      <4>3. SessionOK(e) /\ ~Exceeded(e) /\ Once(e)
        BY <4>2, BegunOK, ChildLimits, WithinIsOnce
      <4>4. /\ IsStack(stack') /\ Len(stack') = n + 1 /\ stack'[n + 1] = e
            /\ \A i \in 1..n : stack'[i] = stack[i]
        BY <2>1, <4>1, <4>2, StackPush DEF DelegationInv, Sound
      <4>5. \A i \in 1..(n + 1) : SessionOK(stack'[i])
        <5>1. \A i \in 1..(n + 1) : i \in 1..n \/ i = n + 1
          BY <2>1
        <5> QED
          BY <2>1, <4>3, <4>4, <5>1 DEF DelegationInv, Sound
      <4>6. \A i \in 1..n : ~Exceeded(stack'[i])
        <5>1. \A i \in 1..n : i \in 1..(n - 1) \/ i = n
          BY <2>1
        <5> QED
          BY <2>1, <2>2, <3>1, <4>4, <5>1 DEF DelegationInv, Sound
      <4>7. stack'[1].budget = RootBudget
        BY <2>1, <4>4 DEF DelegationInv, Sound
      <4>8. Sound(stack')
        BY <2>1, <4>4, <4>5, <4>6, <4>7 DEF Sound
      <4>9. Sound(stack)' /\ ~Exceeded(Top)' /\ Once(Top)'
        BY <4>3, <4>4, <4>8 DEF Top, Sound, IsStack, SessionOK, Exceeded, Above, Within, Once
      <4>10. raising' = None
        BY <2>7, <3>3 DEF Delegate, Running
      <4> QED
        BY <3>1, <4>9, <4>10, DelegationAssumption DEF DelegationInv, OwnBudgetOnly
    <3> QED
      BY <2>7, <3>2, <3>3 DEF Delegate
  <2>8. CASE UNCHANGED delegationVars
    BY <2>8 DEF delegationVars, DelegationInv, OwnBudgetOnly, Top, Exceeded, Above, Sound, IsStack,
                SessionOK, Within, Once
  <2> QED
    BY <2>3, <2>4, <2>5, <2>6, <2>7, <2>8, <2>9 DEF DelegationNext
<1> QED
  BY <1>1, <1>2, PTL DEF DelegationSpec

(* The root's session ends with BudgetExceeded only over limits of its own,  *)
(* whatever the agents, their wrappers and their budgets, and however deep   *)
(* they delegate.                                                            *)
THEOREM OwnBudgetOnlyHolds == DelegationSpec => []OwnBudgetOnly
<1>1. DelegationInv => OwnBudgetOnly
  BY DEF DelegationInv
<1> QED
  BY <1>1, DelegationInductive, PTL

-----------------------------------------------------------------------------
(* acc[i] is what the first i sessions of a stack may still spend.           *)
Allowance(s, acc) ==
  /\ acc \in [0..Len(s) -> Nat] /\ acc[0] = 0
  /\ \A i \in 1..Len(s) :
       /\ s[i].budget.tokens # None
       /\ acc[i] = acc[i - 1] + (s[i].budget.tokens + Overshoot - s[i].tokens)

(* As long as every wrapper called has a limit, what is spent and what may   *)
(* still be is within what was granted.                                      *)
SpendInv ==
  /\ spent \in Nat /\ granted \in Nat \union {None}
  /\ granted # None =>
       \E acc : Allowance(stack, acc) /\ spent + acc[Len(stack)] <= granted

(* What the top spends is taken from its allowance.                          *)
LEMMA AllowanceTop ==
  ASSUME NEW s, Sound(s), NEW acc, Allowance(s, acc),
         NEW e, SessionOK(e), e.budget = s[Len(s)].budget
  PROVE  \E rest : /\ Allowance([s EXCEPT ![Len(s)] = e], rest)
                   /\ rest[Len(s)] + e.tokens = acc[Len(s)] + s[Len(s)].tokens
<1>1. PICK n \in Nat : n = Len(s) /\ n >= 1
  BY StackLength DEF Sound
<1>2. PICK left : left = e.budget.tokens + Overshoot - e.tokens
  OBVIOUS
<1>3. e.budget.tokens # None
  BY <1>1 DEF Allowance
<1>4. e.budget.tokens \in Nat /\ e.tokens \in Nat /\ left \in Nat
  BY <1>2, <1>3, UsageBounds DEF SessionOK, Within
<1>5. PICK rest : rest = [acc EXCEPT ![n] = acc[n - 1] + left]
  OBVIOUS
<1>6. PICK t : t = [s EXCEPT ![n] = e]
  OBVIOUS
<1>7. Len(t) = n /\ t[n] = e /\ \A i \in 1..(n - 1) : t[i] = s[i]
  <2>1. IsStack(s) /\ Len(s) >= 1
    BY DEF Sound
  <2>2. /\ Len([s EXCEPT ![Len(s)] = e]) = Len(s)
        /\ [s EXCEPT ![Len(s)] = e][Len(s)] = e
        /\ \A i \in 1..(Len(s) - 1) : [s EXCEPT ![Len(s)] = e][i] = s[i]
    BY <2>1, StackTop
  <2> QED
    BY <1>1, <1>6, <2>2
<1>8. acc[n - 1] \in Nat /\ acc[n] \in Nat
  BY <1>1 DEF Allowance
<1>9. /\ rest \in [0..n -> Nat] /\ rest[n] = acc[n - 1] + left
      /\ \A i \in 0..(n - 1) : rest[i] = acc[i]
  BY <1>1, <1>4, <1>5, <1>8 DEF Allowance
<1>10. \A i \in 1..(n - 1) : /\ t[i].budget.tokens # None
                             /\ rest[i] = rest[i - 1] + (t[i].budget.tokens + Overshoot - t[i].tokens)
  BY <1>1, <1>7, <1>9 DEF Allowance
<1>11. t[n].budget.tokens # None /\ rest[n] = rest[n - 1] + (t[n].budget.tokens + Overshoot - t[n].tokens)
  BY <1>1, <1>2, <1>3, <1>7, <1>9
<1>12. \A i \in 1..n : i \in 1..(n - 1) \/ i = n
  BY <1>1
<1>13. Allowance(t, rest)
  <2>1. \A i \in 1..n : /\ t[i].budget.tokens # None
                        /\ rest[i] = rest[i - 1] + (t[i].budget.tokens + Overshoot - t[i].tokens)
    BY <1>10, <1>11, <1>12
  <2>2. rest[0] = 0
    BY <1>1, <1>9 DEF Allowance
  <2> QED
    BY <1>7, <1>9, <2>1, <2>2 DEF Allowance
<1>14. rest[n] + e.tokens = acc[n] + s[n].tokens
  <2>1. acc[n] = acc[n - 1] + (s[n].budget.tokens + Overshoot - s[n].tokens)
    BY <1>1 DEF Allowance
  <2>2. s[n].tokens \in Nat /\ s[n].budget.tokens = e.budget.tokens
    <3>1. SessionOK(s[n])
      BY <1>1 DEF Sound
    <3> QED
      BY <1>1, <3>1 DEF SessionOK
  <2>3. PICK a \in Nat, l \in Nat, k \in Nat, m \in Nat, o \in Nat :
          /\ a = acc[n - 1] /\ l = e.budget.tokens /\ k = e.tokens /\ m = s[n].tokens
          /\ o = Overshoot
    BY <1>4, <1>8, <2>2, UsageBounds
  <2>4. rest[n] = a + (l + o - k) /\ acc[n] = a + (l + o - m)
    BY <1>2, <1>9, <2>1, <2>2, <2>3
  <2>5. a + (l + o - k) + k = a + (l + o - m) + m
    OBVIOUS
  <2> QED
    BY <2>3, <2>4, <2>5
<1> QED
  BY <1>1, <1>2, <1>5, <1>6, <1>13, <1>14

(* What a child did not spend falls back to its parent.                      *)
LEMMA AllowancePop ==
  ASSUME NEW s, Sound(s), Len(s) # 1, NEW acc, Allowance(s, acc)
  PROVE  \E rest : Allowance(Front(s), rest) /\ rest[Len(s) - 1] <= acc[Len(s)]
<1>1. PICK n \in Nat : n = Len(s) /\ n > 1
  <2>1. Len(s) \in Nat /\ Len(s) >= 1
    BY StackLength DEF Sound
  <2> QED
    BY <2>1
<1>2. Len(Front(s)) = n - 1 /\ \A i \in 1..(n - 1) : Front(s)[i] = s[i]
  BY <1>1, StackPop DEF Sound
<1>3. PICK rest : rest = [i \in 0..(n - 1) |-> acc[i]]
  OBVIOUS
<1>4. rest \in [0..(n - 1) -> Nat] /\ \A i \in 0..(n - 1) : rest[i] = acc[i]
  BY <1>1, <1>3 DEF Allowance
<1>5. \A i \in 1..(n - 1) : /\ Front(s)[i].budget.tokens # None
                            /\ rest[i] = rest[i - 1] + (Front(s)[i].budget.tokens + Overshoot - Front(s)[i].tokens)
  BY <1>1, <1>2, <1>4 DEF Allowance
<1>6. Allowance(Front(s), rest)
  BY <1>1, <1>2, <1>4, <1>5 DEF Allowance
<1>7. rest[n - 1] <= acc[n]
  <2>1. acc[n - 1] \in Nat /\ rest[n - 1] = acc[n - 1]
    <3>1. n - 1 \in 0..n /\ n - 1 \in 0..(n - 1)
      BY <1>1
    <3> QED
      BY <1>1, <1>4, <3>1 DEF Allowance
  <2>2. s[n].budget.tokens \in Nat /\ s[n].tokens \in Nat /\ s[n].tokens <= s[n].budget.tokens + Overshoot
    BY <1>1 DEF Allowance, Sound, SessionOK, Within
  <2>3. acc[n] = acc[n - 1] + (s[n].budget.tokens + Overshoot - s[n].tokens)
    BY <1>1 DEF Allowance
  <2> QED
    BY <2>1, <2>2, <2>3, UsageBounds
<1> QED
  BY <1>1, <1>3, <1>6, <1>7

(* A child adds its limit and its overshoot to the allowance.                *)
LEMMA AllowancePush ==
  ASSUME NEW s, Sound(s), NEW acc, Allowance(s, acc),
         NEW e, SessionOK(e), e.tokens = 0, e.budget.tokens # None
  PROVE  \E more : /\ Allowance(Append(s, e), more)
                   /\ more[Len(s) + 1] = acc[Len(s)] + e.budget.tokens + Overshoot
<1>1. PICK n \in Nat : n = Len(s) /\ n >= 1
  BY StackLength DEF Sound
<1>2. e.budget.tokens \in Nat
  BY DEF SessionOK
<1>3. PICK more : more = [i \in 0..(n + 1) |-> IF i = n + 1 THEN acc[n] + e.budget.tokens + Overshoot ELSE acc[i]]
  OBVIOUS
<1>4. PICK t : t = Append(s, e)
  OBVIOUS
<1>5. Len(t) = n + 1 /\ t[n + 1] = e /\ \A i \in 1..n : t[i] = s[i]
  BY <1>1, <1>4, StackPush DEF Sound
<1>6. /\ \A i \in 0..n : acc[i] \in Nat /\ more[i] = acc[i]
      /\ more[n + 1] = acc[n] + e.budget.tokens + Overshoot
      /\ more \in [0..(n + 1) -> Nat]
  <2>1. \A i \in 0..n : acc[i] \in Nat /\ i \in 0..(n + 1) /\ i # n + 1
    BY <1>1 DEF Allowance
  <2>2. n \in 0..n /\ n + 1 \in 0..(n + 1)
    BY <1>1
  <2>3. acc[n] + e.budget.tokens + Overshoot \in Nat
    BY <1>2, <2>1, <2>2, UsageBounds
  <2>4. \A i \in 0..(n + 1) : i \in 0..n \/ i = n + 1
    BY <1>1
  <2> QED
    BY <1>3, <2>1, <2>2, <2>3, <2>4
<1>7. \A i \in 1..n : /\ t[i].budget.tokens # None
                      /\ more[i] = more[i - 1] + (t[i].budget.tokens + Overshoot - t[i].tokens)
  BY <1>1, <1>5, <1>6 DEF Allowance
<1>8. /\ t[n + 1].budget.tokens # None
      /\ more[n + 1] = more[n] + (t[n + 1].budget.tokens + Overshoot - t[n + 1].tokens)
  <2>1. acc[n] \in Nat /\ more[n] = acc[n]
    BY <1>1, <1>6
  <2> QED
    BY <1>2, <1>5, <1>6, <2>1, UsageBounds
<1>9. \A i \in 1..(n + 1) : i \in 1..n \/ i = n + 1
  BY <1>1
<1>10. Allowance(t, more)
  <2>1. \A i \in 1..(n + 1) : /\ t[i].budget.tokens # None
                              /\ more[i] = more[i - 1] + (t[i].budget.tokens + Overshoot - t[i].tokens)
    <3>1. n + 1 - 1 = n
      BY <1>1
    <3> QED
      BY <1>7, <1>8, <1>9, <3>1
  <2>2. more[0] = 0
    BY <1>1, <1>6 DEF Allowance
  <2> QED
    BY <1>5, <1>6, <2>1, <2>2 DEF Allowance
<1> QED
  BY <1>1, <1>4, <1>6, <1>10

(* The result of a call changes no session's tokens or limit on them.        *)
LEMMA AllowanceReturns ==
  ASSUME NEW below, Sound(below), ~Exceeded(below[Len(below)]), ToolReturns(below),
         NEW acc, Allowance(below, acc)
  PROVE  /\ Len(stack') = Len(below)
         /\ \E rest : Allowance(stack', rest) /\ rest[Len(below)] = acc[Len(below)]
<1>1. PICK n \in Nat : n = Len(below) /\ n >= 1
  BY StackLength DEF Sound
<1>2. SessionOK(below[n]) /\ ~Exceeded(below[n])
  BY <1>1 DEF Sound
<1>3. PICK e : e = [below[n] EXCEPT !.toolCalls = @ + 1]
  OBVIOUS
<1>4. SessionOK(e) /\ e.budget = below[n].budget /\ e.tokens = below[n].tokens
  BY <1>2, <1>3, CountedOne
<1>5. stack' = [below EXCEPT ![n] = e]
  BY <1>1, <1>3 DEF ToolReturns
<1>6. Len(stack') = n
  BY <1>1, <1>4, <1>5, TopReplaced
<1>7. PICK rest : Allowance(stack', rest) /\ rest[n] + e.tokens = acc[n] + below[n].tokens
  BY <1>1, <1>4, <1>5, AllowanceTop
<1>8. rest[n] \in Nat /\ acc[n] \in Nat /\ e.tokens \in Nat
  BY <1>1, <1>4, <1>6, <1>7 DEF Allowance, SessionOK
<1>9. rest[n] = acc[n]
  BY <1>4, <1>7, <1>8
<1> QED
  BY <1>1, <1>6, <1>7, <1>9

(* A wrapper with a limit is granted what its child may spend.               *)
LEMMA GrantCoversSlice ==
  ASSUME NEW w \in DOMAIN Wrappers, Grant(w) # None
  PROVE  /\ Grant(w) \in Nat /\ ChildBudget(w).tokens \in Nat
         /\ ChildBudget(w).tokens + Overshoot <= Grant(w)
<1>1. PICK whole : whole = Wrappers[w].budget
  OBVIOUS
<1>2. whole # None /\ whole.tokens \in Nat /\ Grant(w) = whole.tokens \div 2 + 1 + Overshoot
  BY <1>1, DelegationAssumption DEF Grant
<1>3. ChildBudget(w).tokens = Slice(whole.tokens) /\ whole.tokens # None
  BY <1>1, <1>2, DelegationAssumption DEF ChildBudget
<1>4. \A l \in Nat : l \div 2 \in Nat
  OBVIOUS
<1>5. PICK l \in Nat, h \in Nat : l = whole.tokens /\ h = l \div 2 /\ Grant(w) = h + 1 + Overshoot
  BY <1>2, <1>4
<1>6. ChildBudget(w).tokens \in {0, 1, h}
  BY <1>3, <1>5, DelegationAssumption DEF Slice
<1> QED
  BY <1>5, <1>6, UsageBounds

(* A grant is a number or has no limit.                                      *)
LEMMA GrantTyped ==
  ASSUME NEW w \in DOMAIN Wrappers
  PROVE  Grant(w) \in Nat \union {None}
<1>1. Grant(w) = None \/ Grant(w) # None
  OBVIOUS
<1> QED
  BY <1>1, GrantCoversSlice

(* What all the sessions spend is bounded by what was granted: the root's    *)
(* limit, half the limit of each wrapper called and two responses for each   *)
(* session, for any wrappers, budgets, usages and depth.                     *)
THEOREM SpendBoundedHolds == DelegationSpec => []SpendBounded
<1>1. DelegationInit /\ DelegationInv => SpendInv
  <2> SUFFICES ASSUME DelegationInit, DelegationInv PROVE SpendInv
    OBVIOUS
  <2>1. spent = 0 /\ granted = Plus(RootBudget.tokens, Overshoot) /\ RootBudget.tokens \in Nat \union {None}
    BY DelegationAssumption DEF DelegationInit
  <2>2. granted \in Nat \union {None} /\ (granted # None => granted = RootBudget.tokens + Overshoot)
    BY <2>1, UsageBounds, DelegationAssumption DEF Plus
  <2>3. PICK agent \in DOMAIN Agents : stack = <<Begin(agent, Agents[agent].context,
          Agents[agent].strict, RootBudget, Agents[agent].filter, None)>>
    BY DEF DelegationInit
  <2>4. Len(stack) = 1 /\ stack[1].tokens = 0 /\ stack[1].budget = RootBudget
    BY <2>3 DEF Begin
  <2>5. ASSUME granted # None
        PROVE  \E acc : Allowance(stack, acc) /\ spent + acc[Len(stack)] <= granted
    <3>1. PICK l \in Nat : l = RootBudget.tokens /\ granted = l + Overshoot /\ l # None
      BY <2>1, <2>2, <2>5, UsageBounds, DelegationAssumption DEF Plus
    <3>2. PICK acc : acc = [i \in 0..1 |-> IF i = 0 THEN 0 ELSE l + Overshoot]
      OBVIOUS
    <3>3. acc \in [0..1 -> Nat] /\ acc[0] = 0 /\ acc[1] = l + Overshoot
      BY <3>2, UsageBounds
    <3>4. acc[1] = acc[1 - 1] + (stack[1].budget.tokens + Overshoot - stack[1].tokens)
      BY <2>4, <3>1, <3>3, UsageBounds
    <3>5. Allowance(stack, acc)
      BY <2>4, <3>1, <3>3, <3>4 DEF Allowance
    <3> QED
      BY <2>1, <2>4, <3>1, <3>3, <3>5, UsageBounds
  <2> QED
    BY <2>1, <2>2, <2>5 DEF SpendInv
<1>2. DelegationInv /\ SpendInv /\ [DelegationNext]_delegationVars => SpendInv'
  <2> SUFFICES ASSUME DelegationInv, SpendInv, [DelegationNext]_delegationVars PROVE SpendInv'
    OBVIOUS
  <2> DEFINE WithinGrant(s, m, g) == \E acc : Allowance(s, acc) /\ m + acc[Len(s)] <= g
  <2>1. PICK n \in Nat : n = Len(stack) /\ n >= 1
    BY StackLength DEF DelegationInv, Sound
  <2>2. Sound(stack) /\ SessionOK(stack[n]) /\ Top = stack[n]
    BY <2>1 DEF DelegationInv, Sound, Top
  <2>3. CASE ToolReturns(stack) /\ ~Exceeded(Top) /\ UNCHANGED <<spent, granted>>
    <3>1. ASSUME granted # None PROVE WithinGrant(stack', spent, granted)
      <4>1. PICK acc : Allowance(stack, acc) /\ spent + acc[n] <= granted
        BY <2>1, <3>1 DEF SpendInv
      <4> QED
        BY <2>1, <2>2, <2>3, <4>1, AllowanceReturns
    <3> QED
      BY <2>3, <3>1 DEF SpendInv, Allowance
  <2>4. CASE n # 1 /\ UNCHANGED <<spent, granted>>
             /\ (ToolReturns(Front(stack)) \/ stack' = Front(stack))
    <3>1. ASSUME granted # None PROVE WithinGrant(stack', spent, granted)
      <4>1. PICK acc : Allowance(stack, acc) /\ spent + acc[n] <= granted
        BY <2>1, <3>1 DEF SpendInv
      <4>2. /\ Sound(Front(stack)) /\ Len(Front(stack)) = n - 1
            /\ ~Exceeded(Front(stack)[Len(Front(stack))])
        BY <2>1, <2>2, <2>4, Popped
      <4>3. PICK rest : Allowance(Front(stack), rest) /\ rest[n - 1] <= acc[n]
        BY <2>1, <2>2, <2>4, <4>1, AllowancePop
      <4>4. rest[n - 1] \in Nat /\ acc[n] \in Nat /\ spent \in Nat /\ granted \in Nat
        <5>1. n - 1 \in 0..(n - 1) /\ n \in 0..n
          BY <2>1, <2>4
        <5> QED
          BY <2>1, <3>1, <4>1, <4>2, <4>3, <5>1 DEF Allowance, SpendInv
      <4>5. spent + rest[n - 1] <= granted
        BY <4>1, <4>3, <4>4
      <4>6. CASE ToolReturns(Front(stack))
        BY <4>2, <4>3, <4>5, <4>6, AllowanceReturns
      <4>7. CASE stack' = Front(stack)
        BY <4>2, <4>3, <4>5, <4>7
      <4> QED
        BY <2>4, <4>6, <4>7
    <3> QED
      BY <2>4, <3>1 DEF SpendInv, Allowance
  <2>5. CASE UNCHANGED <<stack, spent, granted>>
    BY <2>5 DEF SpendInv, Allowance
  <2>6. CASE Query
    <3>1. (~Top.caught => ~Exceeded(Top)) /\ Once(Top) /\ granted' = granted
      BY <2>6 DEF Query, Running, DelegationInv
    <3>2. PICK usage \in Usages :
            /\ spent' = spent + usage
            /\ stack' = [stack EXCEPT ![n] = [Top EXCEPT !.tokens = @ + usage]]
      BY <2>1, <2>6 DEF Query
    <3>3. PICK e : e = [Top EXCEPT !.tokens = @ + usage]
      OBVIOUS
    <3>4. SessionOK(e) /\ e.budget = stack[n].budget /\ e.tokens = stack[n].tokens + usage
      BY <2>2, <3>1, <3>3, SpentMore
    <3>7. stack' = [stack EXCEPT ![n] = e] /\ Len(stack') = n
      BY <2>1, <2>2, <3>2, <3>3, <3>4, TopReplaced
    <3>8. usage \in Nat
      BY UsageBounds
    <3>5. ASSUME granted # None PROVE WithinGrant(stack', spent', granted)
      <4>1. PICK acc : Allowance(stack, acc) /\ spent + acc[n] <= granted
        BY <2>1, <3>5 DEF SpendInv
      <4>2. PICK rest : Allowance(stack', rest) /\ rest[n] + e.tokens = acc[n] + stack[n].tokens
        BY <2>1, <2>2, <3>4, <3>7, <4>1, AllowanceTop
      <4>3. n \in 0..n
        BY <2>1
      <4>4. PICK a \in Nat, r \in Nat, k \in Nat, m \in Nat, g \in Nat :
              a = acc[n] /\ r = rest[n] /\ k = stack[n].tokens /\ m = spent /\ g = granted
        BY <2>1, <2>2, <3>5, <3>7, <4>1, <4>2, <4>3 DEF Allowance, SessionOK, SpendInv
      <4>5. r + (k + usage) = a + k /\ m + a <= g
        BY <3>4, <4>1, <4>2, <4>4
      <4>6. m + usage + r <= g
        BY <3>8, <4>5
      <4> QED
        BY <3>2, <3>7, <4>2, <4>4, <4>6
    <3>6. spent' \in Nat
      BY <3>2, <3>8 DEF SpendInv
    <3> QED
      BY <3>1, <3>5, <3>6 DEF SpendInv, Allowance
  <2>12. CASE Recover
    <3>1. Exceeded(Top) /\ UNCHANGED <<spent, granted>>
      BY <2>12 DEF Recover, DelegationInv
    <3>2. PICK e : e = [Top EXCEPT !.caught = TRUE]
      OBVIOUS
    <3>3. /\ e \in [Fields -> {e[f] : f \in Fields}] /\ e.caught = TRUE
          /\ e.budget = Top.budget /\ e.tokens = Top.tokens /\ e.toolCalls = Top.toolCalls
      BY <2>2, <3>2 DEF SessionOK, Fields
    <3>4. SessionOK(e)
      BY <2>2, <3>1, <3>3 DEF SessionOK, Exceeded, Above
    <3>5. stack' = [stack EXCEPT ![n] = e]
      BY <2>1, <2>12, <3>2 DEF Recover, Top
    <3>6. Len(stack') = n
      BY <2>1, <2>2, <3>3, <3>4, <3>5, TopReplaced
    <3>7. ASSUME granted # None PROVE WithinGrant(stack', spent, granted)
      <4>1. PICK acc : Allowance(stack, acc) /\ spent + acc[n] <= granted
        BY <2>1, <3>7 DEF SpendInv
      <4>2. PICK rest : Allowance(stack', rest) /\ rest[n] + e.tokens = acc[n] + stack[n].tokens
        BY <2>1, <2>2, <3>3, <3>4, <3>5, <4>1, AllowanceTop
      <4>3. rest[n] \in Nat /\ acc[n] \in Nat /\ e.tokens \in Nat /\ e.tokens = stack[n].tokens
        <5>1. n \in 0..n
          BY <2>1
        <5> QED
          BY <2>1, <2>2, <3>3, <3>4, <3>6, <4>1, <4>2, <5>1 DEF Allowance, SessionOK
      <4>4. rest[n] = acc[n]
        BY <4>2, <4>3
      <4> QED
        BY <3>6, <4>1, <4>2, <4>4
    <3> QED
      BY <3>1, <3>7 DEF SpendInv, Allowance
  <2>7. CASE Answer
    BY <2>1, <2>4, <2>5, <2>7 DEF Answer
  <2>8. CASE ToolAsserts
    BY <2>5, <2>8 DEF ToolAsserts
  <2>9. CASE Unwind
    BY <2>1, <2>4, <2>5, <2>9 DEF Unwind
  <2>10. ASSUME NEW w \in DOMAIN Wrappers, Delegate(w) PROVE SpendInv'
    <3>1. ~Exceeded(Top) /\ spent' = spent
      BY <2>2, <2>10 DEF Delegate, Running, DelegationInv
    <3>2. CASE ToolReturns(stack) /\ UNCHANGED granted
      BY <2>3, <3>1, <3>2
    <3>3. CASE granted' = Plus(granted, Grant(w)) /\ \E agent, context, strict, tools :
                 stack' = Append(stack, Begin(agent, context, strict, ChildBudget(w), tools, w))
      <4>1. PICK agent, context, strict, tools :
              stack' = Append(stack, Begin(agent, context, strict, ChildBudget(w), tools, w))
        BY <3>3
      <4>2. PICK e : e = Begin(agent, context, strict, ChildBudget(w), tools, w)
        OBVIOUS
      <4>3. SessionOK(e) /\ e.budget = ChildBudget(w) /\ e.tokens = 0
        BY <4>2, BegunOK, ChildLimits
      <4>4. Len(stack') = n + 1 /\ stack' = Append(stack, e)
        BY <2>1, <2>2, <4>1, <4>2, StackPush DEF Sound
      <4>5. granted' \in Nat \union {None}
        BY <3>3, GrantTyped, DelegationAssumption DEF SpendInv, Plus
      <4>6. ASSUME granted' # None PROVE WithinGrant(stack', spent, granted')
        <5>1. granted # None /\ Grant(w) # None /\ granted' = granted + Grant(w)
          BY <3>3, <4>6 DEF Plus
        <5>2. /\ Grant(w) \in Nat /\ ChildBudget(w).tokens \in Nat
              /\ ChildBudget(w).tokens + Overshoot <= Grant(w)
          BY <5>1, GrantCoversSlice
        <5>3. PICK acc : Allowance(stack, acc) /\ spent + acc[n] <= granted
          BY <2>1, <5>1 DEF SpendInv
        <5>4. e.budget.tokens # None
          BY <4>3, <5>2, DelegationAssumption
        <5>5. PICK more : Allowance(stack', more) /\ more[n + 1] = acc[n] + e.budget.tokens + Overshoot
          BY <2>1, <2>2, <4>3, <4>4, <5>3, <5>4, AllowancePush
        <5>6. n \in 0..n
          BY <2>1
        <5>7. PICK a \in Nat, m \in Nat, g \in Nat, h \in Nat, l \in Nat, o \in Nat :
                /\ a = acc[n] /\ m = spent /\ g = granted /\ h = Grant(w) /\ l = e.budget.tokens
                /\ o = Overshoot
          BY UsageBounds, <2>1, <4>3, <5>1, <5>2, <5>3, <5>6 DEF Allowance, SpendInv
        <5>8. m + a <= g /\ l + o <= h
          BY <4>3, <5>2, <5>3, <5>7
        <5>9. m + (a + l + o) <= g + h
          BY <5>8
        <5> QED
          BY <4>4, <5>1, <5>5, <5>7, <5>9
      <4> QED
        BY <3>1, <4>5, <4>6 DEF SpendInv, Allowance
    <3> QED
      BY <2>10, <3>2, <3>3 DEF Delegate
  <2>11. CASE UNCHANGED delegationVars
    BY <2>5, <2>11 DEF delegationVars
  <2> QED
    BY <2>6, <2>7, <2>8, <2>9, <2>10, <2>11, <2>12 DEF DelegationNext
<1>3. DelegationInv /\ SpendInv => SpendBounded
  <2> SUFFICES ASSUME DelegationInv, SpendInv PROVE SpendBounded
    OBVIOUS
  <2>1. PICK n \in Nat : n = Len(stack) /\ n >= 1
    BY StackLength DEF DelegationInv, Sound
  <2>2. ASSUME granted # None PROVE spent <= granted
    <3>1. PICK acc : Allowance(stack, acc) /\ spent + acc[n] <= granted
      BY <2>1, <2>2 DEF SpendInv
    <3>2. n \in 0..n
      BY <2>1
    <3>3. acc[n] \in Nat /\ spent \in Nat /\ granted \in Nat
      BY <2>1, <2>2, <3>1, <3>2 DEF Allowance, SpendInv
    <3> QED
      BY <3>1, <3>3
  <2>3. SessionOK(stack[1]) /\ stack[1].budget = RootBudget
    BY <2>1 DEF DelegationInv, Sound
  <2> QED
    BY <2>2, <2>3 DEF SpendBounded, SessionOK, Within
<1> QED
  BY <1>1, <1>2, <1>3, DelegationInductive, PTL DEF DelegationSpec

-----------------------------------------------------------------------------
(* Whoever is the emitter during a call, the two sessions' calls overlap.    *)
RetrievalInv ==
  /\ retrievePc \in [Sessions -> {retrievePc[s] : s \in Sessions}]
  /\ logs \in [Sessions -> Seq(Sessions)]
  /\ emitter \in Sessions \union {None}
  /\ kind = "memory" => emitter = None
  /\ \A s \in Sessions : retrievePc[s] # "idle" => emitter \in {None, s} \/ {s, emitter} \in met
  /\ ForeignOnlyByOverlap

(* The members of a sequence with one more at its end.                       *)
LEMMA AppendToSet ==
  ASSUME NEW S, NEW q \in Seq(S), NEW e \in S
  PROVE  ToSet(Append(q, e)) = ToSet(q) \union {e}
<1>1. PICK n \in Nat : n = Len(q) /\ DOMAIN q = 1..n
  BY LenProperties
<1>2. /\ DOMAIN Append(q, e) = 1..(n + 1) /\ Append(q, e)[n + 1] = e
      /\ \A i \in 1..n : Append(q, e)[i] = q[i]
  BY <1>1, AppendProperties, LenProperties
<1>3. \A i \in 1..(n + 1) : i \in 1..n \/ i = n + 1
  BY <1>1
<1>4. n + 1 \in 1..(n + 1) /\ \A i \in 1..n : i \in 1..(n + 1)
  BY <1>1
<1> QED
  BY <1>1, <1>2, <1>3, <1>4 DEF ToSet

(* An event in the log of the session it is of, or of one it has met.        *)
LEMMA EmittedToMet ==
  ASSUME RetrievalInv, NEW s \in Sessions, NEW to \in Sessions, to = s \/ {s, to} \in met,
         logs' = [logs EXCEPT ![to] = Append(@, s)], met' = met
  PROVE  logs' \in [Sessions -> Seq(Sessions)] /\ ForeignOnlyByOverlap'
<1>1. logs[to] \in Seq(Sessions) /\ logs' \in [Sessions -> Seq(Sessions)]
  <2>1. Append(logs[to], s) \in Seq(Sessions)
    BY AppendProperties DEF RetrievalInv
  <2> QED
    BY <2>1 DEF RetrievalInv
<1>2. logs'[to] = Append(logs[to], s) /\ \A t \in Sessions \ {to} : logs'[t] = logs[t]
  BY DEF RetrievalInv
<1>3. ToSet(logs'[to]) = ToSet(logs[to]) \union {s}
  BY <1>1, <1>2, AppendToSet
<1>4. ASSUME NEW a \in Sessions, NEW b \in Sessions, a # b, b \in ToSet(logs'[a])
      PROVE  {a, b} \in met
  <2>1. CASE b \in ToSet(logs[a])
    BY <1>4, <2>1 DEF RetrievalInv, ForeignOnlyByOverlap
  <2>2. CASE b \notin ToSet(logs[a])
    <3>1. a = to /\ b = s
      BY <1>2, <1>3, <1>4, <2>2
    <3>2. {a, b} = {s, to}
      BY <3>1
    <3> QED
      BY <1>4, <3>1, <3>2
  <2> QED
    BY <2>1, <2>2
<1> QED
  BY <1>1, <1>4 DEF ForeignOnlyByOverlap

(* An event of one session's retrieval is in another's log only if calls of  *)
(* the two overlapped, for any sessions, documents and kind of retriever.    *)
THEOREM ForeignOnlyByOverlapHolds == RetrievalSpec => []ForeignOnlyByOverlap
<1>1. RetrievalInit => RetrievalInv
  <2> SUFFICES ASSUME RetrievalInit PROVE RetrievalInv
    OBVIOUS
  <2>1. \A s \in Sessions : logs[s] = <<>> /\ ToSet(logs[s]) = {}
    BY DEF RetrievalInit, ToSet
  <2>2. logs \in [Sessions -> Seq(Sessions)]
    BY EmptySeq DEF RetrievalInit
  <2> QED
    BY <2>1, <2>2 DEF RetrievalInit, RetrievalInv, ForeignOnlyByOverlap
<1>2. RetrievalInv /\ [RetrievalNext]_retrievalVars => RetrievalInv'
  <2> SUFFICES ASSUME RetrievalInv, [RetrievalNext]_retrievalVars PROVE RetrievalInv'
    OBVIOUS
  <2>1. CASE UNCHANGED <<kind, emitter, retrievePc, logs, met>>
    BY <2>1 DEF RetrievalInv, ForeignOnlyByOverlap
  <2>2. ASSUME NEW s \in Sessions, NEW pc, At(s, pc)
        PROVE  /\ retrievePc' \in [Sessions -> {retrievePc'[t] : t \in Sessions}]
               /\ \A t \in Sessions \ {s} : retrievePc'[t] = retrievePc[t]
               /\ retrievePc'[s] = pc
    BY <2>2 DEF RetrievalInv, At
  <2>3. ASSUME NEW s \in Sessions, BeginRetrieve(s) PROVE RetrievalInv'
    <3>1. PICK pc : At(s, pc)
      BY <2>3 DEF BeginRetrieve
    <3>2. UNCHANGED <<kind, logs>> /\ met \subseteq met'
      BY <2>3 DEF BeginRetrieve
    <3>3. ForeignOnlyByOverlap'
      BY <3>2 DEF RetrievalInv, ForeignOnlyByOverlap
    <3>4. CASE kind = "memory"
      <4>1. emitter' = None
        BY <2>3, <3>4 DEF BeginRetrieve, RetrievalInv
      <4> QED
        BY <2>2, <3>1, <3>2, <3>3, <4>1 DEF RetrievalInv
    <3>5. CASE kind # "memory"
      <4>1. emitter' = s
        BY <2>3, <3>5 DEF BeginRetrieve, Inject
      <4>2. ASSUME NEW t \in Sessions \ {s}, retrievePc[t] # "idle" PROVE {t, s} \in met'
        <5>1. {s, t} \in met'
          BY <2>3, <4>2 DEF BeginRetrieve
        <5> QED
          BY <5>1
      <4> QED
        BY <2>2, <3>1, <3>2, <3>3, <3>5, <4>1, <4>2 DEF RetrievalInv
    <3> QED
      BY <3>4, <3>5
  <2>4. ASSUME NEW s \in Sessions, RetrieveBase(s) \/ SearchWeb(s) \/ RetrieveAgain(s)
        PROVE  RetrievalInv'
    <3>1. retrievePc[s] # "idle" /\ UNCHANGED <<kind, emitter, logs, met>>
      BY <2>4 DEF RetrieveBase, SearchWeb, RetrieveAgain
    <3>2. PICK pc : At(s, pc)
      BY <2>4 DEF RetrieveBase, SearchWeb, RetrieveAgain
    <3> QED
      BY <2>2, <3>1, <3>2 DEF RetrievalInv, ForeignOnlyByOverlap
  <2>5. ASSUME NEW s \in Sessions, Classify(s) \/ Evaluate(s) \/ EmitRoute(s)
        PROVE  RetrievalInv'
    <3>1. retrievePc[s] # "idle" /\ UNCHANGED <<kind, emitter, met>> /\ EmitShared(s)
      BY <2>5 DEF Classify, Evaluate, EmitRoute
    <3>2. PICK pc : At(s, pc)
      BY <2>5 DEF Classify, Evaluate, EmitRoute
    <3>3. logs' \in [Sessions -> Seq(Sessions)] /\ ForeignOnlyByOverlap'
      <4>1. CASE emitter = None
        BY <3>1, <4>1 DEF EmitShared, RetrievalInv, ForeignOnlyByOverlap
      <4>2. CASE emitter # None
        <5>1. emitter \in Sessions /\ (emitter = s \/ {s, emitter} \in met)
          BY <3>1, <4>2 DEF RetrievalInv
        <5>2. logs' = [logs EXCEPT ![emitter] = Append(@, s)]
          BY <3>1, <4>2 DEF EmitShared
        <5> QED
          BY <3>1, <5>1, <5>2, EmittedToMet
      <4> QED
        BY <4>1, <4>2
    <3> QED
      BY <2>2, <3>1, <3>2, <3>3 DEF RetrievalInv
  <2>6. ASSUME NEW s \in Sessions, FinalizeRetrieval(s) PROVE RetrievalInv'
    <3>1. /\ retrievePc[s] # "idle" /\ UNCHANGED <<kind, emitter, met>> /\ At(s, "idle")
          /\ logs' = [logs EXCEPT ![s] = Append(@, s)]
      BY <2>6 DEF FinalizeRetrieval
    <3>2. logs' \in [Sessions -> Seq(Sessions)] /\ ForeignOnlyByOverlap'
      BY <3>1, EmittedToMet
    <3> QED
      BY <2>2, <3>1, <3>2 DEF RetrievalInv
  <2>7. CASE AddDocument
    BY <2>1, <2>7 DEF AddDocument
  <2>8. CASE UNCHANGED retrievalVars
    BY <2>1, <2>8 DEF retrievalVars
  <2> QED
    BY <2>3, <2>4, <2>5, <2>6, <2>7, <2>8 DEF RetrievalNext
<1>3. RetrievalInv => ForeignOnlyByOverlap
  BY DEF RetrievalInv
<1> QED
  BY <1>1, <1>2, <1>3, PTL DEF RetrievalSpec

-----------------------------------------------------------------------------
Embeds(h, a, m, b, n) ==
  h \in Injection(1..m, 1..n) /\ \A i \in 1..m : b[h[i]] = a[i]

(* A list whose elements another has as often injects into it, each element  *)
(* into one that is equal.                                                   *)
LEMMA CountedInto ==
  ASSUME NEW a, NEW b, NEW m \in Nat, NEW n \in Nat, DOMAIN a = 1..m, DOMAIN b = 1..n,
         \A i \in 1..m : Count(a[i], a) = Count(a[i], b)
  PROVE  \E h : Embeds(h, a, m, b, n)
<1> DEFINE A(x) == {i \in 1..m : a[i] = x}
           B(x) == {i \in 1..n : b[i] = x}
           R == {a[i] : i \in 1..m}
<1>0. IsFiniteSet(1..m) /\ IsFiniteSet(1..n)
  BY FS_Interval
<1>1. \A x \in R : \E f : f \in Bijection(A(x), B(x))
  <2> SUFFICES ASSUME NEW x \in R PROVE \E f : f \in Bijection(A(x), B(x))
    OBVIOUS
  <2>1. IsFiniteSet(A(x)) /\ IsFiniteSet(B(x))
    <3>1. IsFiniteSet(1..m) /\ IsFiniteSet(1..n)
      BY <1>0
    <3>2. A(x) \subseteq 1..m /\ B(x) \subseteq 1..n
      OBVIOUS
    <3> QED
      BY <3>1, <3>2, FS_Subset
  <2>2. Cardinality(A(x)) = Cardinality(B(x))
    BY DEF Count
  <2>3. ExistsBijection(A(x), B(x))
    BY <2>1, <2>2, FS_SameCardinalityBij
  <2> QED
    BY <2>3 DEF ExistsBijection
<1>2. PICK F : F = [x \in R |-> CHOOSE f : f \in Bijection(A(x), B(x))]
  OBVIOUS
<1>3. \A x \in R : F[x] \in Bijection(A(x), B(x))
  BY <1>1, <1>2
<1>4. PICK h : h = [i \in 1..m |-> F[a[i]][i]]
  OBVIOUS
<1>5. \A i \in 1..m : h[i] \in 1..n /\ b[h[i]] = a[i]
  <2> SUFFICES ASSUME NEW i \in 1..m PROVE h[i] \in 1..n /\ b[h[i]] = a[i]
    OBVIOUS
  <2>1. F[a[i]] \in [A(a[i]) -> B(a[i])] /\ i \in A(a[i])
    BY <1>3 DEF Bijection, Injection, Surjection
  <2>2. h[i] \in B(a[i])
    BY <1>4, <2>1
  <2> QED
    BY <2>2
<1>6. \A i, j \in 1..m : h[i] = h[j] => i = j
  <2> SUFFICES ASSUME NEW i \in 1..m, NEW j \in 1..m, h[i] = h[j] PROVE i = j
    OBVIOUS
  <2>1. a[i] = a[j]
    BY <1>5
  <2>2. F[a[i]] \in Injection(A(a[i]), B(a[i])) /\ i \in A(a[i]) /\ j \in A(a[i])
    BY <1>3, <2>1 DEF Bijection
  <2>3. F[a[i]][i] = F[a[i]][j]
    BY <1>4, <2>1
  <2> QED
    BY <2>2, <2>3 DEF Injection, IsInjective
<1>7. h \in [1..m -> 1..n]
  BY <1>4, <1>5
<1>8. h \in Injection(1..m, 1..n)
  BY <1>6, <1>7, Fun_IsInj
<1> QED
  BY <1>5, <1>8 DEF Embeds

(* Comparing lists by length and counts compares them as bags.               *)
LEMMA SameBagIsEquality ==
  ASSUME NEW a, NEW b, IsList(a), IsList(b)
  PROVE  SameBag(a, b) <=> Bag(a) = Bag(b)
<1>1. PICK m \in Nat : m = Len(a) /\ DOMAIN a = 1..m
  BY LenProperties DEF IsList
<1>2. PICK n \in Nat : n = Len(b) /\ DOMAIN b = 1..n
  BY LenProperties DEF IsList
<1>3. IsFiniteSet(1..m) /\ IsFiniteSet(1..n) /\ Cardinality(1..m) = m /\ Cardinality(1..n) = n
  BY FS_Interval
<1>4. ASSUME SameBag(a, b) PROVE Bag(a) = Bag(b)
  <2>1. m = n /\ \A i \in 1..m : Count(a[i], a) = Count(a[i], b)
    BY <1>1, <1>2, <1>4 DEF SameBag
  <2>2. PICK h : h \in Injection(1..m, 1..n) /\ \A i \in 1..m : b[h[i]] = a[i]
    <3>1. \A i \in 1..m : Count(a[i], a) = Count(a[i], b)
      BY <2>1
    <3>2. \E h : Embeds(h, a, m, b, n)
      BY <1>1, <1>2, <3>1, CountedInto
    <3> QED
      BY <3>2 DEF Embeds
  <2>3. h \in Surjection(1..m, 1..n)
    BY <1>3, <2>1, <2>2, FS_Injection
  <2>4. \A j \in 1..n : \E i \in 1..m : h[i] = j
    BY <2>3 DEF Surjection
  <2>5. \A i \in 1..m : h[i] \in 1..n
    BY <2>2 DEF Injection
  <2>6. {a[i] : i \in 1..m} = {b[i] : i \in 1..n}
    <3>1. \A i \in 1..m : \E j \in 1..n : b[j] = a[i]
      BY <2>2, <2>5
    <3>2. \A j \in 1..n : \E i \in 1..m : b[j] = a[i]
      BY <2>2, <2>4
    <3> QED
      BY <3>1, <3>2
  <2>7. \A x \in {a[i] : i \in 1..m} : Count(x, a) = Count(x, b)
    BY <2>1
  <2> QED
    BY <1>1, <1>2, <2>6, <2>7 DEF Bag
<1>5. ASSUME Bag(a) = Bag(b) PROVE SameBag(a, b)
  <2>1. DOMAIN Bag(a) = {a[i] : i \in 1..m} /\ DOMAIN Bag(b) = {b[i] : i \in 1..n}
    BY <1>1, <1>2 DEF Bag
  <2>2. {a[i] : i \in 1..m} = {b[i] : i \in 1..n}
    BY <1>5, <2>1
  <2>3. \A x \in {a[i] : i \in 1..m} : Count(x, a) = Count(x, b)
    <3>1. \A x \in {a[i] : i \in 1..m} : Bag(a)[x] = Count(x, a)
      BY <1>1 DEF Bag
    <3>2. \A x \in {b[i] : i \in 1..n} : Bag(b)[x] = Count(x, b)
      BY <1>2 DEF Bag
    <3> QED
      BY <1>5, <2>2, <3>1, <3>2
  <2>4. PICK h : h \in Injection(1..m, 1..n)
    BY <1>1, <1>2, <2>3, CountedInto DEF Embeds
  <2>5. PICK g : g \in Injection(1..n, 1..m)
    <3>1. \A i \in 1..n : Count(b[i], b) = Count(b[i], a)
      BY <2>2, <2>3
    <3> QED
      BY <1>1, <1>2, <3>1, CountedInto DEF Embeds
  <2>6. m <= n /\ n <= m
    BY <1>3, <2>4, <2>5, FS_Injection
  <2> QED
    BY <1>1, <1>2, <2>3, <2>6 DEF SameBag
<1> QED
  BY <1>4, <1>5

(* Lists are equal when their lengths and entries are.                       *)
LEMMA ListsEqual ==
  ASSUME NEW a, NEW b, IsList(a), IsList(b)
  PROVE  a = b <=> Len(a) = Len(b) /\ \A i \in DOMAIN a : a[i] = b[i]
<1>1. PICK S : S = {a[i] : i \in DOMAIN a} \union {b[i] : i \in DOMAIN b}
  OBVIOUS
<1>2. a \in Seq(S) /\ b \in Seq(S)
  BY <1>1, SeqMonotonic DEF IsList
<1>3. Len(a) = Len(b) /\ (\A i \in DOMAIN a : a[i] = b[i]) => a = b
  BY <1>2, SeqEqual, LenProperties
<1> QED
  BY <1>3

Norm(list) == IF AreStrings(list) THEN [bag |-> Bag(list)] ELSE [list |-> list]

Norms(lists) == [path \in DOMAIN lists |-> Norm(lists[path])]

IsListOrNull(list) == list = Malformed \/ IsList(list)

(* Two lists compare equal just when they normalize to the same.             *)
LEMMA NormIsEquality ==
  ASSUME NEW a, NEW b, IsListOrNull(a), IsListOrNull(b)
  PROVE  (IF AreStrings(a) /\ AreStrings(b) THEN SameBag(a, b) ELSE a = b) <=> Norm(a) = Norm(b)
<1>1. CASE AreStrings(a) /\ AreStrings(b)
  <2>1. IsList(a) /\ IsList(b)
    BY <1>1 DEF AreStrings, IsListOrNull
  <2>2. SameBag(a, b) <=> Bag(a) = Bag(b)
    BY <2>1, SameBagIsEquality
  <2>3. Norm(a) = [bag |-> Bag(a)] /\ Norm(b) = [bag |-> Bag(b)]
    BY <1>1 DEF Norm
  <2>4. Norm(a) = Norm(b) => Norm(a).bag = Norm(b).bag
    OBVIOUS
  <2> QED
    BY <1>1, <2>2, <2>3, <2>4
<1>2. CASE ~AreStrings(a) /\ ~AreStrings(b)
  <2>1. Norm(a) = [list |-> a] /\ Norm(b) = [list |-> b]
    BY <1>2 DEF Norm
  <2>2. Norm(a) = Norm(b) => Norm(a).list = Norm(b).list
    OBVIOUS
  <2> QED
    BY <1>2, <2>1, <2>2
<1>3. CASE AreStrings(a) # AreStrings(b)
  <2>1. a # b
    BY <1>3
  <2>2. "bag" \in DOMAIN Norm(a) <=> AreStrings(a)
    BY DEF Norm
  <2>3. "bag" \in DOMAIN Norm(b) <=> AreStrings(b)
    BY DEF Norm
  <2>4. AreStrings(a) \in BOOLEAN /\ AreStrings(b) \in BOOLEAN
    BY DEF AreStrings
  <2>5. Norm(a) # Norm(b)
    BY <1>3, <2>2, <2>3, <2>4
  <2> QED
    BY <1>3, <2>1, <2>4, <2>5
<1>4. AreStrings(a) \in BOOLEAN /\ AreStrings(b) \in BOOLEAN
  BY DEF AreStrings
<1> QED
  BY <1>1, <1>2, <1>3, <1>4

(* _norm compares the sections path by path.                                 *)
LEMMA SameNormalizedIsEquality ==
  ASSUME NEW a, NEW b, \A path \in DOMAIN a : IsListOrNull(a[path]),
         \A path \in DOMAIN b : IsListOrNull(b[path])
  PROVE  SameNormalized(a, b) <=> Norms(a) = Norms(b)
<1>1. ASSUME DOMAIN a = DOMAIN b
      PROVE  SameNormalized(a, b) <=> \A path \in DOMAIN a : Norm(a[path]) = Norm(b[path])
  <2>1. \A path \in DOMAIN a :
          (IF AreStrings(a[path]) /\ AreStrings(b[path]) THEN SameBag(a[path], b[path])
             ELSE a[path] = b[path]) <=> Norm(a[path]) = Norm(b[path])
    BY <1>1, NormIsEquality
  <2> QED
    BY <1>1, <2>1 DEF SameNormalized
<1>2. DOMAIN Norms(a) = DOMAIN a /\ DOMAIN Norms(b) = DOMAIN b
  BY DEF Norms
<1>3. /\ \A path \in DOMAIN a : Norms(a)[path] = Norm(a[path])
      /\ \A path \in DOMAIN b : Norms(b)[path] = Norm(b[path])
  BY DEF Norms
<1>4. ASSUME DOMAIN a = DOMAIN b, \A path \in DOMAIN a : Norm(a[path]) = Norm(b[path])
      PROVE  Norms(a) = Norms(b)
  BY <1>4 DEF Norms
<1>5. SameNormalized(a, b) => DOMAIN a = DOMAIN b
  BY DEF SameNormalized
<1> QED
  BY <1>1, <1>2, <1>3, <1>4, <1>5

VocabularyBags(o) == [name \in VocabularyLists |-> Bag(Vocabulary(o)[name])]

(* The two lists of the vocabulary are compared as bags.                     *)
LEMMA VocabularyIsEquality ==
  ASSUME NEW o \in Outputs, reference \in Outputs,
         Malformed \notin {Inventory(o), Inventory(reference)}
  PROVE  VocabularyPreserved(o) <=>
           /\ \A name \in VocabularyLists :
                Malformed \notin {Vocabulary(o)[name], Vocabulary(reference)[name]}
           /\ VocabularyBags(o) = VocabularyBags(reference)
<1>1. PICK v, w : v = Vocabulary(o) /\ w = Vocabulary(reference)
  OBVIOUS
<1>2. \A name \in VocabularyLists : IsListOrNull(v[name]) /\ IsListOrNull(w[name])
  BY <1>1, ContractAssumption DEF VocabularyLists, Vocabulary, IsListOrNull
<1>3. VocabularyPreserved(o) <=>
        \A name \in VocabularyLists :
          Malformed \notin {v[name], w[name]} /\ SameBag(v[name], w[name])
  BY <1>1 DEF VocabularyPreserved
<1>4. \A name \in VocabularyLists :
        Malformed \notin {v[name], w[name]} => (SameBag(v[name], w[name]) <=> Bag(v[name]) = Bag(w[name]))
  BY <1>2, SameBagIsEquality DEF IsListOrNull
<1>5. VocabularyBags(o) = VocabularyBags(reference) <=>
        \A name \in VocabularyLists : Bag(v[name]) = Bag(w[name])
  <2>1. PICK f, g : f = VocabularyBags(o) /\ g = VocabularyBags(reference)
    OBVIOUS
  <2>2. /\ f = [name \in VocabularyLists |-> Bag(v[name])]
        /\ g = [name \in VocabularyLists |-> Bag(w[name])]
    BY <1>1, <2>1 DEF VocabularyBags
  <2>3. f = g <=> \A name \in VocabularyLists : f[name] = g[name]
    BY <2>2
  <2> QED
    BY <2>1, <2>2, <2>3
<1> QED
  BY <1>1, <1>3, <1>4, <1>5

TransitionOf(o) == [field \in TransitionFields |-> Section(Record(o), field, None)]

(* The fields of the transition record are compared one by one.              *)
LEMMA TransitionIsEquality ==
  ASSUME NEW o
  PROVE  TransitionAccurate(o) <=> TransitionOf(o) = TransitionOf(reference)
<1>1. PICK f, g : f = TransitionOf(o) /\ g = TransitionOf(reference)
  OBVIOUS
<1>2. /\ f = [field \in TransitionFields |-> Section(Record(o), field, None)]
      /\ g = [field \in TransitionFields |-> Section(Record(reference), field, None)]
  BY <1>1 DEF TransitionOf
<1>3. f = g <=> \A field \in TransitionFields : f[field] = g[field]
  BY <1>2
<1>4. TransitionAccurate(o) <=> \A field \in TransitionFields : f[field] = g[field]
  BY <1>2 DEF TransitionAccurate
<1> QED
  BY <1>1, <1>3, <1>4

Crash(o) == EvidenceRaises(o) \/ VocabularyRaises(o) \/ TransitionRaises(o)

(* Bindings that agree and do not raise can all be read.                     *)
LEMMA EvidenceReadable ==
  ASSUME NEW o \in Outputs, reference \in Outputs, ~EvidenceRaises(o), EvidencePreserved(o)
  PROVE  \A i \in DOMAIN Bindings(o) :
           /\ Bindings(o)[i] = Bindings(reference)[i]
           /\ Bindings(o)[i] # Malformed /\ Bindings(o)[i].ids # Malformed
<1>1. \A i \in DOMAIN Bindings(o) : Bindings(o)[i] = Bindings(reference)[i]
  BY DEF EvidencePreserved
<1>2. ASSUME NEW i \in DOMAIN Bindings(o) PROVE ~PairRaises(Bindings(o)[i], Bindings(reference)[i])
  <2>1. Bindings(o) # Malformed /\ Bindings(reference) # Malformed
    BY DEF EvidenceRaises
  <2>2. PairRaises(Bindings(o)[i], Bindings(reference)[i]) =>
          \E j \in 1..i-1 : Bindings(o)[j] # Bindings(reference)[j]
    BY <2>1 DEF EvidenceRaises, EvidencePreserved
  <2>3. IsList(Bindings(o))
    BY <2>1, ContractAssumption
  <2>4. i \in Nat /\ 1..i-1 \subseteq DOMAIN Bindings(o)
    BY <2>3, LenProperties DEF IsList
  <2> QED
    BY <1>1, <2>2, <2>4
<1> QED
  BY <1>1, <1>2 DEF PairRaises

(* Where an evaluator raises, the output or the reference is not well        *)
(* formed.                                                                   *)
LEMMA CrashIsMalformed ==
  ASSUME NEW o \in Outputs, reference \in Outputs, Crash(o)
  PROVE  ~WellFormed(o) \/ ~WellFormed(reference)
<1> SUFFICES ASSUME WellFormed(o), WellFormed(reference) PROVE FALSE
  OBVIOUS
<1>1. /\ Malformed \notin {Bindings(o), Inventory(o), Record(o)}
      /\ Malformed \notin {Bindings(reference), Inventory(reference), Record(reference)}
  BY DEF WellFormed
<1>2. ~VocabularyRaises(o)
  <2>1. \A name \in VocabularyLists : Sorts(Vocabulary(o)[name]) /\ Sorts(Vocabulary(reference)[name])
    BY DEF WellFormed
  <2> QED
    BY <1>1, <2>1 DEF VocabularyRaises
<1>3. ~TransitionRaises(o)
  BY <1>1 DEF TransitionRaises
<1>4. ~EvidenceRaises(o)
  <2> SUFFICES ASSUME Len(Bindings(o)) = Len(Bindings(reference)), NEW i \in DOMAIN Bindings(o),
                      PairRaises(Bindings(o)[i], Bindings(reference)[i])
               PROVE  FALSE
    BY <1>1 DEF EvidenceRaises
  <2>1. IsList(Bindings(o)) /\ IsList(Bindings(reference))
    BY <1>1, ContractAssumption
  <2>2. i \in DOMAIN Bindings(reference)
    BY <2>1, LenProperties DEF IsList
  <2>3. Bindings(o)[i] # Malformed /\ Bindings(o)[i].ids # Malformed
    BY DEF WellFormed
  <2>4. Bindings(reference)[i] # Malformed /\ Bindings(reference)[i].ids # Malformed
    BY <2>2 DEF WellFormed
  <2> QED
    BY <2>3, <2>4 DEF PairRaises
<1> QED
  BY <1>2, <1>3, <1>4 DEF Crash

(* Where no evaluator raises, a strict pass is agreement with the reference. *)
LEMMA PassIsAgreement ==
  ASSUME NEW o \in Outputs, reference \in Outputs, ~Crash(o)
  PROVE  StrictPass(o) <=> Agrees(o)
<1>1. StrictPass(o) <=> /\ SchemaValid(o) /\ EvidencePreserved(o) /\ VocabularyPreserved(o)
                        /\ TransitionAccurate(o) /\ GateAccurate(o) /\ RetentionAccurate(o)
  BY DEF StrictPass, MutationSucceeds, Metrics
<1>2. /\ Malformed \notin {Bindings(o), Bindings(reference)}
      /\ Malformed \notin {Inventory(o), Inventory(reference)}
      /\ Malformed \notin {Record(o), Record(reference)}
  BY DEF Crash, EvidenceRaises, VocabularyRaises, TransitionRaises
<1>3. EvidencePreserved(o) <=> Bindings(o) = Bindings(reference)
  <2>1. IsList(Bindings(o)) /\ IsList(Bindings(reference))
    BY <1>2, ContractAssumption
  <2> QED
    BY <2>1, ListsEqual DEF EvidencePreserved
<1>4. /\ GateAccurate(o) <=> Norms(Section(o, "transition_gate", Empty))
                             = Norms(Section(reference, "transition_gate", Empty))
      /\ RetentionAccurate(o) <=> Norms(Section(o, "retention_attestation", Empty))
                                  = Norms(Section(reference, "retention_attestation", Empty))
  BY SameNormalizedIsEquality, ContractAssumption DEF GateAccurate, RetentionAccurate, IsListOrNull
<1>5. Canonical(o) = Canonical(reference) <=>
        /\ Bindings(o) = Bindings(reference)
        /\ VocabularyBags(o) = VocabularyBags(reference)
        /\ TransitionOf(o) = TransitionOf(reference)
        /\ Norms(Section(o, "transition_gate", Empty)) = Norms(Section(reference, "transition_gate", Empty))
        /\ Norms(Section(o, "retention_attestation", Empty))
             = Norms(Section(reference, "retention_attestation", Empty))
  BY DEF Canonical, Norms, Norm, VocabularyBags, TransitionOf
<1>6. VocabularyPreserved(o) <=>
        /\ \A name \in VocabularyLists :
             Malformed \notin {Vocabulary(o)[name], Vocabulary(reference)[name]}
        /\ VocabularyBags(o) = VocabularyBags(reference)
  BY <1>2, VocabularyIsEquality
<1>7. ASSUME StrictPass(o) PROVE WellFormed(o) /\ WellFormed(reference)
  <2>1. \A name \in VocabularyLists :
          /\ Vocabulary(o)[name] # Malformed /\ Sorts(Vocabulary(o)[name])
          /\ Vocabulary(reference)[name] # Malformed /\ Sorts(Vocabulary(reference)[name])
    <3>1. \A name \in VocabularyLists :
            Malformed \notin {Vocabulary(o)[name], Vocabulary(reference)[name]}
      BY <1>1, <1>6, <1>7
    <3> QED
      BY <3>1 DEF Crash, VocabularyRaises
  <2>2. \A i \in DOMAIN Bindings(o) :
          Bindings(o)[i] # Malformed /\ Bindings(o)[i].ids # Malformed
    BY <1>1, <1>7, EvidenceReadable DEF Crash
  <2>3. Bindings(o) = Bindings(reference)
    BY <1>1, <1>3, <1>7
  <2> QED
    BY <1>2, <2>1, <2>2, <2>3 DEF WellFormed
<1>8. Agrees(o) => \A name \in VocabularyLists :
                     Malformed \notin {Vocabulary(o)[name], Vocabulary(reference)[name]}
  BY DEF Agrees, WellFormed
<1>9. ASSUME StrictPass(o) PROVE Agrees(o)
  BY <1>1, <1>3, <1>4, <1>5, <1>6, <1>7, <1>9, TransitionIsEquality DEF Agrees
<1>10. ASSUME Agrees(o) PROVE StrictPass(o)
  <2>1. SchemaValid(o) /\ Canonical(o) = Canonical(reference)
    BY <1>10 DEF Agrees
  <2> QED
    BY <1>1, <1>3, <1>4, <1>5, <1>6, <1>8, <1>10, <2>1, TransitionIsEquality
<1> QED
  BY <1>9, <1>10

(* The three verdicts, and what each says.                                   *)
LEMMA VerdictIs ==
  ASSUME NEW o \in Outputs, reference \in Outputs
  PROVE  /\ Verdict(o) \in {"crash", "pass", "fail"}
         /\ Verdict(o) = "crash" => ~WellFormed(o) \/ ~WellFormed(reference)
         /\ Verdict(o) = "pass" => Agrees(o)
         /\ Verdict(o) = "fail" => ~Agrees(o)
<1>1. CASE Crash(o)
  BY <1>1, CrashIsMalformed DEF Verdict, Crash
<1>2. CASE ~Crash(o)
  BY <1>2, PassIsAgreement DEF Verdict, Crash
<1> QED
  BY <1>1, <1>2

(* The answers of admission and of validation.                               *)
LEMMA AdmissionIs ==
  ASSUME NEW g \in Outputs, NEW b \in Outputs, reference \in Outputs
  PROVE  /\ Admission(g, b) = "crash" => ~WellFormed(g) \/ ~WellFormed(b) \/ ~WellFormed(reference)
         /\ Admission(g, b) # "crash" => (Admission(g, b) = "admitted" <=> Agrees(g) /\ ~Agrees(b))
<1>1. CASE Verdict(g) = "crash"
  BY <1>1, VerdictIs DEF Admission
<1>2. CASE Verdict(g) = "fail"
  BY <1>2, VerdictIs DEF Admission
<1>3. CASE Verdict(g) = "pass"
  <2>1. Admission(g, b) = [crash |-> "crash", pass |-> "rejected", fail |-> "admitted"][Verdict(b)]
    BY <1>3 DEF Admission
  <2>2. /\ Verdict(b) = "crash" => Admission(g, b) = "crash"
        /\ Verdict(b) = "pass" => Admission(g, b) = "rejected"
        /\ Verdict(b) = "fail" => Admission(g, b) = "admitted"
    BY <2>1
  <2> QED
    BY <1>3, <2>2, VerdictIs
<1> QED
  BY <1>1, <1>2, <1>3, VerdictIs

LEMMA ValidatedIs ==
  ASSUME NEW o \in Outputs, reference \in Outputs, NEW reason
  PROVE  /\ Validated(o, reason) = "crash" => ~WellFormed(o) \/ ~WellFormed(reference)
         /\ Validated(o, reason) # "crash" => (Validated(o, reason) = "raises" <=> Agrees(o))
<1>1. CASE Verdict(o) = "crash"
  BY <1>1, VerdictIs DEF Validated
<1>2. CASE Verdict(o) = "pass"
  BY <1>2, VerdictIs DEF Validated
<1>3. CASE Verdict(o) = "fail"
  <2>1. Validated(o, reason) \in {"confirmed", "refuted"}
    BY <1>3 DEF Validated
  <2> QED
    BY <1>3, <2>1, VerdictIs
<1> QED
  BY <1>1, <1>2, <1>3, VerdictIs

(* A strict pass means agreement with the reference in everything that       *)
(* counts and nothing else, for any outputs: comparing lists by length and   *)
(* counts neither lets a wrong list through nor rejects a shuffled one; and  *)
(* an evaluator raises only over a part that is not well formed.             *)
THEOREM VerdictsExactHolds == ContractSpec => []VerdictsExact
<1> DEFINE VerdictsInv == reference \in Outputs /\ VerdictsExact
<1>1. ContractInit => VerdictsInv
  BY DEF ContractInit, VerdictsExact
<1>2. VerdictsInv /\ [ContractNext]_contractVars => VerdictsInv'
  <2> SUFFICES ASSUME VerdictsInv, [ContractNext]_contractVars PROVE VerdictsInv'
    OBVIOUS
  <2>0. ASSUME UNCHANGED reference
        PROVE  \A o : (Agrees(o)' <=> Agrees(o)) /\ (WellFormed(o)' <=> WellFormed(o))
    BY <2>0 DEF Agrees, WellFormed, Vocabulary, Canonical
  <2>1. CASE EvaluateRaw
    <3>1. PICK o \in Outputs \union {None} :
            Evaluated("evaluate", <<o>>, IF o = None THEN "fail" ELSE Verdict(o))
      BY <2>1 DEF EvaluateRaw
    <3>2. UNCHANGED reference
      BY <3>1 DEF Evaluated
    <3>3. PICK said : said = IF o = None THEN "fail" ELSE Verdict(o)
      OBVIOUS
    <3>4. evaluation' = [call |-> "evaluate", outputs |-> <<o>>, answer |-> said]
      BY <3>1, <3>3 DEF Evaluated
    <3>5. /\ said = "crash" => o # None /\ (~WellFormed(o) \/ ~WellFormed(reference))
          /\ said # "crash" => (said = "pass" <=> o # None /\ Agrees(o))
      BY <3>3, VerdictIs
    <3>6. /\ evaluation'.call = "evaluate" /\ evaluation'.outputs = <<o>>
          /\ evaluation'.answer = said
      BY <3>4
    <3>7. /\ {evaluation'.outputs[i] : i \in DOMAIN evaluation'.outputs} = {o}
          /\ evaluation'.outputs[1] = o
      BY <3>6
    <3> QED
      BY <2>0, <3>2, <3>5, <3>6, <3>7 DEF VerdictsExact
  <2>2. CASE AdmitAtom
    <3>1. PICK g \in Outputs, b \in Outputs : Evaluated("admit", <<g, b>>, Admission(g, b))
      BY <2>2 DEF AdmitAtom
    <3>2. UNCHANGED reference
      BY <3>1 DEF Evaluated
    <3>3. PICK said : said = Admission(g, b)
      OBVIOUS
    <3>4. evaluation' = [call |-> "admit", outputs |-> <<g, b>>, answer |-> said]
      BY <3>1, <3>3 DEF Evaluated
    <3>5. /\ said = "crash" => ~WellFormed(g) \/ ~WellFormed(b) \/ ~WellFormed(reference)
          /\ said # "crash" => (said = "admitted" <=> Agrees(g) /\ ~Agrees(b))
      BY <3>3, AdmissionIs
    <3>6. /\ evaluation'.call = "admit" /\ evaluation'.outputs = <<g, b>>
          /\ evaluation'.answer = said
      BY <3>4
    <3>7. /\ {evaluation'.outputs[i] : i \in DOMAIN evaluation'.outputs} = {g, b}
          /\ evaluation'.outputs[1] = g /\ evaluation'.outputs[2] = b
      BY <3>6
    <3> QED
      BY <2>0, <3>2, <3>5, <3>6, <3>7, ContractAssumption DEF VerdictsExact
  <2>3. CASE ValidateKnownBad
    <3>1. PICK o \in Outputs, reason \in Checks :
            Evaluated("validate", <<o>>, Validated(o, reason))
      BY <2>3 DEF ValidateKnownBad
    <3>2. UNCHANGED reference
      BY <3>1 DEF Evaluated
    <3>3. PICK said : said = Validated(o, reason)
      OBVIOUS
    <3>4. evaluation' = [call |-> "validate", outputs |-> <<o>>, answer |-> said]
      BY <3>1, <3>3 DEF Evaluated
    <3>5. /\ said = "crash" => ~WellFormed(o) \/ ~WellFormed(reference)
          /\ said # "crash" => (said = "raises" <=> Agrees(o))
      BY <3>3, ValidatedIs
    <3>6. /\ evaluation'.call = "validate" /\ evaluation'.outputs = <<o>>
          /\ evaluation'.answer = said
      BY <3>4
    <3>7. /\ {evaluation'.outputs[i] : i \in DOMAIN evaluation'.outputs} = {o}
          /\ evaluation'.outputs[1] = o
      BY <3>6
    <3> QED
      BY <2>0, <3>2, <3>5, <3>6, <3>7, ContractAssumption DEF VerdictsExact
  <2>4. CASE NewHarness
    BY <2>4 DEF NewHarness, VerdictsExact
  <2>5. CASE UNCHANGED contractVars
    <3>1. UNCHANGED reference /\ UNCHANGED evaluation
      BY <2>5 DEF contractVars
    <3> QED
      BY <2>0, <3>1 DEF VerdictsExact
  <2> QED
    BY <2>1, <2>2, <2>3, <2>4, <2>5 DEF ContractNext
<1>3. VerdictsInv => VerdictsExact
  OBVIOUS
<1> QED
  BY <1>1, <1>2, <1>3, PTL DEF ContractSpec

-----------------------------------------------------------------------------
(* What is extracted from an answer is its whole value, or no object, unless *)
(* the answer is a list in prose.                                            *)
LEMMA ExtractedWhole ==
  ASSUME NEW a \in AnswerTexts
  PROVE  /\ a.place = "prose" /\ Flat(a.value) => Extracted(a) = a.value
         /\ a.place # "prose" => Extracted(a) = a.value
         /\ a.value.json = "object" =>
              Extracted(a) = a.value \/ Extracted(a) = None \/ Extracted(a).json # "object"
         /\ a.value.json # "object" /\ ~(a.place = "prose" /\ a.value.json = "list") =>
              Extracted(a) = None \/ Extracted(a).json # "object"
<1>1. PICK v : v = a.value /\ v # None
  BY StructuredAssumption
<1>2. a.place # "prose" => Extracted(a) = v
  BY <1>1, StructuredAssumption DEF Extracted
<1>3. v.json = "object" => FirstObject(v) = IF Flat(v) THEN v ELSE None
  BY DEF FirstObject
<1>4. v.json \notin {"object", "list"} => FirstObject(v) = None
  BY DEF FirstObject
<1>5. a.place = "prose" => Extracted(a) = FirstObject(v)
  BY <1>1 DEF Extracted
<1>6. Flat(v) => v.json = "object"
  BY DEF Flat
<1> QED
  BY <1>1, <1>2, <1>3, <1>4, <1>5, <1>6, StructuredAssumption

FieldsFit(v, fields) ==
  \A key \in DOMAIN fields :
    IF key \in DOMAIN v.fields
      THEN fields[key].type # "list of str" /\ Fits(v.fields[key], fields[key].type)
      ELSE ~fields[key].required

(* An object whose fields fit is data made of them.                          *)
LEMMA FittingIsData ==
  ASSUME NEW v, v # None, v.json = "object", NEW fields, FieldsFit(v, fields),
         NEW p \in Structured(v, fields)
  PROVE  /\ p.result = "data"
         /\ \A key \in DOMAIN fields \cap DOMAIN v.fields : p.fields[key] = v.fields[key]
<1>1. PICK known : known = DOMAIN fields \cap DOMAIN v.fields
  OBVIOUS
<1>2. \A key \in known : Failures(v.fields[key], fields[key].type) = {}
  <2> SUFFICES ASSUME NEW key \in known PROVE Failures(v.fields[key], fields[key].type) = {}
    OBVIOUS
  <2>1. PICK x, t : x = v.fields[key] /\ t = fields[key].type
    OBVIOUS
  <2>2. t # "list of str" /\ Fits(x, t)
    BY <1>1, <2>1 DEF FieldsFit
  <2>3. t = "int" => x.json \in {"int", "huge", "bool"}
    BY <2>2 DEF Fits
  <2>4. t = "float" => x.json \in {"float", "infinite"}
    BY <2>2 DEF Fits
  <2> QED
    BY <2>1, <2>2, <2>3, <2>4 DEF Failures, Overflows
<1>3. UNION {Failures(v.fields[key], fields[key].type) : key \in known} = {}
  BY <1>2
<1>4. ~\E key \in DOMAIN fields \ known : fields[key].required
  BY <1>1 DEF FieldsFit
<1>5. p = Data([key \in DOMAIN fields |->
                  IF key \in known THEN Coerced(v.fields[key], fields[key].type)
                  ELSE [json |-> "default"]])
  BY <1>1, <1>3, <1>4 DEF Structured
<1>6. \A key \in known : Coerced(v.fields[key], fields[key].type) = v.fields[key]
  BY <1>1 DEF Coerced, FieldsFit
<1> QED
  BY <1>1, <1>5, <1>6 DEF Data

(* Only a number that overflows raises.                                      *)
LEMMA RaisedByOverflow ==
  ASSUME NEW v, NEW fields, NEW p \in Structured(v, fields), p = Raised
  PROVE  /\ v # None /\ v.json = "object"
         /\ \E key \in DOMAIN fields \cap DOMAIN v.fields : Overflows(v.fields[key], fields[key].type)
<1>1. Raised # ParseError /\ \A f : Raised # Data(f)
  BY DEF Raised, ParseError, Data
<1>2. v # None /\ v.json = "object"
  BY <1>1 DEF Structured
<1>3. PICK known : known = DOMAIN fields \cap DOMAIN v.fields
  OBVIOUS
<1>4. p \in UNION {Failures(v.fields[key], fields[key].type) : key \in known}
  BY <1>1, <1>2, <1>3 DEF Structured
<1>5. PICK key \in known : p \in Failures(v.fields[key], fields[key].type)
  BY <1>4
<1>6. Overflows(v.fields[key], fields[key].type)
  BY <1>1, <1>5 DEF Failures
<1> QED
  BY <1>2, <1>3, <1>6

(* An object of the declared types becomes exactly its fields, data are never*)
(* made of a part of an answer but a list in prose, and only a number that   *)
(* overflows its field raises, for any answers and dataclasses.              *)
THEOREM AnswersParsedHolds == StructuredSpec => []AnswersParsed
<1>1. StructuredInit => AnswersParsed
  BY DEF StructuredInit, AnswersParsed
<1>2. AnswersParsed /\ [StructuredNext]_structuredVars => AnswersParsed'
  <2> SUFFICES ASSUME RunStructured PROVE AnswersParsed'
    BY DEF StructuredNext, structuredVars, AnswersParsed, FittingObject, ListInProse
  <2>1. PICK a \in AnswerTexts, w \in OutputTypes :
          \E p \in Structured(Extracted(a), w) : text' = a /\ wanted' = w /\ parsed' = p
    BY DEF RunStructured
  <2>2. PICK p \in Structured(Extracted(a), w) : text' = a /\ wanted' = w /\ parsed' = p
    BY <2>1
  <2>3. a.value # None
    BY StructuredAssumption
  <2>4. ASSUME FittingObject'
        PROVE  /\ p.result = "data"
               /\ \A key \in DOMAIN w \cap DOMAIN a.value.fields : p.fields[key] = a.value.fields[key]
    <3>1. /\ a.value.json = "object" /\ (a.place = "prose" => Flat(a.value))
          /\ FieldsFit(a.value, w)
      BY <2>2, <2>4 DEF FittingObject, FieldsFit
    <3>2. Extracted(a) = a.value
      BY <3>1, ExtractedWhole
    <3>3. p \in Structured(a.value, w)
      BY <2>2, <3>2
    <3> QED
      BY <2>3, <3>1, <3>3, FittingIsData
  <2>5. ~(a.place = "prose" /\ a.value.json = "list") /\ a.value.json # "object" => p = ParseError
    BY <2>2, ExtractedWhole DEF Structured
  <2>6. p = Raised /\ a.value.json = "object" =>
          \E key \in DOMAIN w \cap DOMAIN a.value.fields : Overflows(a.value.fields[key], w[key].type)
    <3>1. SUFFICES ASSUME p = Raised, a.value.json = "object"
                   PROVE  \E key \in DOMAIN w \cap DOMAIN a.value.fields :
                            Overflows(a.value.fields[key], w[key].type)
      OBVIOUS
    <3>2. /\ Extracted(a) # None /\ Extracted(a).json = "object"
          /\ \E key \in DOMAIN w \cap DOMAIN Extracted(a).fields :
               Overflows(Extracted(a).fields[key], w[key].type)
      BY <2>2, <3>1, RaisedByOverflow
    <3> QED
      BY <3>1, <3>2, ExtractedWhole
  <2> QED
    BY <2>2, <2>4, <2>5, <2>6 DEF AnswersParsed, ListInProse
<1> QED
  BY <1>1, <1>2, PTL DEF StructuredSpec

-----------------------------------------------------------------------------
IsListing(l) == l \in Seq({l[i] : i \in DOMAIN l})

LastOf(i, l, name) ==
  /\ i \in DOMAIN l /\ l[i].name = name
  /\ \A n \in DOMAIN l : l[n].name = name => n <= i

(* Every name of a listing has a last place in it.                           *)
LEMMA LastExists ==
  ASSUME NEW l, IsListing(l), NEW k \in DOMAIN l
  PROVE  \E i : LastOf(i, l, l[k].name)
<1>1. PICK n \in Nat : DOMAIN l = 1..n
  BY LenProperties DEF IsListing
<1>2. PICK S : S = {m \in 0..n : n - m \in 1..n /\ l[n - m].name = l[k].name}
  OBVIOUS
<1>3. PICK d \in 0..n : n - d = k
  <2>1. n - k \in 0..n /\ n - (n - k) = k
    BY <1>1
  <2> QED
    BY <2>1
<1>4. S \in SUBSET Nat /\ S # {}
  <2>1. d \in 0..n /\ n - d \in 1..n /\ l[n - d].name = l[k].name
    BY <1>1, <1>3
  <2>2. d \in S
    BY <1>2, <2>1
  <2>3. \A y \in S : y \in Nat
    BY <1>1, <1>2
  <2> QED
    BY <2>2, <2>3
<1>5. PICK m \in S : \A y \in S : m <= y
  BY <1>4, LeastIsOne
<1>6. n - m \in 1..n /\ l[n - m].name = l[k].name /\ m \in Nat
  BY <1>2, <1>4, <1>5
<1>7. ASSUME NEW j \in 1..n, l[j].name = l[k].name PROVE j <= n - m
  <2>1. n - j \in 0..n /\ n - (n - j) = j
    OBVIOUS
  <2>2. n - j \in S
    BY <1>2, <1>7, <2>1
  <2>3. m <= n - j
    BY <1>5, <2>2
  <2> QED
    BY <1>6, <2>3
<1> QED
  BY <1>1, <1>6, <1>7 DEF LastOf

(* A name stands for the last tool that bears it.                            *)
LEMMA BuiltIsLast ==
  ASSUME NEW l, IsListing(l)
  PROVE  /\ DOMAIN Built(l) = {l[i].name : i \in DOMAIN l}
         /\ \A name \in DOMAIN Built(l) : \E i : LastOf(i, l, name) /\ Built(l)[name] = l[i]
<1>1. DOMAIN Built(l) = {l[i].name : i \in DOMAIN l}
  BY DEF Built
<1>2. ASSUME NEW name \in DOMAIN Built(l)
      PROVE  \E i : LastOf(i, l, name) /\ Built(l)[name] = l[i]
  <2>1. PICK k \in DOMAIN l : name = l[k].name
    BY <1>1
  <2>2. \E i : LastOf(i, l, name)
    BY <2>1, LastExists
  <2>3. \E i \in DOMAIN l : l[i].name = name /\ \A n \in DOMAIN l : l[n].name = name => n <= i
    BY <2>2 DEF LastOf
  <2>4. PICK i : i = CHOOSE m \in DOMAIN l :
                       l[m].name = name /\ \A n \in DOMAIN l : l[n].name = name => n <= m
    OBVIOUS
  <2>5. LastOf(i, l, name)
    BY <2>3, <2>4 DEF LastOf
  <2>6. Built(l)[name] = l[i]
    BY <1>1, <2>4 DEF Built
  <2> QED
    BY <2>5, <2>6
<1> QED
  BY <1>1, <1>2

Schemas(l) == [name \in DOMAIN Built(l) |-> SchemaOf(Built(l)[name].schema)]

Graph(f) == {<<x, f[x]>> : x \in DOMAIN f}

(* The names and schemas of a listing are those of the tools built of it:    *)
(* where a name occurs twice, its last.                                      *)
LEMMA SignatureIsBuilt ==
  ASSUME NEW l, IsListing(l)
  PROVE  Signature(l) = Graph(Schemas(l))
<1>1. PICK n \in Nat : DOMAIN l = 1..n
  BY LenProperties DEF IsListing
<1>2. PICK K : K = {k \in DOMAIN l : \A m \in DOMAIN l : m > k => l[m].name # l[k].name}
  OBVIOUS
<1>3. \A k \in DOMAIN l : k \in K <=> LastOf(k, l, l[k].name)
  BY <1>1, <1>2 DEF LastOf
<1>4. \A i, j, name : LastOf(i, l, name) /\ LastOf(j, l, name) => i = j
  BY <1>1 DEF LastOf
<1>5. Signature(l) = {<<l[i].name, SchemaOf(l[i].schema)>> : i \in K}
  BY <1>2 DEF Signature
<1>6. DOMAIN Schemas(l) = DOMAIN Built(l)
      /\ \A name \in DOMAIN Built(l) : Schemas(l)[name] = SchemaOf(Built(l)[name].schema)
  BY DEF Schemas
<1>7. \A i \in K : l[i].name \in DOMAIN Built(l) /\ Built(l)[l[i].name] = l[i]
  <2> SUFFICES ASSUME NEW i \in K PROVE l[i].name \in DOMAIN Built(l) /\ Built(l)[l[i].name] = l[i]
    OBVIOUS
  <2>1. i \in DOMAIN l /\ LastOf(i, l, l[i].name)
    BY <1>2, <1>3
  <2>2. l[i].name \in DOMAIN Built(l)
    BY <2>1, BuiltIsLast
  <2>3. PICK j : LastOf(j, l, l[i].name) /\ Built(l)[l[i].name] = l[j]
    BY <2>2, BuiltIsLast
  <2> QED
    BY <1>4, <2>1, <2>2, <2>3
<1>8. \A name \in DOMAIN Built(l) : \E i \in K : l[i].name = name /\ Built(l)[name] = l[i]
  <2> SUFFICES ASSUME NEW name \in DOMAIN Built(l)
               PROVE  \E i \in K : l[i].name = name /\ Built(l)[name] = l[i]
    OBVIOUS
  <2>1. PICK i : LastOf(i, l, name) /\ Built(l)[name] = l[i]
    BY BuiltIsLast
  <2>2. i \in DOMAIN l /\ l[i].name = name
    BY <2>1 DEF LastOf
  <2> QED
    BY <1>3, <2>1, <2>2
<1>9. Graph(Schemas(l)) = {<<name, SchemaOf(Built(l)[name].schema)>> : name \in DOMAIN Built(l)}
  BY <1>6 DEF Graph
<1>10. \A e \in Signature(l) : e \in Graph(Schemas(l))
  BY <1>5, <1>7, <1>9
<1>11. \A e \in Graph(Schemas(l)) : e \in Signature(l)
  BY <1>5, <1>8, <1>9
<1> QED
  BY <1>10, <1>11

(* Functions with the same graph are the same.                               *)
LEMMA GraphsEqual ==
  ASSUME NEW f, NEW g, f = [x \in DOMAIN f |-> f[x]], g = [x \in DOMAIN g |-> g[x]]
  PROVE  Graph(f) = Graph(g) <=> DOMAIN f = DOMAIN g /\ \A x \in DOMAIN f : f[x] = g[x]
<1>1. ASSUME Graph(f) = Graph(g) PROVE DOMAIN f = DOMAIN g /\ \A x \in DOMAIN f : f[x] = g[x]
  <2>1. \A x \in DOMAIN f : x \in DOMAIN g /\ g[x] = f[x]
    <3> SUFFICES ASSUME NEW x \in DOMAIN f PROVE x \in DOMAIN g /\ g[x] = f[x]
      OBVIOUS
    <3>1. <<x, f[x]>> \in Graph(g)
      BY <1>1 DEF Graph
    <3>2. PICK y \in DOMAIN g : <<x, f[x]>> = <<y, g[y]>>
      BY <3>1 DEF Graph
    <3> QED
      BY <3>2
  <2>2. \A x \in DOMAIN g : x \in DOMAIN f
    <3> SUFFICES ASSUME NEW x \in DOMAIN g PROVE x \in DOMAIN f
      OBVIOUS
    <3>1. <<x, g[x]>> \in Graph(f)
      BY <1>1 DEF Graph
    <3>2. PICK y \in DOMAIN f : <<x, g[x]>> = <<y, f[y]>>
      BY <3>1 DEF Graph
    <3> QED
      BY <3>2
  <2> QED
    BY <2>1, <2>2
<1>2. DOMAIN f = DOMAIN g /\ (\A x \in DOMAIN f : f[x] = g[x]) => Graph(f) = Graph(g)
  BY DEF Graph
<1> QED
  BY <1>1, <1>2

(* The tools are those of the last listing, the pins those of the listing at *)
(* which they were taken, and a verdict is of the present tools and pins.    *)
PinsInv ==
  /\ offered \in Listings /\ IsListing(listing) /\ IsListing(pinnedAt)
  /\ mcpTools = None \/ mcpTools = Built(listing)
  /\ (mcpTools = None /\ pins = None) \/ changed \/ listing = offered
  /\ pins = None \/ pins = Schemas(pinnedAt)
  /\ current = [handed |-> current.handed, drifts |-> current.drifts]
  /\ current.drifts /\ pins # None => mcpTools = Built(listing) /\ drifts = Drifted(mcpTools)
  /\ current.handed =>
       DOMAIN handed = DOMAIN Built(listing)
         /\ \A name \in DOMAIN handed : handed[name].schema = Built(listing)[name].schema

(* PinsInv is an invariant.                                                  *)
LEMMA PinsInductive == PinsSpec => []PinsInv
<1>1. PinsInit => PinsInv
  <2>1. IsListing(<<>>)
    BY EmptySeq DEF IsListing
  <2> QED
    BY <2>1 DEF PinsInit, PinsInv
<1>2. PinsInv /\ [PinsNext]_schemaVars => PinsInv'
  <2> SUFFICES ASSUME PinsInv, [PinsNext]_schemaVars PROVE PinsInv'
    OBVIOUS
  <2>1. IsListing(offered)
    BY SchemaPinsAssumption DEF PinsInv, IsListing
  <2>2. CASE Connect \/ Reconnect
    <3>1. /\ mcpTools' = Built(offered) /\ listing' = offered
          /\ current' = [handed |-> FALSE, drifts |-> FALSE]
          /\ UNCHANGED <<offered, pins, pinnedAt, pinned>>
      BY <2>2 DEF Connect, Reconnect, ListTools, pinVars
    <3> QED
      BY <2>1, <3>1 DEF PinsInv
  <2>3. CASE LoseTransport
    BY <2>3 DEF LoseTransport, serverVars, pinVars, verdictVars, PinsInv, Drifted
  <2>4. CASE ServerChanges
    <3>1. /\ offered' \in Listings /\ changed'
          /\ UNCHANGED <<mcpTools, listing, pins, pinnedAt, handed, drifts, current>>
      BY <2>4 DEF ServerChanges, toolVars, pinVars, verdictVars
    <3> QED
      BY <3>1 DEF PinsInv, Drifted
  <2>5. CASE PinSchemas
    <3>1. /\ mcpTools # None /\ mcpTools = Built(listing) /\ pinnedAt' = listing
          /\ pins' = [name \in DOMAIN mcpTools |-> SchemaOf(mcpTools[name].schema)]
          /\ current' = [current EXCEPT !.drifts = FALSE]
          /\ UNCHANGED <<offered, changed, mcpTools, listing, handed, drifts>>
      BY <2>5 DEF PinSchemas, serverVars, toolVars, PinsInv
    <3>2. pins' = Schemas(listing)
      BY <3>1 DEF Schemas
    <3>3. current' = [handed |-> current.handed, drifts |-> FALSE]
      BY <3>1 DEF PinsInv
    <3> QED
      BY <3>1, <3>2, <3>3 DEF PinsInv
  <2>6. CASE VerifySchemas
    <3>1. /\ mcpTools = Built(listing) /\ (pins # None => drifts' = Drifted(mcpTools))
          /\ current' = [current EXCEPT !.drifts = TRUE]
          /\ UNCHANGED <<offered, changed, mcpTools, listing, pins, pinnedAt, handed>>
      BY <2>6 DEF VerifySchemas, serverVars, toolVars, pinVars, PinsInv
    <3>2. current' = [handed |-> current.handed, drifts |-> TRUE]
      BY <3>1 DEF PinsInv
    <3> QED
      BY <3>1, <3>2 DEF PinsInv, Drifted
  <2>7. CASE DiscoverTools
    <3>1. /\ mcpTools = Built(listing)
          /\ current' = [current EXCEPT !.handed = TRUE]
          /\ UNCHANGED <<offered, changed, mcpTools, listing, pins, pinnedAt, drifts>>
      BY <2>7 DEF DiscoverTools, serverVars, toolVars, pinVars, PinsInv
    <3>2. current' = [handed |-> TRUE, drifts |-> current.drifts]
      BY <3>1 DEF PinsInv
    <3>3. DOMAIN handed' = DOMAIN Built(listing)
          /\ \A name \in DOMAIN handed' : handed'[name].schema = Built(listing)[name].schema
      BY <2>7, <3>1 DEF DiscoverTools
    <3> QED
      BY <3>1, <3>2, <3>3 DEF PinsInv, Drifted
  <2>8. CASE UNCHANGED schemaVars
    BY <2>8 DEF schemaVars, serverVars, toolVars, pinVars, verdictVars, PinsInv, Drifted
  <2> QED
    BY <2>2, <2>3, <2>4, <2>5, <2>6, <2>7, <2>8 DEF PinsNext
<1> QED
  BY <1>1, <1>2, PTL DEF PinsSpec

(* Verifying finds a drift exactly when the client last listed other names   *)
(* or schemas than were pinned, misses what the server lists otherwise only  *)
(* when it has changed since, and the tools handed out of a list without     *)
(* drift have the schemas pinned, for any listings and reconnections.        *)
THEOREM DriftReportedHolds == PinsSpec => []DriftReported
<1>1. PinsInv => DriftReported
  <2> SUFFICES ASSUME PinsInv, pins # None, current.drifts
               PROVE  /\ drifts = {} <=> Signature(listing) = Signature(pinnedAt)
                      /\ drifts = {} /\ Signature(offered) # Signature(pinnedAt) => changed
                      /\ drifts = {} /\ current.handed =>
                           {<<name, SchemaOf(handed[name].schema)>> : name \in DOMAIN handed}
                             = Signature(pinnedAt)
    BY DEF DriftReported
  <2>1. PICK f, g : f = Schemas(listing) /\ g = Schemas(pinnedAt)
    OBVIOUS
  <2>2. /\ f = [x \in DOMAIN f |-> f[x]] /\ g = [x \in DOMAIN g |-> g[x]]
        /\ DOMAIN f = DOMAIN Built(listing)
        /\ \A x \in DOMAIN f : f[x] = SchemaOf(Built(listing)[x].schema)
    BY <2>1 DEF Schemas
  <2>3. pins = g /\ drifts = Drifted(Built(listing))
    BY <2>1 DEF PinsInv
  <2>4. drifts = {name \in DOMAIN f : name \in DOMAIN g => g[name] # f[name]}
                   \union (DOMAIN g \ DOMAIN f)
    BY <2>2, <2>3 DEF Drifted
  <2>5. drifts = {} <=> DOMAIN f = DOMAIN g /\ \A x \in DOMAIN f : f[x] = g[x]
    BY <2>4
  <2>6. Signature(listing) = Graph(f) /\ Signature(pinnedAt) = Graph(g)
    BY <2>1, SignatureIsBuilt DEF PinsInv
  <2>7. drifts = {} <=> Graph(f) = Graph(g)
    BY <2>2, <2>5, GraphsEqual
  <2>8. ASSUME current.handed
        PROVE  {<<name, SchemaOf(handed[name].schema)>> : name \in DOMAIN handed} = Graph(f)
    BY <2>2, <2>8 DEF PinsInv, Graph
  <2>9. changed \/ listing = offered
    BY DEF PinsInv
  <2> QED
    BY <2>6, <2>7, <2>8, <2>9
<1> QED
  BY <1>1, PinsInductive, PTL

-----------------------------------------------------------------------------
(* A listing is a function on 1..n, and such a function is one.              *)
LEMMA ListingLength ==
  ASSUME NEW l, IsListing(l)
  PROVE  Len(l) \in Nat /\ DOMAIN l = 1..Len(l)
<1>1. PICK S : l \in Seq(S)
  BY DEF IsListing
<1> QED
  BY <1>1

LEMMA FunctionIsListing ==
  ASSUME NEW l, NEW n \in Nat, l = [i \in 1..n |-> l[i]]
  PROVE  IsListing(l) /\ DOMAIN l = 1..n
<1>1. DOMAIN l = 1..n
  OBVIOUS
<1>2. l \in [1..n -> {l[i] : i \in 1..n}]
  OBVIOUS
<1>3. l \in Seq({l[i] : i \in 1..n})
  BY <1>2
<1> QED
  BY <1>1, <1>3 DEF IsListing

(* Joining two lists.                                                        *)
LEMMA Joined ==
  ASSUME NEW a, NEW b, IsListing(a), IsListing(b)
  PROVE  /\ IsListing(a \o b)
         /\ DOMAIN (a \o b) = 1 .. (Len(a) + Len(b))
         /\ \A i \in 1..Len(a) : (a \o b)[i] = a[i]
         /\ \A i \in (Len(a) + 1) .. (Len(a) + Len(b)) : (a \o b)[i] = b[i - Len(a)]
<1>1. PICK S : S = {a[i] : i \in DOMAIN a} \union {b[i] : i \in DOMAIN b}
  OBVIOUS
<1>2. a \in Seq(S)
  <2>1. DOMAIN a = 1..Len(a) /\ Len(a) \in Nat /\ a = [i \in 1..Len(a) |-> a[i]]
    BY DEF IsListing
  <2>2. a \in [1..Len(a) -> S]
    BY <1>1, <2>1
  <2> QED
    BY <2>1, <2>2
<1>3. b \in Seq(S)
  <2>1. DOMAIN b = 1..Len(b) /\ Len(b) \in Nat /\ b = [i \in 1..Len(b) |-> b[i]]
    BY DEF IsListing
  <2>2. b \in [1..Len(b) -> S]
    BY <1>1, <2>1
  <2> QED
    BY <2>1, <2>2
<1>4. /\ a \o b \in Seq(S) /\ Len(a \o b) = Len(a) + Len(b)
      /\ \A i \in 1 .. Len(a) + Len(b) : (a \o b)[i] = IF i <= Len(a) THEN a[i] ELSE b[i - Len(a)]
  BY <1>2, <1>3, ConcatProperties
<1>5. Len(a) \in Nat /\ Len(b) \in Nat
  BY ListingLength
<1>6. PICK c, n : c = a \o b /\ n = Len(a) + Len(b)
  OBVIOUS
<1>7. n \in Nat /\ c \in Seq(S) /\ Len(c) = n
  BY <1>4, <1>5, <1>6
<1>8. c = [i \in 1..n |-> c[i]]
  BY <1>7
<1>9. IsListing(c) /\ DOMAIN c = 1..n
  BY <1>7, <1>8, FunctionIsListing
<1> QED
  BY <1>4, <1>5, <1>6, <1>9

-----------------------------------------------------------------------------
(* The first tool of a name is t.                                            *)
FirstIs(tools, name, t) ==
  \E k \in DOMAIN tools :
    /\ tools[k] = t /\ t.name = name
    /\ \A i \in DOMAIN tools : tools[i].name = name => k <= i

(* Every name in a list has a first tool, and only one.                      *)
LEMMA FirstExists ==
  ASSUME NEW tools, IsListing(tools), NEW name \in Names(tools)
  PROVE  FirstIs(tools, name, First(tools, name))
<1>1. PICK I : I = {i \in DOMAIN tools : tools[i].name = name}
  OBVIOUS
<1>2. I \in SUBSET Nat /\ I # {}
  BY <1>1, ListingLength DEF Names
<1>3. Min(I) \in I /\ \A i \in I : Min(I) <= i
  BY <1>2, LeastIsOne
<1>4. First(tools, name) = tools[Min(I)]
  BY <1>1 DEF First
<1> QED
  BY <1>1, <1>3, <1>4 DEF FirstIs

LEMMA FirstUnique ==
  ASSUME NEW tools, IsListing(tools), NEW name, NEW t, FirstIs(tools, name, t)
  PROVE  name \in Names(tools) /\ t = First(tools, name)
<1>1. name \in Names(tools)
  BY DEF FirstIs, Names
<1>2. FirstIs(tools, name, First(tools, name))
  BY <1>1, FirstExists
<1>3. PICK k \in DOMAIN tools :
        tools[k] = t /\ t.name = name /\ \A i \in DOMAIN tools : tools[i].name = name => k <= i
  BY DEF FirstIs
<1>4. PICK m \in DOMAIN tools :
        /\ tools[m] = First(tools, name) /\ First(tools, name).name = name
        /\ \A i \in DOMAIN tools : tools[i].name = name => m <= i
  BY <1>2 DEF FirstIs
<1>5. k <= m /\ m <= k
  BY <1>3, <1>4
<1>6. k = m
  BY <1>5, ListingLength
<1> QED
  BY <1>1, <1>3, <1>4, <1>6

(* Adding to the end of a list leaves its first tools.                       *)
LEMMA FirstOfLeft ==
  ASSUME NEW a, NEW b, IsListing(a), IsListing(b), NEW name, NEW t, FirstIs(a, name, t)
  PROVE  FirstIs(a \o b, name, t)
<1>1. PICK k \in DOMAIN a :
        a[k] = t /\ t.name = name /\ \A i \in DOMAIN a : a[i].name = name => k <= i
  BY DEF FirstIs
<1>2. /\ Len(a) \in Nat /\ DOMAIN a = 1..Len(a) /\ Len(b) \in Nat
      /\ DOMAIN (a \o b) = 1 .. (Len(a) + Len(b))
      /\ \A i \in 1..Len(a) : (a \o b)[i] = a[i]
  BY Joined, ListingLength
<1>3. k \in DOMAIN (a \o b) /\ (a \o b)[k] = t
  BY <1>1, <1>2
<1>4. ASSUME NEW i \in DOMAIN (a \o b), (a \o b)[i].name = name PROVE k <= i
  BY <1>1, <1>2, <1>4
<1> QED
  BY <1>1, <1>3, <1>4 DEF FirstIs

LEMMA FirstOfRight ==
  ASSUME NEW a, NEW b, IsListing(a), IsListing(b), NEW name, NEW t, FirstIs(b, name, t),
         name \notin Names(a)
  PROVE  FirstIs(a \o b, name, t)
<1>1. PICK k \in DOMAIN b :
        b[k] = t /\ t.name = name /\ \A i \in DOMAIN b : b[i].name = name => k <= i
  BY DEF FirstIs
<1>2. /\ Len(a) \in Nat /\ DOMAIN a = 1..Len(a) /\ Len(b) \in Nat /\ DOMAIN b = 1..Len(b)
      /\ DOMAIN (a \o b) = 1 .. (Len(a) + Len(b))
      /\ \A i \in 1..Len(a) : (a \o b)[i] = a[i]
      /\ \A i \in (Len(a) + 1) .. (Len(a) + Len(b)) : (a \o b)[i] = b[i - Len(a)]
  BY Joined, ListingLength
<1>3. Len(a) + k \in DOMAIN (a \o b) /\ (a \o b)[Len(a) + k] = t
  BY <1>1, <1>2
<1>4. ASSUME NEW i \in DOMAIN (a \o b), (a \o b)[i].name = name PROVE Len(a) + k <= i
  <2>1. i \notin 1..Len(a)
    BY <1>2, <1>4 DEF Names
  <2>2. i - Len(a) \in DOMAIN b /\ b[i - Len(a)].name = name
    BY <1>2, <1>4, <2>1
  <2> QED
    BY <1>1, <1>2, <2>2
<1> QED
  BY <1>1, <1>3, <1>4 DEF FirstIs

-----------------------------------------------------------------------------
(* What is kept of a list of tools: the entries kept, and of a name the      *)
(* first where that is kept.                                                 *)
LEMMA KeptOf ==
  ASSUME NEW tools, IsListing(tools), NEW I \in SUBSET (DOMAIN tools)
  PROVE  /\ IsListing(Kept(tools, I))
         /\ \A i \in I : \E m \in DOMAIN Kept(tools, I) : Kept(tools, I)[m] = tools[i]
         /\ \A m \in DOMAIN Kept(tools, I) : \E i \in I : Kept(tools, I)[m] = tools[i]
<1>1. PICK n \in Nat : n = Len(tools) /\ DOMAIN tools = 1..n
  BY ListingLength
<1>2. PICK at : Placed(tools, I, Earlier(I), at)
  BY <1>1, KeptInOrder
<1>3. PICK c, kept : c \in Nat /\ c = Cardinality(I) /\ kept = Kept(tools, I)
  BY <1>2 DEF Placed
<1>4. kept = [m \in 1..c |-> tools[at[m]]] /\ at \in [1..c -> I]
      /\ \A i \in I : \E m \in 1..c : at[m] = i
  BY <1>2, <1>3 DEF Placed, Kept
<1>5. kept = [m \in 1..c |-> kept[m]] /\ DOMAIN kept = 1..c
  BY <1>4
<1>6. IsListing(kept)
  BY <1>3, <1>5, FunctionIsListing
<1> QED
  BY <1>3, <1>4, <1>5, <1>6

LEMMA KeptFirst ==
  ASSUME NEW tools, IsListing(tools), NEW I \in SUBSET (DOMAIN tools),
         NEW k \in I, \A i \in I : tools[i].name = tools[k].name => k <= i
  PROVE  FirstIs(Kept(tools, I), tools[k].name, tools[k])
<1>1. PICK n \in Nat : n = Len(tools) /\ DOMAIN tools = 1..n
  BY ListingLength
<1>2. PICK at : Placed(tools, I, Earlier(I), at)
  BY <1>1, KeptInOrder
<1>3. PICK c, kept : c \in Nat /\ c = Cardinality(I) /\ kept = Kept(tools, I)
  BY <1>2 DEF Placed
<1>4. kept = [m \in 1..c |-> tools[at[m]]] /\ at \in [1..c -> I]
      /\ \A i \in I : \E m \in 1..c : at[m] = i
      /\ \A l, p \in 1..c : l < p => <<at[l], at[p]>> \in Earlier(I)
  BY <1>2, <1>3 DEF Placed, Kept
<1>5. PICK m \in 1..c : at[m] = k
  BY <1>4
<1>6. ASSUME NEW i \in 1..c, kept[i].name = tools[k].name PROVE m <= i
  <2>1. at[i] \in I /\ tools[at[i]].name = tools[k].name
    BY <1>4, <1>6
  <2>2. k <= at[i]
    BY <2>1
  <2>3. i < m => at[i] < at[m]
    BY <1>4 DEF Earlier
  <2>4. at[i] \in Nat /\ at[m] \in Nat
    BY <1>1, <1>4
  <2> QED
    BY <1>5, <2>2, <2>3, <2>4
<1>7. DOMAIN kept = 1..c /\ kept[m] = tools[k]
  BY <1>4, <1>5
<1>8. FirstIs(kept, tools[k].name, tools[k])
  BY <1>6, <1>7 DEF FirstIs
<1> QED
  BY <1>3, <1>8

(* Dropping later tools of a name leaves the first of each.                  *)
LEMMA FirstOfNameFirst ==
  ASSUME NEW tools, IsListing(tools)
  PROVE  /\ IsListing(FirstOfName(tools))
         /\ \A name, t : FirstIs(tools, name, t) => FirstIs(FirstOfName(tools), name, t)
<1>1. PICK I : I = {i \in DOMAIN tools : \A j \in 1 .. i - 1 : tools[j].name # tools[i].name}
  OBVIOUS
<1>2. FirstOfName(tools) = Kept(tools, I) /\ I \in SUBSET (DOMAIN tools)
  BY <1>1 DEF FirstOfName
<1>3. ASSUME NEW name, NEW t, FirstIs(tools, name, t) PROVE FirstIs(Kept(tools, I), name, t)
  <2>1. PICK k \in DOMAIN tools :
          tools[k] = t /\ t.name = name /\ \A i \in DOMAIN tools : tools[i].name = name => k <= i
    BY <1>3 DEF FirstIs
  <2>2. \A j \in 1 .. k - 1 : tools[j].name # name
    <3>1. PICK n \in Nat : DOMAIN tools = 1..n
      BY ListingLength
    <3> QED
      BY <2>1, <3>1
  <2>3. k \in I
    BY <1>1, <2>1, <2>2
  <2> QED
    BY <1>2, <2>1, <2>3, KeptFirst
<1> QED
  BY <1>2, <1>3, KeptOf

-----------------------------------------------------------------------------
(* The first tool of a name that the router gives is of an entry for the     *)
(* task, and of those with this name none has a higher priority.             *)
Rivals(words, entries, name) ==
  {e \in ToSet(entries) : e.intents \cap words # {} /\ e.tool.name = name}

LEMMA RoutedFirst ==
  ASSUME NEW entries, IsListing(entries), \A i \in DOMAIN entries : entries[i].priority \in Int,
         NEW words
  PROVE  /\ IsListing(Route(words, entries))
         /\ \A name, t : FirstIs(Route(words, entries), name, t) =>
              \E e \in Rivals(words, entries, name) :
                /\ e.tool = t
                /\ \A rival \in Rivals(words, entries, name) : rival.priority <= e.priority
<1>1. PICK n \in Nat : n = Len(entries) /\ DOMAIN entries = 1..n
  BY ListingLength
<1>2. PICK I : I = {i \in DOMAIN entries : entries[i].intents \cap words # {}}
  OBVIOUS
<1>3. PICK from : Placed(entries, I, Earlier(I), from)
  <2>1. I \in SUBSET (1..n)
    BY <1>1, <1>2
  <2> QED
    BY <2>1, KeptInOrder
<1>4. PICK c, matched : c \in Nat /\ c = Cardinality(I) /\ matched = Matching(entries, words)
  BY <1>3 DEF Placed
<1>5. matched = [m \in 1..c |-> entries[from[m]]] /\ from \in [1..c -> I]
      /\ \A i \in I : \E m \in 1..c : from[m] = i
  BY <1>2, <1>3, <1>4 DEF Placed, Kept, Matching
<1>6. DOMAIN matched = 1..c /\ \A m \in 1..c : matched[m].priority \in Int
  BY <1>2, <1>5
<1>7. PICK at : Cardinality(1..c) = c /\ Placed(matched, 1..c, Preferred(matched), at)
  BY <1>4, <1>6, SortedByPriority
<1>8. /\ at \in [1..c -> 1..c]
      /\ \A m \in 1..c : \E p \in 1..c : at[p] = m
      /\ \A k, p \in 1..c : k < p => <<at[k], at[p]>> \in Preferred(matched)
      /\ Arranged(matched, 1..c, Preferred(matched)) = [p \in 1..c |-> matched[at[p]]]
  BY <1>7 DEF Placed
<1>9. PICK route : route = Route(words, entries)
  OBVIOUS
<1>10. route = [p \in 1..c |-> matched[at[p]].tool]
  <2>1. ByPriorityDown(matched) = [p \in 1..c |-> matched[at[p]]]
    BY <1>6, <1>8 DEF ByPriorityDown, HighestFirst
  <2>2. route = ToolsOf(ByPriorityDown(matched))
    BY <1>4, <1>9 DEF Route
  <2> QED
    BY <2>1, <2>2 DEF ToolsOf
<1>11. IsListing(route)
  <2>1. route = [p \in 1..c |-> route[p]]
    BY <1>10
  <2> QED
    BY <1>4, <2>1, FunctionIsListing
<1>12. ASSUME NEW name, NEW t, FirstIs(route, name, t)
       PROVE  \E e \in Rivals(words, entries, name) :
                /\ e.tool = t
                /\ \A rival \in Rivals(words, entries, name) : rival.priority <= e.priority
  <2>1. PICK k \in 1..c : /\ route[k] = t /\ t.name = name
                          /\ \A p \in 1..c : route[p].name = name => k <= p
    BY <1>10, <1>12 DEF FirstIs
  <2>2. PICK e : e = matched[at[k]]
    OBVIOUS
  <2>3. \A m \in 1..c : matched[m] \in ToSet(entries) /\ matched[m].intents \cap words # {}
    BY <1>2, <1>5 DEF ToSet
  <2>4. e.tool = t /\ e \in Rivals(words, entries, name)
    BY <1>8, <1>10, <2>1, <2>2, <2>3 DEF Rivals
  <2>5. ASSUME NEW rival \in Rivals(words, entries, name) PROVE rival.priority <= e.priority
    <3>1. PICK i \in DOMAIN entries : entries[i] = rival
      BY DEF Rivals, ToSet
    <3>2. i \in I /\ rival.tool.name = name
      BY <1>2, <3>1 DEF Rivals
    <3>3. PICK p \in 1..c : matched[at[p]] = rival
      <4>1. PICK m \in 1..c : from[m] = i
        BY <1>5, <3>2
      <4>2. PICK p \in 1..c : at[p] = m
        BY <1>8
      <4> QED
        BY <1>5, <3>1, <4>1, <4>2
    <3>4. k <= p
      BY <1>4, <1>10, <2>1, <3>2, <3>3
    <3>5. PICK l, m \in 1..c : l = at[k] /\ m = at[p]
      BY <1>8
    <3>6. e = matched[l] /\ rival = matched[m] /\ e.priority \in Int /\ rival.priority \in Int
      BY <1>6, <2>2, <3>3, <3>5
    <3>7. CASE k < p
      <4>1. <<l, m>> \in Preferred(matched)
        BY <1>8, <3>5, <3>7
      <4>2. matched[l].priority > matched[m].priority \/ matched[l].priority = matched[m].priority
        BY <4>1 DEF Preferred
      <4> QED
        BY <3>6, <4>2
    <3>8. CASE k = p
      BY <3>5, <3>6, <3>8
    <3> QED
      BY <3>4, <3>7, <3>8
  <2> QED
    BY <2>4, <2>5
<1> QED
  BY <1>9, <1>11, <1>12

-----------------------------------------------------------------------------
(* Whatever a session's tools are made of is a list; the agent's own tools   *)
(* come first in it.                                                         *)
Ordinary(entries) ==
  IsListing(entries) /\ \A i \in DOMAIN entries : entries[i].priority \in Int

LEMMA ToolsAreListed ==
  ASSUME NEW entries, IsListing(entries)
  PROVE  IsListing(ToolsOf(entries))
<1>1. PICK n \in Nat : DOMAIN entries = 1..n
  BY ListingLength
<1>2. PICK tools : tools = ToolsOf(entries)
  OBVIOUS
<1>3. tools = [i \in 1..n |-> entries[i].tool]
  BY <1>1, <1>2 DEF ToolsOf
<1>4. tools = [i \in 1..n |-> tools[i]]
  BY <1>3
<1> QED
  BY <1>2, <1>4, FunctionIsListing

LEMMA AllToolsFirst ==
  ASSUME NEW tools, NEW entries, NEW discovered,
         IsListing(tools), IsListing(entries), IsListing(discovered)
  PROVE  /\ IsListing(AllTools(tools, entries, discovered))
         /\ \A name, t : FirstIs(tools, name, t)
                           => FirstIs(AllTools(tools, entries, discovered), name, t)
<1>1. PICK registered : registered = ToolsOf(entries) /\ IsListing(registered)
  BY ToolsAreListed
<1>2. PICK both : both = tools \o registered
  OBVIOUS
<1>3. IsListing(both) /\ \A name, t : FirstIs(tools, name, t) => FirstIs(both, name, t)
  BY <1>1, <1>2, Joined, FirstOfLeft
<1>4. PICK all : all = both \o discovered
  OBVIOUS
<1>5. IsListing(all) /\ \A name, t : FirstIs(both, name, t) => FirstIs(all, name, t)
  BY <1>3, <1>4, Joined, FirstOfLeft
<1>6. AllTools(tools, entries, discovered) = FirstOfName(all)
  BY <1>1, <1>2, <1>4 DEF AllTools
<1> QED
  BY <1>3, <1>5, <1>6, FirstOfNameFirst

LEMMA ResolvedIsListing ==
  ASSUME NEW words, NEW tools, NEW entries, NEW discovered,
         IsListing(tools), Ordinary(entries), IsListing(discovered)
  PROVE  IsListing(Resolve(words, tools, entries, discovered))
<1>1. IsListing(FirstOfName(Route(words, entries)))
  BY RoutedFirst, FirstOfNameFirst DEF Ordinary
<1>2. IsListing(AllTools(tools, entries, discovered))
  BY AllToolsFirst DEF Ordinary
<1> QED
  BY <1>1, <1>2 DEF Resolve

LEMMA SupplementedFirst ==
  ASSUME NEW tools, NEW routed, IsListing(tools), IsListing(routed)
  PROVE  /\ IsListing(Supplemented(tools, routed))
         /\ \A name \in Names(Supplemented(tools, routed)) :
              IF name \in Names(tools)
                THEN First(Supplemented(tools, routed), name) = First(tools, name)
                ELSE FirstIs(routed, name, First(Supplemented(tools, routed), name))
<1>1. PICK I : I = {i \in DOMAIN routed : routed[i].name \notin Names(tools)}
  OBVIOUS
<1>2. PICK more : more = Kept(routed, I)
  OBVIOUS
<1>3. I \in SUBSET (DOMAIN routed)
  BY <1>1
<1>4. IsListing(more) /\ \A m \in DOMAIN more : \E i \in I : more[m] = routed[i]
  BY <1>2, <1>3, KeptOf
<1>5. PICK s : s = Supplemented(tools, routed) /\ s = tools \o more
  BY <1>1, <1>2 DEF Supplemented
<1>6. IsListing(s)
  BY <1>4, <1>5, Joined
<1>7. ASSUME NEW name \in Names(tools) PROVE First(s, name) = First(tools, name)
  <2>1. FirstIs(tools, name, First(tools, name))
    BY <1>7, FirstExists
  <2>2. FirstIs(s, name, First(tools, name))
    BY <1>4, <1>5, <2>1, FirstOfLeft
  <2> QED
    BY <1>6, <2>2, FirstUnique
<1>8. ASSUME NEW name \in Names(s), name \notin Names(tools) PROVE FirstIs(routed, name, First(s, name))
  <2>1. name \in Names(more)
    <3>1. PICK i \in DOMAIN s : s[i].name = name
      BY DEF Names
    <3>2. /\ Len(tools) \in Nat /\ DOMAIN tools = 1..Len(tools)
          /\ Len(more) \in Nat /\ DOMAIN more = 1..Len(more)
          /\ DOMAIN s = 1 .. (Len(tools) + Len(more))
          /\ \A j \in 1..Len(tools) : s[j] = tools[j]
          /\ \A j \in (Len(tools) + 1) .. (Len(tools) + Len(more)) : s[j] = more[j - Len(tools)]
      BY <1>4, <1>5, Joined, ListingLength
    <3>3. i \notin 1..Len(tools)
      BY <1>8, <3>1, <3>2 DEF Names
    <3>4. i - Len(tools) \in DOMAIN more /\ more[i - Len(tools)].name = name
      BY <3>1, <3>2, <3>3
    <3> QED
      BY <3>4 DEF Names
  <2>2. PICK j \in I : routed[j].name = name
    BY <1>4, <2>1 DEF Names
  <2>3. name \in Names(routed)
    BY <1>3, <2>2 DEF Names
  <2>4. FirstIs(routed, name, First(routed, name))
    BY <2>3, FirstExists
  <2>5. PICK k \in DOMAIN routed :
          /\ routed[k] = First(routed, name) /\ First(routed, name).name = name
          /\ \A i \in DOMAIN routed : routed[i].name = name => k <= i
    BY <2>4 DEF FirstIs
  <2>6. k \in I /\ routed[k].name = name
    BY <1>1, <1>8, <2>5
  <2>7. FirstIs(more, name, First(routed, name))
    BY <1>2, <1>3, <2>5, <2>6, KeptFirst
  <2>8. FirstIs(s, name, First(routed, name))
    BY <1>4, <1>5, <1>8, <2>7, FirstOfRight
  <2>9. First(s, name) = First(routed, name)
    BY <1>6, <2>8, FirstUnique
  <2> QED
    BY <2>4, <2>9
<1> QED
  BY <1>5, <1>6, <1>7, <1>8

(* The first tool of a name is shown, unless the filter hides the name.      *)
LEMMA FirstIsShown ==
  ASSUME NEW tools, IsListing(tools), NEW names, NEW name \in Names(tools)
  PROVE  First(tools, name) \in ToSet(Visible(tools, names)) \/ (names # None /\ name \notin names)
<1>1. PICK k \in DOMAIN tools : tools[k] = First(tools, name) /\ tools[k].name = name
  BY FirstExists DEF FirstIs
<1>2. CASE names = None
  BY <1>1, <1>2 DEF Visible, ToSet
<1>3. CASE names # None /\ name \in names
  <2>1. PICK I : I = {i \in DOMAIN tools : tools[i].name \in names}
    OBVIOUS
  <2>2. I \in SUBSET (DOMAIN tools) /\ k \in I
    BY <1>1, <1>3, <2>1
  <2>3. PICK m \in DOMAIN Kept(tools, I) : Kept(tools, I)[m] = tools[k]
    BY <2>2, KeptOf
  <2>4. Visible(tools, names) = Kept(tools, I)
    BY <1>3, <2>1 DEF Visible, Keep
  <2> QED
    BY <1>1, <2>3, <2>4 DEF ToSet
<1> QED
  BY <1>2, <1>3

-----------------------------------------------------------------------------
(* Whatever its name, the tool that would run is the one that should, and    *)
(* the last call ran it.                                                     *)
Right(name, tool) ==
  /\ name \in Names(explicit) => tool = First(explicit, name)
  /\ name \notin Names(explicit) /\ ~catalog =>
       \E e \in Rivals(task, snapshot, name) :
         /\ e.tool = tool
         /\ \A rival \in Rivals(task, snapshot, name) : rival.priority <= e.priority
  /\ tool \in ToSet(shown) \/ (filter # None /\ name \notin filter)

SelectionInv ==
  /\ Ordinary(registry) /\ IsListing(selected)
  /\ \A name \in Names(selected) : Right(name, First(selected, name))
  /\ called # None => called.name \in Names(selected) /\ called.tool = First(selected, called.name)

LEMMA SelectionInductive == SelectionSpec => []SelectionInv
<1>1. SelectionInit => SelectionInv
  <2> SUFFICES ASSUME SelectionInit PROVE SelectionInv
    OBVIOUS
  <2>1. IsListing(<<>>)
    BY DEF IsListing
  <2>2. DOMAIN registry = {} /\ Names(selected) = {}
    BY DEF SelectionInit, Names
  <2> QED
    BY <2>1, <2>2 DEF SelectionInit, SelectionInv, Ordinary
<1>2. SelectionInv /\ [SelectionNext]_selectionVars => SelectionInv'
  <2> SUFFICES ASSUME SelectionInv, [SelectionNext]_selectionVars PROVE SelectionInv'
    OBVIOUS
  <2> USE DEF SelectionInv
  <2>1. CASE Register
    <3>1. PICK entry \in Entries : registry' = Append(registry, entry)
      BY <2>1 DEF Register
    <3>2. Ordinary(registry')
      <4>1. PICK S : registry \in Seq(S)
        BY DEF Ordinary, IsListing
      <4>2. PICK T : T = S \union {entry}
        OBVIOUS
      <4>3. registry \in Seq(T) /\ entry \in T
        BY <4>1, <4>2
      <4>4. PICK n, r : n = Len(registry) + 1 /\ r = Append(registry, entry)
        OBVIOUS
      <4>5. n \in Nat /\ DOMAIN registry = 1 .. n - 1
        BY <4>3, <4>4
      <4>6. r \in Seq(T) /\ Len(r) = n /\ r[n] = entry /\ \A i \in 1 .. n - 1 : r[i] = registry[i]
        BY <4>3, <4>4, <4>5
      <4>7. r = [i \in 1..n |-> r[i]]
        BY <4>5, <4>6
      <4>8. IsListing(r) /\ DOMAIN r = 1..n
        BY <4>5, <4>7, FunctionIsListing
      <4>9. \A i \in 1..n : r[i].priority \in Int
        BY <4>4, <4>5, <4>6, SelectionAssumption DEF Ordinary
      <4> QED
        BY <3>1, <4>4, <4>8, <4>9 DEF Ordinary
    <3>3. UNCHANGED <<catalog, explicit, task, snapshot, selected, filter, shown, called>>
      BY <2>1 DEF Register
    <3> QED
      BY <3>2, <3>3 DEF Right
  <2>2. CASE OpenSession
    <3>1. PICK discovered \in Discovered :
            selected' = IF catalog' THEN AllTools(explicit', registry, discovered)
                        ELSE Supplemented(explicit', Route(task', registry))
      BY <2>2 DEF OpenSession
    <3>2. /\ explicit' \in Explicit /\ snapshot' = registry /\ called' = None /\ registry' = registry
          /\ shown' = Visible(selected', filter')
      BY <2>2 DEF OpenSession
    <3>3. IsListing(explicit') /\ IsListing(discovered) /\ IsListing(registry)
      BY <3>2, SelectionAssumption DEF IsListing, Ordinary
    <3>4. CASE catalog'
      <4>1. selected' = AllTools(explicit', registry, discovered)
        BY <3>1, <3>4
      <4>2. IsListing(selected')
        BY <3>3, <4>1, AllToolsFirst
      <4>3. ASSUME NEW name \in Names(explicit')
            PROVE  First(selected', name) = First(explicit', name)
        <5>1. FirstIs(explicit', name, First(explicit', name))
          BY <3>3, FirstExists
        <5>2. FirstIs(selected', name, First(explicit', name))
          BY <3>3, <4>1, <5>1, AllToolsFirst
        <5> QED
          BY <4>2, <5>2, FirstUnique
      <4>4. ASSUME NEW name \in Names(selected')
            PROVE  First(selected', name) \in ToSet(shown') \/ (filter' # None /\ name \notin filter')
        BY <3>2, <4>2, FirstIsShown
      <4> QED
        BY <3>2, <3>4, <4>2, <4>3, <4>4 DEF Right, Ordinary
    <3>5. CASE ~catalog'
      <4>1. PICK routed : routed = Route(task', registry) /\ IsListing(routed)
        BY RoutedFirst DEF Ordinary
      <4>2. selected' = Supplemented(explicit', routed)
        BY <3>1, <3>5, <4>1
      <4>3. IsListing(selected')
        BY <3>3, <4>1, <4>2, SupplementedFirst
      <4>4. ASSUME NEW name \in Names(selected') PROVE Right(name, First(selected, name))'
        <5>1. IF name \in Names(explicit')
                THEN First(selected', name) = First(explicit', name)
                ELSE FirstIs(routed, name, First(selected', name))
          BY <3>3, <4>1, <4>2, <4>4, SupplementedFirst
        <5>2. First(selected', name) \in ToSet(shown') \/ (filter' # None /\ name \notin filter')
          BY <3>2, <4>3, <4>4, FirstIsShown
        <5>3. ASSUME name \notin Names(explicit')
              PROVE  \E e \in Rivals(task', registry, name) :
                       /\ e.tool = First(selected', name)
                       /\ \A rival \in Rivals(task', registry, name) : rival.priority <= e.priority
          BY <4>1, <5>1, <5>3, RoutedFirst DEF Ordinary
        <5> QED
          BY <3>2, <5>1, <5>2, <5>3 DEF Right
      <4> QED
        BY <3>2, <4>3, <4>4 DEF Ordinary
    <3> QED
      BY <3>4, <3>5
  <2>3. CASE OpenResolved
    <3>1. PICK tools \in Explicit, discovered \in Discovered :
            explicit' = Resolve(task', tools, registry, discovered)
      BY <2>3 DEF OpenResolved
    <3>2. selected' = explicit' /\ shown' = Visible(selected', filter') /\ called' = None
          /\ registry' = registry
      BY <2>3 DEF OpenResolved
    <3>3. IsListing(tools) /\ IsListing(discovered)
      BY SelectionAssumption DEF IsListing
    <3>4. IsListing(selected')
      BY <3>1, <3>2, <3>3, ResolvedIsListing
    <3>5. ASSUME NEW name \in Names(selected') PROVE Right(name, First(selected, name))'
      <4>1. First(selected', name) \in ToSet(shown') \/ (filter' # None /\ name \notin filter')
        BY <3>2, <3>4, <3>5, FirstIsShown
      <4> QED
        BY <3>2, <3>5, <4>1 DEF Right
    <3> QED
      BY <3>2, <3>4, <3>5 DEF Ordinary
  <2>4. CASE Call
    <3>1. /\ UNCHANGED <<registry, catalog, explicit, task, snapshot, selected, filter, shown>>
          /\ called'.name \in Names(selected) /\ called'.tool = First(selected, called'.name)
      BY <2>4 DEF Call, FindTool
    <3> QED
      BY <3>1 DEF Right
  <2>5. CASE UNCHANGED selectionVars
    BY <2>5 DEF selectionVars, Right
  <2> QED
    BY <2>1, <2>2, <2>3, <2>4, <2>5 DEF SelectionNext
<1> QED
  BY <1>1, <1>2, PTL DEF SelectionSpec

(* The agent's own tool of a name runs, and failing that, without a catalog, *)
(* one of the highest priority for the task, for any tools, tasks, filters   *)
(* and numbers of entries.                                                   *)
THEOREM RunsPreferredHolds == SelectionSpec => []RunsPreferred
<1>1. SelectionInv => RunsPreferred
  <2> SUFFICES ASSUME SelectionInv, called # None PROVE RunsPreferred
    BY DEF RunsPreferred
  <2>1. Right(called.name, called.tool)
    BY DEF SelectionInv
  <2> QED
    BY <2>1 DEF RunsPreferred, Right, Rivals
<1> QED
  BY <1>1, SelectionInductive, PTL

-----------------------------------------------------------------------------
(* Cutting a path shorter by one name or by several.                         *)
LEMMA PathCut ==
  ASSUME NEW path \in Seq(STRING), NEW n \in 0 .. Len(path)
  PROVE  /\ SubSeq(path, 1, n) \in Seq(STRING) /\ Len(SubSeq(path, 1, n)) = n
         /\ \A m \in 0 .. n : SubSeq(SubSeq(path, 1, n), 1, m) = SubSeq(path, 1, m)
<1>1. n \in Nat /\ n <= Len(path) /\ Len(path) \in Nat
  OBVIOUS
<1>2. PICK short : short = SubSeq(path, 1, n)
  OBVIOUS
<1>3. short \in Seq(STRING) /\ Len(short) = n /\ \A i \in 1..n : short[i] = path[i]
  BY <1>1, <1>2
<1>4. ASSUME NEW m \in 0 .. n PROVE SubSeq(short, 1, m) = SubSeq(path, 1, m)
  <2>1. m \in Nat /\ m <= n
    BY <1>1
  <2>2. /\ SubSeq(short, 1, m) \in Seq(STRING) /\ Len(SubSeq(short, 1, m)) = m
        /\ \A i \in 1..m : SubSeq(short, 1, m)[i] = short[i]
    BY <1>1, <1>3, <2>1
  <2>3. /\ SubSeq(path, 1, m) \in Seq(STRING) /\ Len(SubSeq(path, 1, m)) = m
        /\ \A i \in 1..m : SubSeq(path, 1, m)[i] = path[i]
    BY <1>1, <2>1
  <2>4. \A i \in 1..m : SubSeq(short, 1, m)[i] = SubSeq(path, 1, m)[i]
    BY <1>1, <1>3, <2>1, <2>2, <2>3
  <2> QED
    BY <2>2, <2>3, <2>4, SeqEqual
<1> QED
  BY <1>2, <1>3, <1>4

(* A part lies in the parts all the way up to the root.                      *)
LEMMA PartsAround ==
  ASSUME NEW table, IsTree(table), NEW path \in DOMAIN table, NEW n \in 0 .. Len(path)
  PROVE  path \in Seq(STRING) /\ SubSeq(path, 1, n) \in DOMAIN table
<1>1. path \in Seq(STRING) /\ Len(path) \in Nat /\ n \in Nat /\ n <= Len(path)
  BY DEF IsTree
<1>2. SUFFICES ASSUME SubSeq(path, 1, n) \notin DOMAIN table PROVE FALSE
  BY <1>1
<1>3. PICK S : S = {k \in Nat : k <= Len(path) /\ SubSeq(path, 1, Len(path) - k) \notin DOMAIN table}
  OBVIOUS
<1>4. Len(path) - n \in S
  BY <1>1, <1>2, <1>3
<1>5. PICK k : k \in S /\ \A j \in S : k <= j
  BY <1>3, <1>4, LeastIsOne
<1>6. SubSeq(path, 1, Len(path)) = path
  BY <1>1
<1>7. k \in Nat /\ k # 0 /\ k <= Len(path) /\ SubSeq(path, 1, Len(path) - k) \notin DOMAIN table
  <2>1. k \in Nat /\ k <= Len(path) /\ SubSeq(path, 1, Len(path) - k) \notin DOMAIN table
    BY <1>3, <1>5
  <2>2. k = 0 => Len(path) - k = Len(path)
    BY <1>1
  <2> QED
    BY <1>6, <2>1, <2>2
<1>8. PICK m : m = Len(path) - (k - 1)
  OBVIOUS
<1>9. m \in 1 .. Len(path) /\ m - 1 = Len(path) - k /\ k - 1 \in Nat
  BY <1>1, <1>7, <1>8
<1>10. SubSeq(path, 1, m) \in DOMAIN table
  BY <1>1, <1>3, <1>5, <1>7, <1>8, <1>9
<1>11. /\ Len(SubSeq(path, 1, m)) = m
       /\ SubSeq(SubSeq(path, 1, m), 1, m - 1) = SubSeq(path, 1, m - 1)
  BY <1>1, <1>9, PathCut
<1>12. SubSeq(path, 1, m) # <<>>
  BY <1>9, <1>11
<1>13. SubSeq(path, 1, m - 1) \in DOMAIN table
  BY <1>10, <1>11, <1>12 DEF IsTree, Outer
<1> QED
  BY <1>7, <1>9, <1>13

(* What appending makes of the last name and of those before it.             *)
LEMMA NameAppended ==
  ASSUME NEW S, NEW path \in Seq(S), NEW f \in S
  PROVE  Append(path, f) \in Seq(S)
  BY AppendProperties

LEMMA LastAppended ==
  ASSUME NEW S, NEW path \in Seq(S), NEW f \in S
  PROVE  Append(path, f)[Len(path) + 1] = f
  BY AppendProperties

LEMMA RestAppended ==
  ASSUME NEW S, NEW path \in Seq(S), NEW f \in S, NEW i \in 1 .. Len(path)
  PROVE  Append(path, f)[i] = path[i]
  BY AppendProperties

(* The part of a path is a field of the part at the path without its end.    *)
LEMMA FieldIsPart ==
  ASSUME NEW table, IsTree(table), NEW path \in Seq(STRING), NEW f \in STRING
  PROVE  f \in FieldsAt(table, path) <=> Append(path, f) \in DOMAIN table
<1>1. PICK long : long = Append(path, f)
  OBVIOUS
<1>2. Len(path) \in Nat /\ long \in Seq(STRING) /\ Len(long) = Len(path) + 1 /\ long # <<>>
  <2>1. Append(path, f) \in Seq(STRING)
    BY NameAppended
  <2>2. Len(Append(path, f)) = Len(path) + 1 /\ Len(path) \in Nat
    OBVIOUS
  <2>3. long \in Seq(STRING) /\ Len(long) = Len(path) + 1
    BY <1>1, <2>1, <2>2, Zenon
  <2> QED
    BY <2>2, <2>3
<1>3. long[Len(long)] = f
  BY <1>1, <1>2, LastAppended
<1>4. \A i \in 1 .. Len(path) : long[i] = path[i]
  BY <1>1, RestAppended
<1>5. Outer(long) = path
  <2>1. Len(long) - 1 = Len(path) /\ Len(path) \in 0 .. Len(long)
    BY <1>1, <1>2, <1>3, <1>4
  <2>2. /\ SubSeq(long, 1, Len(path)) \in Seq(STRING) /\ Len(SubSeq(long, 1, Len(path))) = Len(path)
        /\ \A i \in 1 .. Len(path) : SubSeq(long, 1, Len(path))[i] = long[i]
    BY <1>1, <1>2, <1>3, <1>4
  <2>3. SubSeq(long, 1, Len(path)) = path
    BY <1>1, <1>2, <1>3, <1>4, <2>2, SeqEqual
  <2> QED
    BY <2>1, <2>3 DEF Outer
<1>6. ASSUME f \in FieldsAt(table, path) PROVE long \in DOMAIN table
  <2>1. PICK deeper \in DOMAIN table : deeper # <<>> /\ Outer(deeper) = path /\ deeper[Len(deeper)] = f
    BY <1>6 DEF FieldsAt
  <2>2. deeper \in Seq(STRING) /\ Len(deeper) \in Nat /\ Len(deeper) # 0
    BY <2>1 DEF IsTree
  <2>3. PICK n : n = Len(deeper) - 1
    OBVIOUS
  <2>4. n \in Nat /\ Len(deeper) = n + 1 /\ path = SubSeq(deeper, 1, n)
    BY <2>1, <2>2, <2>3 DEF Outer
  <2>5. Len(path) = n /\ \A i \in 1..n : path[i] = deeper[i]
    BY <2>2, <2>4
  <2>6. \A i \in 1 .. Len(long) : long[i] = deeper[i]
    <3>1. \A i \in 1 .. n : long[i] = deeper[i]
      BY <1>1, <1>2, <1>3, <1>4, <2>5
    <3>2. Len(long) = n + 1 /\ long[n + 1] = deeper[n + 1]
      BY <1>1, <1>2, <1>3, <1>4, <2>1, <2>4, <2>5
    <3> QED
      BY <2>4, <3>1, <3>2
  <2>7. long = deeper
    BY <1>1, <1>2, <1>3, <1>4, <2>2, <2>4, <2>5, <2>6, SeqEqual
  <2> QED
    BY <2>7
<1>7. ASSUME long \in DOMAIN table PROVE f \in FieldsAt(table, path)
  BY <1>2, <1>3, <1>5, <1>7 DEF FieldsAt
<1> QED
  BY <1>1, <1>6, <1>7

(* What the checkers of both validators say of an object and of a number.    *)
LEMMA CheckersOfObject ==
  /\ DOMAIN TypeCheckers = {"string", "integer", "number", "boolean", "array", "object", "null"}
  /\ \A t \in DOMAIN TypeCheckers : "object" \in TypeCheckers[t] => t = "object"
<1>1. DOMAIN TypeCheckers = {"string", "integer", "number", "boolean", "array", "object", "null"}
  BY DEF TypeCheckers
<1>2. /\ "object" \notin TypeCheckers["string"] /\ "object" \notin TypeCheckers["integer"]
      /\ "object" \notin TypeCheckers["number"] /\ "object" \notin TypeCheckers["boolean"]
      /\ "object" \notin TypeCheckers["array"] /\ "object" \notin TypeCheckers["null"]
  BY DEF TypeCheckers
<1> QED
  BY <1>1, <1>2

LEMMA CheckersOfTypes ==
  ASSUME NEW t \in DOMAIN TypeCheckers, NEW json, json \notin {"bool", "integral"}
  PROVE  json \in TypeCheckers[t] <=> json \in DraftTypes[t]
<1>1. t \notin {"integer", "number"} => DraftTypes[t] = TypeCheckers[t]
  BY DEF DraftTypes
<1>2. /\ TypeCheckers["integer"] = {"int", "bool"}
      /\ TypeCheckers["number"] = {"int", "bool", "float", "integral"}
      /\ {"integer", "number"} \subseteq DOMAIN TypeCheckers
  BY DEF TypeCheckers
<1>3. /\ DraftTypes["integer"] = {"int", "integral"}
      /\ DraftTypes["number"] = {"int", "float", "integral"}
  BY <1>2 DEF DraftTypes
<1> QED
  BY <1>1, <1>2, <1>3

(* Two checks of the types and enums of one part agree, given that the       *)
(* schema names a type for it and neither holds what Python takes for a 1.   *)
LEMMA PartsAgree ==
  ASSUME NEW part, NEW json, part.type \in DOMAIN TypeCheckers, None \notin DOMAIN TypeCheckers,
         json \notin {"bool", "integral"}, part.enum # None => "bool" \notin part.enum
  PROVE  FitsAlone(part, json) <=>
           /\ json \in DraftTypes[part.type]
           /\ part.enum # None => \E member \in part.enum : DraftEqual(member, json)
<1>2. json \in TypeCheckers[part.type] <=> json \in DraftTypes[part.type]
  BY CheckersOfTypes
<1>3. \A member : member # "bool" => (Equal(member, json) <=> DraftEqual(member, json))
  <2> SUFFICES ASSUME NEW member, member # "bool"
               PROVE  Equal(member, json) <=> DraftEqual(member, json)
    OBVIOUS
  <2>1. member \in Ones <=> member \in {"int", "integral"}
    BY DEF Ones
  <2>2. json \in Ones <=> json = "int"
    BY DEF Ones
  <2>3. CASE json = "int"
    <3>1. {member, json} = {"int", "integral"} => member = "integral"
      BY <2>3
    <3>2. member = "integral" => {member, json} = {"int", "integral"}
      BY <2>3
    <3> QED
      BY <2>1, <2>2, <2>3, <3>1, <3>2 DEF Equal, DraftEqual
  <2>4. CASE json # "int"
    <3>1. {member, json} # {"int", "integral"}
      BY <2>4
    <3> QED
      BY <2>2, <2>4, <3>1 DEF Equal, DraftEqual
  <2> QED
    BY <2>3, <2>4
<1> QED
  BY <1>2, <1>3 DEF FitsAlone, HasType

(* Where the validator does not go although the part and the value are       *)
(* there, it has met an object that was declared to be something else.       *)
LEMMA StoppedForAReason ==
  ASSUME NEW s \in ToolInputs, NEW value \in Arguments,
         NEW path \in DOMAIN s \cap DOMAIN value, path \notin Visited(s, value)
  PROVE  \E outer \in Visited(s, value) : value[outer] = "object" /\ s[outer].type # "object"
<1>1. IsTree(s) /\ IsTree(value)
  BY SchemasAssumption
<1>2. path \in Seq(STRING) /\ Len(path) \in Nat
  BY <1>1, PartsAround DEF IsTree
<1>3. PICK S : S = {n \in 0 .. Len(path) - 1 : ~IsObject(s[SubSeq(path, 1, n)], value[SubSeq(path, 1, n)])}
  OBVIOUS
<1>4. S # {} /\ S \in SUBSET Nat
  BY <1>2, <1>3 DEF Visited
<1>5. PICK n : n \in S /\ \A m \in S : n <= m
  BY <1>4, LeastIsOne
<1>6. PICK outer : outer = SubSeq(path, 1, n)
  OBVIOUS
<1>7. n \in Nat /\ n + 1 <= Len(path) /\ n \in 0 .. Len(path) /\ n + 1 \in 0 .. Len(path)
  BY <1>2, <1>3, <1>5
<1>8. outer \in DOMAIN s /\ outer \in DOMAIN value
  BY <1>1, <1>6, <1>7, PartsAround
<1>9. Len(outer) = n /\ \A m \in 0 .. n : SubSeq(outer, 1, m) = SubSeq(path, 1, m)
  BY <1>2, <1>6, <1>7, PathCut
<1>10. outer \in Visited(s, value)
  <2>1. ASSUME NEW m \in 0 .. n - 1
        PROVE  IsObject(s[SubSeq(outer, 1, m)], value[SubSeq(outer, 1, m)])
    <3>1. m \notin S /\ m \in 0 .. Len(path) - 1 /\ m \in 0 .. n
      BY <1>2, <1>5, <1>7
    <3> QED
      BY <1>3, <1>9, <3>1
  <2> QED
    BY <1>8, <1>9, <2>1 DEF Visited
<1>11. value[outer] = "object"
  <2>1. PICK deeper : deeper = SubSeq(path, 1, n + 1)
    OBVIOUS
  <2>2. deeper \in DOMAIN value
    BY <1>1, <1>7, <2>1, PartsAround
  <2>3. Len(deeper) = n + 1 /\ SubSeq(deeper, 1, n) = outer
    BY <1>2, <1>6, <1>7, <2>1, PathCut
  <2>4. deeper # <<>> /\ Outer(deeper) = outer
    BY <1>7, <2>3 DEF Outer
  <2> QED
    BY <2>2, <2>4, SchemasAssumption
<1>12. s[outer].type # "object"
  BY <1>3, <1>5, <1>6, <1>11 DEF IsObject
<1> QED
  BY <1>10, <1>11, <1>12

(* What an object must and may have, said of its fields and of the paths.    *)
LEMMA ClosedAgree ==
  ASSUME NEW s \in ToolInputs, NEW value \in Arguments, NEW path \in DOMAIN s \cap DOMAIN value
  PROVE  ObjectClosed(s, value, path) <=>
           /\ \A f \in s[path].required : Append(path, f) \in DOMAIN value
           /\ \A f \in FieldsAt(value, path) : Append(path, f) \in DOMAIN s \/ s[path].additional
<1>1. IsTree(s) /\ IsTree(value) /\ path \in Seq(STRING) /\ s[path].required \subseteq STRING
  BY SchemasAssumption DEF IsTree
<1>2. \A f \in STRING : /\ f \in FieldsAt(value, path) <=> Append(path, f) \in DOMAIN value
                        /\ f \in FieldsAt(s, path) <=> Append(path, f) \in DOMAIN s
  BY <1>1, FieldIsPart
<1>3. FieldsAt(value, path) \subseteq STRING
  <2> SUFFICES ASSUME NEW deeper \in DOMAIN value, deeper # <<>> PROVE deeper[Len(deeper)] \in STRING
    BY DEF FieldsAt
  <2>1. deeper \in Seq(STRING) /\ Len(deeper) \in 1 .. Len(deeper)
    BY <1>1 DEF IsTree
  <2> QED
    BY <2>1
<1> QED
  BY <1>1, <1>2, <1>3 DEF ObjectClosed

(* The two validators, of one schema and one value.                          *)
LEMMA VerdictsAgree ==
  ASSUME NEW s \in ToolInputs, NEW value \in Arguments, None \notin DOMAIN TypeCheckers,
         Typed(s), Covered(s), Plain(s, value)
  PROVE  Violated(s, value) <=> ~DraftAccepts(s, value)
<1>1. ASSUME NEW path \in DOMAIN s \cap DOMAIN value
      PROVE  /\ s[path].type # None
             /\ FitsAlone(s[path], value[path]) <=>
                  /\ value[path] \in DraftTypes[s[path].type]
                  /\ s[path].enum # None =>
                       \E member \in s[path].enum : DraftEqual(member, value[path])
             /\ value[path] \notin s[path].further
             /\ FitsAlone(s[path], value[path]) /\ value[path] = "object" => s[path].type = "object"
  <2>1. s[path].type \in DOMAIN TypeCheckers /\ value[path] \notin {"bool", "integral"}
    BY DEF Typed, Plain
  <2>2. s[path].enum # None => "bool" \notin s[path].enum
    BY DEF Plain
  <2>4. value[path] \notin s[path].further
    BY DEF Covered
  <2>3. FitsAlone(s[path], value[path]) /\ value[path] = "object" => s[path].type = "object"
    BY <2>1, CheckersOfObject DEF FitsAlone, HasType
  <2> QED
    BY <2>1, <2>2, <2>3, <2>4, PartsAgree
<1>2. ASSUME NEW path \in Visited(s, value),
             \/ ~FitsAlone(s[path], value[path])
             \/ IsObject(s[path], value[path]) /\ ~ObjectClosed(s, value, path)
      PROVE  ~DraftAccepts(s, value)
  <2>1. path \in DOMAIN s \cap DOMAIN value
    BY DEF Visited
  <2> QED
    BY <1>1, <1>2, <2>1, ClosedAgree DEF DraftAccepts, IsObject
<1>3. ASSUME ~Violated(s, value) PROVE DraftAccepts(s, value)
  <2>1. ASSUME NEW path \in DOMAIN s \cap DOMAIN value PROVE path \in Visited(s, value)
    <3> SUFFICES ASSUME path \notin Visited(s, value) PROVE FALSE
      OBVIOUS
    <3>1. PICK outer \in Visited(s, value) : value[outer] = "object" /\ s[outer].type # "object"
      BY StoppedForAReason
    <3>2. outer \in DOMAIN s \cap DOMAIN value
      BY DEF Visited
    <3> QED
      BY <1>1, <1>3, <3>1, <3>2 DEF Violated
  <2>2. ASSUME NEW path \in DOMAIN s \cap DOMAIN value
        PROVE  /\ FitsAlone(s[path], value[path])
               /\ value[path] = "object" => ObjectClosed(s, value, path)
    BY <1>1, <1>3, <2>1, <2>2 DEF Violated, IsObject
  <2> QED
    BY <1>1, <2>2, ClosedAgree DEF DraftAccepts
<1> QED
  BY <1>2, <1>3 DEF Violated

(* The verdict is the validator's on the schema and the arguments of a call. *)
ValidatorInv ==
  schema # None =>
    schema \in ToolInputs /\ args \in Arguments /\ validity = ValidateBuiltin(schema, args)

(* Whichever validator is installed, a tool whose schema names its types     *)
(* everywhere and has no keyword the built-in one ignores admits the same    *)
(* calls, for any schemas and arguments.                                     *)
THEOREM ValidatorsAgreeHolds == ValidatorSpec => []ValidatorsAgree
<1>1. ValidatorInit => ValidatorInv
  BY DEF ValidatorInit, ValidatorInv
<1>2. ValidatorInv /\ [ValidatorNext]_validatorVars => ValidatorInv'
  BY DEF ValidatorInv, ValidatorNext, Validate, validatorVars
<1>3. ValidatorInv => ValidatorsAgree
  <2> SUFFICES ASSUME ValidatorInv, schema # None, Typed(schema), Covered(schema),
                      Plain(schema, args)
               PROVE  validity = JsonSchemaVerdict
    BY DEF ValidatorsAgree
  <2>1. schema \in ToolInputs /\ args \in Arguments /\ validity = ValidateBuiltin(schema, args)
    BY DEF ValidatorInv
  <2>2. Violated(schema, args) <=> ~DraftAccepts(schema, args)
    BY <2>1, VerdictsAgree, SchemasAssumption
  <2>3. ~Raises(schema, args)
    BY SchemasAssumption DEF Raises, Typed, Visited
  <2> QED
    BY <2>1, <2>2, <2>3 DEF ValidateBuiltin, JsonSchemaVerdict
<1> QED
  BY <1>1, <1>2, <1>3, PTL DEF ValidatorSpec

-----------------------------------------------------------------------------
(* What is left of a turn of the inner strategy's loop, of the turns and of  *)
(* Reflexion's attempts: the stages that are still to come, in the order in  *)
(* which the strategies pass them.                                           *)
LongestTurn == 4 + Simulations + Breadth + CallsBound

LeftOfTurn ==
  CASE point = "ask" -> LongestTurn
    [] point = "score" -> 3 + Simulations + pending
    [] point = "simulate" -> 3 + Simulations - simulated
    [] point = "call" -> IF inner = "react" THEN 2 + pending ELSE 2
    [] point = "plan" -> 3
    [] point = "backtranslate" -> 2
    [] point = "attempted" -> 1
    [] OTHER -> 0

TurnsBounded ==
  /\ attempt \in 0 .. MaxReflections
  /\ step \in 0 .. MaxSteps
  /\ LeftOfTurn \in 0 .. LongestTurn

(* A later attempt, or a later turn of this one, or a later stage of this.   *)
Further ==
  \/ attempt' > attempt
  \/ attempt' = attempt /\ step' > step
  \/ attempt' = attempt /\ step' = step /\ LeftOfTurn' < LeftOfTurn

StrategyAdvances == [][StrategyStep => Further]_strategyVars

(* The inner strategy's own stages, and what is pending in them.             *)
StageInv ==
  /\ point \in {"score", "simulate"} => inner = "lats"
  /\ point \in {"plan", "backtranslate"} => inner = "llm+p"
  /\ point = "call" => inner \in {"react", "lats"}
  /\ point \in {"score", "simulate", "call"} => step < MaxSteps
  /\ point = "score" => pending \in 1 .. Breadth
  /\ point = "call" /\ inner = "react" => pending \in 1 .. CallsBound

TurnInv ==
  /\ StrategyTypeOK
  /\ attempt <= MaxReflections /\ step <= MaxSteps /\ simulated <= Simulations
  /\ StageInv

LEMMA StrategyBounds ==
  /\ MaxReflections \in Nat /\ Breadth \in Nat /\ Breadth > 0 /\ Simulations \in Nat
  /\ MaxSteps \in Nat /\ CallsBound \in Nat /\ LongestTurn \in Nat
  /\ MaxQueries \in Nat /\ MaxToolCalls \in Nat
  <1>1. /\ MaxReflections \in Nat /\ Breadth \in Nat /\ Breadth > 0 /\ Simulations \in Nat
        /\ MaxSteps \in Nat /\ CallsBound \in Nat
        /\ MaxQueries \in Nat /\ MaxToolCalls \in Nat
    BY StrategyAssumption
  <1> QED
    BY <1>1 DEF LongestTurn

LEMMA LeftIs ==
  /\ point = "ask" => LeftOfTurn = LongestTurn
  /\ point = "score" => LeftOfTurn = 3 + Simulations + pending
  /\ point = "simulate" => LeftOfTurn = 3 + Simulations - simulated
  /\ point = "call" /\ inner = "react" => LeftOfTurn = 2 + pending
  /\ point = "call" /\ inner = "lats" => LeftOfTurn = 2
  /\ point = "plan" => LeftOfTurn = 3
  /\ point = "backtranslate" => LeftOfTurn = 2
  /\ point = "attempted" => LeftOfTurn = 1
  /\ point \in {"done", "raised"} => LeftOfTurn = 0
  BY DEF LeftOfTurn

LEMMA LeftIsNext ==
  /\ point' = "ask" => LeftOfTurn' = LongestTurn
  /\ point' = "score" => LeftOfTurn' = 3 + Simulations + pending'
  /\ point' = "simulate" => LeftOfTurn' = 3 + Simulations - simulated'
  /\ point' = "call" /\ inner' = "react" => LeftOfTurn' = 2 + pending'
  /\ point' = "call" /\ inner' = "lats" => LeftOfTurn' = 2
  /\ point' = "plan" => LeftOfTurn' = 3
  /\ point' = "backtranslate" => LeftOfTurn' = 2
  /\ point' = "attempted" => LeftOfTurn' = 1
  /\ point' \in {"done", "raised"} => LeftOfTurn' = 0
  BY DEF LeftOfTurn, LongestTurn

LEMMA ChargeTyped ==
  ASSUME StrategyTypeOK,
         \/ Charge(1, 0) \/ Charge(0, 1) \/ QueryModel \/ CallTool \/ UNCHANGED charges
  PROVE  queries' \in Nat /\ toolCalls' \in Nat /\ after' \in Nat
  <1>1. queries \in Nat /\ toolCalls \in Nat /\ after \in Nat
    BY DEF StrategyTypeOK
  <1>2. ASSUME NEW q \in {0, 1}, NEW t \in {0, 1}, Charge(q, t)
        PROVE  queries' \in Nat /\ toolCalls' \in Nat /\ after' \in Nat
    BY <1>1, <1>2 DEF Charge
  <1>3. CASE UNCHANGED charges
    BY <1>1, <1>3 DEF charges
  <1> QED
    BY <1>2, <1>3 DEF QueryModel, CallTool

LEMMA TypesAre ==
  ASSUME StrategyTypeOK
  PROVE  /\ attempt \in Nat /\ step \in Nat /\ pending \in Nat /\ simulated \in Nat
         /\ reported \in Nat /\ queries \in Nat /\ toolCalls \in Nat /\ after \in Nat
         /\ chosen \in Nat /\ session \in Nat
  BY DEF StrategyTypeOK

LEMMA TypesBack ==
  ASSUME /\ attempt' \in Nat /\ step' \in Nat /\ pending' \in Nat /\ simulated' \in Nat
         /\ reported' \in Nat /\ queries' \in Nat /\ toolCalls' \in Nat /\ after' \in Nat
         /\ chosen' \in Nat /\ session' \in Nat
         /\ inner' \in Inners /\ reflexion' \in BOOLEAN
         /\ point' \in {"ask", "call", "score", "simulate", "plan", "backtranslate",
                        "attempted", "done", "raised"}
         /\ answer' \in Texts \cup {"prompt"} /\ last' \in Texts \cup {"prompt"}
  PROVE  StrategyTypeOK'
  BY DEF StrategyTypeOK

LEMMA TurnStep ==
  ASSUME TurnInv, ScoreInv, StrategyStep
  PROVE  TurnInv' /\ Further
  <1>b. /\ MaxReflections \in Nat /\ Breadth \in Nat /\ Breadth > 0 /\ Simulations \in Nat
        /\ MaxSteps \in Nat /\ CallsBound \in Nat /\ LongestTurn \in Nat
        /\ LongestTurn = 4 + Simulations + Breadth + CallsBound
    BY StrategyBounds DEF LongestTurn
  <1>t. /\ attempt \in Nat /\ step \in Nat /\ pending \in Nat /\ simulated \in Nat
        /\ reported \in Nat /\ chosen \in Nat /\ session \in Nat
        /\ inner \in Inners /\ reflexion \in BOOLEAN
        /\ answer \in Texts \cup {"prompt"} /\ last \in Texts \cup {"prompt"}
        /\ attempt <= MaxReflections /\ step <= MaxSteps /\ simulated <= Simulations
    BY TypesAre DEF TurnInv, StrategyTypeOK
  <1>i. Texts \subseteq Texts \cup {"prompt"} /\ "text" \in Texts /\ "empty" \in Texts
    BY DEF Texts
  <1>1. CASE ReActAsk
    <2>1. queries' \in Nat /\ toolCalls' \in Nat /\ after' \in Nat
      BY <1>1, ChargeTyped DEF ReActAsk, TurnInv
    <2>2. /\ inner = "react" /\ point = "ask" /\ step < MaxSteps /\ reported' = reported + 1
          /\ UNCHANGED <<inner, reflexion, session, attempt, step, simulated, last, chosen>>
          /\ \/ point' = "attempted" /\ answer' \in Texts /\ UNCHANGED pending
             \/ point' = "call" /\ UNCHANGED answer /\ pending' \in 1 .. CallsBound
      BY <1>1 DEF ReActAsk, Answers, fixed, seen
    <2>3. StrategyTypeOK'
      BY <1>b, <1>t, <1>i, <2>1, <2>2, TypesBack
    <2>4. StageInv'
      BY <2>2 DEF StageInv
    <2>5. LeftOfTurn = LongestTurn /\ LeftOfTurn' < LongestTurn
      BY <1>b, <2>2, LeftIs, LeftIsNext
    <2> QED
      BY <1>t, <2>2, <2>3, <2>4, <2>5 DEF TurnInv, Further
  <1>2. CASE ReActCall
    <2>1. queries' \in Nat /\ toolCalls' \in Nat /\ after' \in Nat
      BY <1>2, ChargeTyped DEF ReActCall, TurnInv
    <2>2. /\ inner = "react" /\ point = "call" /\ pending' = pending - 1 /\ last' \in Texts
          /\ UNCHANGED <<inner, reflexion, session, attempt, simulated, answer, reported, chosen>>
          /\ \/ pending' = 0 /\ step' = step + 1 /\ point' = "ask"
             \/ pending' # 0 /\ UNCHANGED <<step, point>>
      BY <1>2 DEF ReActCall, fixed, seen
    <2>3. pending \in 1 .. CallsBound /\ step < MaxSteps
      BY <2>2 DEF TurnInv, StageInv
    <2>4. StrategyTypeOK'
      BY <1>b, <1>t, <1>i, <2>1, <2>2, <2>3, TypesBack
    <2>5. StageInv'
      BY <1>b, <2>2, <2>3 DEF StageInv
    <2>6. LeftOfTurn = 2 + pending /\ (point' = "call" => LeftOfTurn' = 2 + pending')
      BY <2>2, LeftIs, LeftIsNext
    <2>7. Further
      BY <1>t, <2>2, <2>3, <2>6 DEF Further
    <2> QED
      BY <1>b, <1>t, <2>2, <2>3, <2>4, <2>5, <2>7 DEF TurnInv
  <1>3. CASE StepsEnd
    <2>1. queries' \in Nat /\ toolCalls' \in Nat /\ after' \in Nat
      BY <1>3, ChargeTyped DEF StepsEnd, TurnInv
    <2>2. /\ point = "ask" /\ point' = "attempted" /\ answer' = last
          /\ UNCHANGED <<inner, reflexion, session, attempt, step, pending, simulated, last,
                         reported, chosen>>
      BY <1>3 DEF StepsEnd, Answers, fixed, loopVars, seen
    <2>3. StrategyTypeOK'
      BY <1>t, <2>1, <2>2, TypesBack
    <2>4. StageInv'
      BY <2>2 DEF StageInv
    <2>5. LeftOfTurn' < LeftOfTurn
      BY <1>b, <2>2, LeftIs, LeftIsNext
    <2> QED
      BY <1>t, <2>2, <2>3, <2>4, <2>5 DEF TurnInv, Further
  <1>4. CASE LatsExpand
    <2>1. queries' \in Nat /\ toolCalls' \in Nat /\ after' \in Nat
      BY <1>4, ChargeTyped DEF LatsExpand, TurnInv
    <2>2. /\ inner = "lats" /\ point = "ask" /\ step < MaxSteps /\ reported' = reported + 1
          /\ chosen' = 0 /\ simulated' = 0
          /\ UNCHANGED <<inner, reflexion, session, attempt, step, last>>
          /\ \/ point' = "attempted" /\ answer' \in Texts /\ UNCHANGED pending
             \/ /\ point' = "score" /\ UNCHANGED answer
                /\ \E n \in 1 .. CallsBound : pending' = Candidates(n)
      BY <1>4 DEF LatsExpand, Answers, fixed
    <2>3. point' = "score" => pending' \in 1 .. Breadth
      BY <1>b, <2>2 DEF Candidates
    <2>4. StrategyTypeOK'
      BY <1>b, <1>t, <1>i, <2>1, <2>2, <2>3, TypesBack
    <2>5. StageInv'
      BY <2>2, <2>3 DEF StageInv
    <2>6. LeftOfTurn' < LeftOfTurn
      BY <1>b, <2>2, <2>3, LeftIs, LeftIsNext
    <2> QED
      BY <1>b, <1>t, <2>2, <2>4, <2>5, <2>6 DEF TurnInv, Further
  <1>5. CASE LatsScore
    <2>1. queries' \in Nat /\ toolCalls' \in Nat /\ after' \in Nat
      BY <1>5, ChargeTyped DEF LatsScore, TurnInv
    <2>2. /\ inner = "lats" /\ point = "score" /\ reported' = reported + 1
          /\ pending' = pending - 1
          /\ point' = (IF pending' = 0 THEN "simulate" ELSE "score")
          /\ UNCHANGED <<inner, reflexion, session, attempt, step, simulated, last, answer, chosen>>
      BY <1>5 DEF LatsScore, fixed
    <2>3. pending \in 1 .. Breadth /\ step < MaxSteps
      BY <2>2 DEF TurnInv, StageInv
    <2>4. StrategyTypeOK'
      BY <1>b, <1>t, <2>1, <2>2, <2>3, TypesBack
    <2>5. StageInv'
      BY <1>b, <2>2, <2>3 DEF StageInv
    <2>6. /\ LeftOfTurn = 3 + Simulations + pending
          /\ \/ LeftOfTurn' = 3 + Simulations + pending'
             \/ LeftOfTurn' = 3 + Simulations - simulated'
      BY <2>2, LeftIs, LeftIsNext
    <2>7. LeftOfTurn' < LeftOfTurn
      BY <1>b, <1>t, <2>2, <2>3, <2>6
    <2> QED
      BY <1>t, <2>2, <2>4, <2>5, <2>7 DEF TurnInv, Further
  <1>6. CASE LatsSimulate
    <2>1. queries' \in Nat /\ toolCalls' \in Nat /\ after' \in Nat
      BY <1>6, ChargeTyped DEF LatsSimulate, TurnInv
    <2>2. /\ inner = "lats" /\ point = "simulate" /\ simulated < Simulations
          /\ simulated' = simulated + 1
          /\ UNCHANGED <<inner, reflexion, session, attempt, point, step, pending, last, answer,
                         reported, chosen>>
      BY <1>6 DEF LatsSimulate, fixed, seen
    <2>3. StrategyTypeOK'
      BY <1>t, <2>1, <2>2, TypesBack
    <2>4. StageInv'
      BY <2>2 DEF TurnInv, StageInv
    <2>5. LeftOfTurn = 3 + Simulations - simulated /\ LeftOfTurn' = 3 + Simulations - simulated'
      BY <2>2, LeftIs, LeftIsNext
    <2>6. LeftOfTurn' < LeftOfTurn
      BY <1>b, <1>t, <2>2, <2>5
    <2> QED
      BY <1>b, <1>t, <2>2, <2>3, <2>4, <2>6 DEF TurnInv, Further
  <1>7. CASE LatsChoose
    <2>1. queries' \in Nat /\ toolCalls' \in Nat /\ after' \in Nat /\ chosen' \in Nat
      BY <1>7, ChargeTyped, ChoiceIsBest DEF LatsChoose, TurnInv
    <2>2. /\ inner = "lats" /\ point = "simulate" /\ point' = "call"
          /\ UNCHANGED <<inner, reflexion, session, attempt, step, pending, simulated, last,
                         answer, reported>>
      BY <1>7 DEF LatsChoose, fixed, loopVars
    <2>3. StrategyTypeOK'
      BY <1>t, <2>1, <2>2, TypesBack
    <2>4. StageInv'
      BY <2>2 DEF TurnInv, StageInv
    <2>5. LeftOfTurn' < LeftOfTurn
      BY <1>b, <1>t, <2>2, LeftIs, LeftIsNext
    <2> QED
      BY <1>t, <2>2, <2>3, <2>4, <2>5 DEF TurnInv, Further
  <1>8. CASE LatsCall
    <2>1. queries' \in Nat /\ toolCalls' \in Nat /\ after' \in Nat
      BY <1>8, ChargeTyped DEF LatsCall, TurnInv
    <2>2. /\ inner = "lats" /\ point = "call" /\ last' \in Texts
          /\ step' = step + 1 /\ point' = "ask"
          /\ UNCHANGED <<inner, reflexion, session, attempt, pending, simulated, answer,
                         reported, chosen>>
      BY <1>8 DEF LatsCall, fixed, seen
    <2>3. step < MaxSteps
      BY <2>2 DEF TurnInv, StageInv
    <2>4. StrategyTypeOK'
      BY <1>t, <1>i, <2>1, <2>2, TypesBack
    <2>5. StageInv'
      BY <2>2 DEF StageInv
    <2> QED
      BY <1>b, <1>t, <2>2, <2>3, <2>4, <2>5 DEF TurnInv, Further
  <1>9. CASE Translate \/ Plan \/ Backtranslate
    <2>1. queries' \in Nat /\ toolCalls' \in Nat /\ after' \in Nat
      BY <1>9, ChargeTyped DEF Translate, Plan, Backtranslate, TurnInv
    <2>2. /\ inner = "llm+p" /\ point \in {"ask", "plan", "backtranslate"}
          /\ reported' \in {reported, reported + 1}
          /\ UNCHANGED <<inner, reflexion, session, attempt, step, pending, simulated, last,
                         chosen>>
          /\ \/ point' = "attempted" /\ answer' \in Texts
             \/ point = "ask" /\ point' = "plan" /\ UNCHANGED answer
             \/ point = "plan" /\ point' = "backtranslate" /\ UNCHANGED answer
      BY <1>9, <1>i DEF Translate, Plan, Backtranslate, Answers, fixed, loopVars, seen
    <2>3. StrategyTypeOK'
      BY <1>t, <1>i, <2>1, <2>2, TypesBack
    <2>4. StageInv'
      BY <2>2 DEF StageInv
    <2>5. LeftOfTurn' < LeftOfTurn
      BY <1>b, <2>2, LeftIs, LeftIsNext
    <2> QED
      BY <1>t, <2>2, <2>3, <2>4, <2>5 DEF TurnInv, Further
  <1>10. CASE RunOut
    <2>1. queries' \in Nat /\ toolCalls' \in Nat /\ after' \in Nat
      BY <1>10, ChargeTyped DEF RunOut, TurnInv
    <2>2. /\ point \in {"ask", "score", "plan", "backtranslate", "call"}
          /\ UNCHANGED <<inner, reflexion, session, attempt, step, pending, simulated, last,
                         reported, chosen>>
          /\ \/ point' = "raised" /\ UNCHANGED answer
             \/ point' = "attempted" /\ answer' \in {last, "text"}
      BY <1>10 DEF RunOut, Answers, fixed, loopVars, seen
    <2>3. StrategyTypeOK'
      BY <1>t, <1>i, <2>1, <2>2, TypesBack
    <2>4. StageInv'
      BY <2>2 DEF StageInv
    <2>5. LeftOfTurn >= 2 /\ LeftOfTurn \in Nat
      <3>1. CASE point = "call"
        <4>1. inner \in {"react", "lats"}
          BY <3>1 DEF TurnInv, StageInv
        <4> QED
          BY <1>t, <3>1, <4>1, LeftIs
      <3>2. CASE point # "call"
        BY <1>b, <1>t, <2>2, <3>2, LeftIs
      <3> QED
        BY <3>1, <3>2
    <2>6. LeftOfTurn' \in {0, 1}
      BY <2>2, LeftIsNext
    <2> QED
      BY <1>t, <2>2, <2>3, <2>4, <2>5, <2>6 DEF TurnInv, Further
  <1>11. CASE Conclude
    <2>1. queries' \in Nat /\ toolCalls' \in Nat /\ after' \in Nat
      BY <1>11, ChargeTyped DEF Conclude, TurnInv
    <2>2. /\ point = "attempted" /\ point' = "done" /\ answer' \in {answer, "text"}
          /\ UNCHANGED <<inner, reflexion, session, attempt, step, pending, simulated, last,
                         reported, chosen>>
      BY <1>11 DEF Conclude, fixed, loopVars, seen
    <2>3. StrategyTypeOK'
      BY <1>t, <1>i, <2>1, <2>2, TypesBack
    <2>4. StageInv'
      BY <2>2 DEF StageInv
    <2>5. LeftOfTurn' < LeftOfTurn
      BY <2>2, LeftIs, LeftIsNext
    <2> QED
      BY <1>t, <2>2, <2>3, <2>4, <2>5 DEF TurnInv, Further
  <1>12. CASE Reflect
    <2>1. queries' \in Nat /\ toolCalls' \in Nat /\ after' \in Nat
      BY <1>12, ChargeTyped DEF Reflect, TurnInv
    <2>2. /\ attempt < MaxReflections /\ attempt' = attempt + 1
          /\ point' = "ask" /\ step' = 0 /\ pending' = 0 /\ simulated' = 0
          /\ last' = "prompt" /\ answer' = "empty" /\ chosen' = 0
          /\ UNCHANGED <<inner, reflexion, session, reported>>
      BY <1>12 DEF Reflect, ToReflect, StartAttempt, fixed
    <2>3. StrategyTypeOK'
      BY <1>t, <1>i, <2>1, <2>2, TypesBack
    <2>4. StageInv'
      BY <2>2 DEF StageInv
    <2> QED
      BY <1>b, <1>t, <2>2, <2>3, <2>4 DEF TurnInv, Further
  <1>13. CASE ReflectRunsOut
    <2>1. queries' \in Nat /\ toolCalls' \in Nat /\ after' \in Nat
      BY <1>13, ChargeTyped DEF ReflectRunsOut, TurnInv
    <2>2. /\ point = "attempted" /\ point' = "raised"
          /\ UNCHANGED <<inner, reflexion, session, attempt, step, pending, simulated, last,
                         answer, reported, chosen>>
      BY <1>13 DEF ReflectRunsOut, ToReflect, GiveUp, fixed, loopVars, seen
    <2>3. StrategyTypeOK'
      BY <1>t, <2>1, <2>2, TypesBack
    <2>4. StageInv'
      BY <2>2 DEF StageInv
    <2>5. LeftOfTurn' < LeftOfTurn
      BY <2>2, LeftIs, LeftIsNext
    <2> QED
      BY <1>t, <2>2, <2>3, <2>4, <2>5 DEF TurnInv, Further
  <1> QED
    BY <1>1, <1>2, <1>3, <1>4, <1>5, <1>6, <1>7, <1>8, <1>9, <1>10, <1>11, <1>12, <1>13
    DEF StrategyStep

LEMMA TurnStart == StrategyInit => TurnInv
  <1> SUFFICES ASSUME StrategyInit PROVE TurnInv
    OBVIOUS
  <1>1. StrategyTypeOK
    BY DEF StrategyInit, StrategyTypeOK, Texts
  <1> QED
    BY <1>1, StrategyBounds DEF StrategyInit, TurnInv, StageInv

LEMMA TurnNext == TurnInv /\ ScoreInv /\ [StrategyNext]_strategyVars => TurnInv'
  <1> SUFFICES ASSUME TurnInv, ScoreInv, [StrategyNext]_strategyVars PROVE TurnInv'
    OBVIOUS
  <1>1. CASE NextSession
    <2>1. session \in Nat /\ inner \in Inners /\ reflexion \in BOOLEAN
      BY TypesAre DEF TurnInv, StrategyTypeOK
    <2>2. /\ point' = "ask" /\ step' = 0 /\ pending' = 0 /\ simulated' = 0 /\ attempt' = 0
          /\ last' = "prompt" /\ answer' = "empty" /\ chosen' = 0 /\ session' = session + 1
          /\ reported' = 0 /\ queries' = 0 /\ toolCalls' = 0 /\ after' = 0
          /\ UNCHANGED <<inner, reflexion>>
      BY <1>1 DEF NextSession, StartAttempt
    <2>3. StrategyTypeOK'
      BY <2>1, <2>2, TypesBack DEF Texts
    <2> QED
      BY <2>2, <2>3, StrategyBounds DEF TurnInv, StageInv
  <1>2. CASE UNCHANGED strategyVars
    BY <1>2 DEF strategyVars, fixed, loopVars, charges, seen, TurnInv, StageInv, StrategyTypeOK
  <1> QED
    BY <1>1, <1>2, TurnStep DEF StrategyNext

LEMMA TurnInductive == StrategySpec => [](TurnInv /\ ScoreInv)
  BY TurnStart, TurnNext, ScoresInductive, PTL DEF StrategySpec

(* Every reachable state of a strategy is well typed.                        *)
THEOREM StrategyTypeCorrect == StrategySpec => []StrategyTypeOK
  <1>1. TurnInv => StrategyTypeOK
    BY DEF TurnInv
  <1> QED
    BY <1>1, TurnInductive, PTL

(* Whatever the model answers, a strategy cannot go on for ever, even on an  *)
(* unlimited budget: each of its steps is a later stage of the turn, turn of *)
(* the attempt or attempt of the session, and there are at most LongestTurn  *)
(* stages, MaxSteps turns and MaxReflections more attempts.  (ReAct.run,     *)
(* LATS.run, LLMPlusP.run, Reflexion.run.)                                   *)
THEOREM StrategiesEnd == StrategySpec => []TurnsBounded /\ StrategyAdvances
  <1>1. TurnInv => TurnsBounded
    <2> SUFFICES ASSUME TurnInv PROVE TurnsBounded
      OBVIOUS
    <2>1. /\ attempt \in Nat /\ step \in Nat /\ pending \in Nat /\ simulated \in Nat
          /\ attempt <= MaxReflections /\ step <= MaxSteps /\ simulated <= Simulations
          /\ point \in {"ask", "call", "score", "simulate", "plan", "backtranslate",
                        "attempted", "done", "raised"}
      BY TypesAre DEF TurnInv, StrategyTypeOK
    <2>2. /\ point = "call" => inner \in {"react", "lats"}
          /\ point = "score" => pending \in 1 .. Breadth
          /\ point = "call" /\ inner = "react" => pending \in 1 .. CallsBound
      BY DEF TurnInv, StageInv
    <2>3. LongestTurn = 4 + Simulations + Breadth + CallsBound
      BY DEF LongestTurn
    <2>4. LeftOfTurn \in 0 .. LongestTurn
      BY <2>1, <2>2, <2>3, StrategyBounds, LeftIs
    <2> QED
      BY <2>1, <2>4, StrategyBounds DEF TurnsBounded
  <1>2. TurnInv /\ ScoreInv /\ StrategyStep => Further
    BY TurnStep
  <1> QED
    BY <1>1, <1>2, TurnInductive, PTL DEF StrategySpec, StrategyAdvances

=============================================================================
