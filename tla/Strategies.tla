----------------------------- MODULE Strategies -----------------------------
(***************************************************************************)
(* reasoning/: ReAct, LATS and LLM+P, alone or under Reflexion, on an      *)
(* environment that charges every query and tool call and raises           *)
(* BudgetExceeded on the one that passes a limit (RuntimeEnvironment's     *)
(* track_llm and track_tool_call).  Sessions of one agent run one after    *)
(* another on the same strategy object.                                    *)
(*                                                                         *)
(* A query costs one unit of usage.  A text is abstracted to whether it is *)
(* empty and, of an answer, to where it comes from.                        *)
(***************************************************************************)
EXTENDS Naturals, Sequences, FiniteSets, FiniteSetsExt

CONSTANTS
  MaxReflections, \* Reflexion.max_reflections
  Breadth,        \* LATS.breadth
  Simulations,    \* LATS.n_simulations
  MaxSteps,       \* Budget.max_steps, or the default of the strategy
  MaxQueries,     \* limit of the budget's tokens
  MaxToolCalls,   \* Budget.max_tool_calls
  CallsBound,     \* bound: tool calls of one response
  Scores,         \* scores the model gives
  SessionBound    \* bound: sessions

ASSUME StrategyAssumption ==
  /\ {MaxReflections, Breadth, Simulations, MaxSteps, MaxQueries, MaxToolCalls, CallsBound,
      SessionBound} \subseteq Nat
  /\ Breadth > 0  \* of no candidates max() has none to choose
  /\ Scores \subseteq Nat

Inners == {"react", "lats", "llm+p"}

VARIABLES
  inner,      \* the strategy, or Reflexion's inner_strategy
  reflexion,  \* whether it is wrapped in a Reflexion
  lessons,    \* Reflexion.reflections: the session each was learnt in
  session,    \* number of the session
  point,      \* where the strategy stands
  attempt,    \* Reflexion's attempt, from 0
  step,       \* turns of the inner loop
  pending,    \* tool calls of the response still to make, candidates to score
  children,   \* LATS: the root's children, in the order of the candidates
  simulated,  \* LATS: simulations of this decision
  last,       \* messages[-1].content
  answer,     \* the inner result's answer
  reported,   \* usage of the result so far
  queries,    \* observed: queries charged to the session
  toolCalls,  \* observed: tool calls charged to the session
  after,      \* observed: charges after the budget had run out
  scored,     \* observed: the scores the model gave the candidates
  chosen      \* observed: the candidate LATS chose, 0 before

loopVars == <<step, pending, children, simulated, last>>
charges == <<queries, toolCalls, after>>
seen == <<scored, chosen>>
fixed == <<inner, reflexion, session>>
strategyVars == <<fixed, lessons, point, attempt, loopVars, answer, reported, charges, seen>>

Texts == {"text", "empty"}

-----------------------------------------------------------------------------
(* The environment charges a call and raises when a limit is passed.         *)
Over(q, t) == q > MaxQueries \/ t > MaxToolCalls
Exhausted == Over(queries, toolCalls)

Charge(q, t) ==
  /\ queries' = queries + q
  /\ toolCalls' = toolCalls + t
  /\ after' = IF Exhausted THEN after + 1 ELSE after

(* env.query_model returns a response, and env.call a result: of a call that *)
(* was refused, without a charge.                                            *)
QueryModel == Charge(1, 0) /\ ~Exhausted'
CallTool == (Charge(0, 1) /\ ~Exhausted') \/ UNCHANGED charges

(* The inner strategy returns.                                               *)
Answers(text) == answer' = text /\ point' = "attempted"

(* BudgetExceeded out of the inner strategy's query or tool call: LATS       *)
(* answers with the last message, LLM+P with a text of its own.              *)
RunOut ==
  /\ point \in {"ask", "score", "plan", "backtranslate", "call"}
  /\ \/ point \in {"ask", "score", "backtranslate"} /\ Charge(1, 0)
     \/ point \in {"plan", "call"} /\ Charge(0, 1)
  /\ point = "ask" /\ inner # "llm+p" => step < MaxSteps
  /\ Exhausted'
  /\ \/ inner = "react" /\ point' = "raised" /\ UNCHANGED answer
     \/ inner = "lats" /\ Answers(last)
     \/ inner = "llm+p" /\ Answers("text")
  /\ UNCHANGED <<fixed, lessons, attempt, loopVars, reported, seen>>

-----------------------------------------------------------------------------
(* One turn of ReAct's loop: the query.                                      *)
ReActAsk ==
  /\ inner = "react" /\ point = "ask" /\ step < MaxSteps
  /\ QueryModel
  /\ reported' = reported + 1
  /\ \/ (\E text \in Texts : Answers(text)) /\ UNCHANGED pending
     \/ pending' \in 1 .. CallsBound /\ point' = "call" /\ UNCHANGED answer
  /\ UNCHANGED <<fixed, lessons, attempt, step, children, simulated, last, seen>>

(* One of the turn's tool calls; _append_tool_step.                          *)
ReActCall ==
  /\ inner = "react" /\ point = "call"
  /\ CallTool
  /\ last' \in Texts
  /\ pending' = pending - 1
  /\ IF pending' = 0 THEN step' = step + 1 /\ point' = "ask" ELSE UNCHANGED <<step, point>>
  /\ UNCHANGED <<fixed, lessons, attempt, children, simulated, answer, reported, seen>>

(* The loop of ReAct or LATS ends with no answer: messages[-1].content.      *)
StepsEnd ==
  /\ inner # "llm+p" /\ point = "ask" /\ step = MaxSteps
  /\ Answers(last)
  /\ UNCHANGED <<fixed, lessons, attempt, loopVars, reported, charges, seen>>

-----------------------------------------------------------------------------
(* candidates[: self.breadth].                                               *)
Candidates(n) == IF n < Breadth THEN n ELSE Breadth

(* LATS expands: a query for candidates.                                     *)
LatsExpand ==
  /\ inner = "lats" /\ point = "ask" /\ step < MaxSteps
  /\ QueryModel
  /\ reported' = reported + 1
  /\ \/ (\E text \in Texts : Answers(text)) /\ UNCHANGED pending
     \/ /\ \E n \in 1 .. CallsBound : pending' = Candidates(n)
        /\ point' = "score"
        /\ UNCHANGED answer
  /\ children' = <<>> /\ simulated' = 0 /\ scored' = <<>> /\ chosen' = 0
  /\ UNCHANGED <<fixed, lessons, attempt, step, last>>

(* _expand_root, one candidate: a query for its score.                       *)
LatsScore ==
  /\ inner = "lats" /\ point = "score"
  /\ QueryModel
  /\ reported' = reported + 1
  /\ \E score \in Scores :
       /\ children' = Append(children, [visits |-> 1, total |-> score])
       /\ scored' = Append(scored, score)
  /\ pending' = pending - 1
  /\ point' = IF pending' = 0 THEN "simulate" ELSE "score"
  /\ UNCHANGED <<fixed, lessons, attempt, step, simulated, last, answer, chosen>>

Average(child) == child.total \div child.visits

(* Mutant: the visit is not counted.                                         *)
RewardedOnly(child) == [child EXCEPT !.total = @ + Average(child)]

(* _backpropagate adds the child's average to the child itself.              *)
Rewarded(child) ==
  [visits |-> child.visits + 1, total |-> child.total + Average(child)]

(* One simulation.  UCB1 may prefer any child.                               *)
LatsSimulate ==
  /\ inner = "lats" /\ point = "simulate" /\ simulated < Simulations
  /\ simulated' = simulated + 1
  /\ \E i \in DOMAIN children : children' = [children EXCEPT ![i] = Rewarded(@)]
  /\ UNCHANGED <<fixed, lessons, attempt, point, step, pending, last, answer, reported, charges,
                 seen>>

(* max(root.children, key=average_value), the first of equals.               *)
LatsChoose ==
  LET average(i) == Average(children[i])
      highest == Max({average(i) : i \in DOMAIN children})
  IN
  /\ inner = "lats" /\ point = "simulate" /\ simulated = Simulations
  /\ chosen' = Min({i \in DOMAIN children : average(i) = highest})
  /\ point' = "call"
  /\ UNCHANGED <<fixed, lessons, attempt, loopVars, answer, reported, charges, scored>>

(* The chosen candidate is executed.                                         *)
LatsCall ==
  /\ inner = "lats" /\ point = "call"
  /\ CallTool
  /\ last' \in Texts
  /\ step' = step + 1
  /\ point' = "ask"
  /\ UNCHANGED <<fixed, lessons, attempt, pending, children, simulated, answer, reported,
                 seen>>

-----------------------------------------------------------------------------
(* LLM+P translates; a translation that is no planner input ends it.         *)
Translate ==
  /\ inner = "llm+p" /\ point = "ask"
  /\ QueryModel
  /\ reported' = reported + 1
  /\ \/ Answers("text")
     \/ point' = "plan" /\ UNCHANGED answer
  /\ UNCHANGED <<fixed, lessons, attempt, loopVars, seen>>

(* The planner is a tool; its error ends it.                                 *)
Plan ==
  /\ inner = "llm+p" /\ point = "plan"
  /\ CallTool
  /\ \/ Answers("text")
     \/ point' = "backtranslate" /\ UNCHANGED answer
  /\ UNCHANGED <<fixed, lessons, attempt, loopVars, reported, seen>>

Backtranslate ==
  /\ inner = "llm+p" /\ point = "backtranslate"
  /\ QueryModel
  /\ reported' = reported + 1
  /\ \E text \in Texts : Answers(text)
  /\ UNCHANGED <<fixed, lessons, attempt, loopVars, seen>>

-----------------------------------------------------------------------------
(* _is_satisfactory.                                                         *)
Satisfactory == answer # "empty"

(* The session has its result: of the strategy alone; under Reflexion once   *)
(* an answer satisfies or the reflections are used up, with an apology for   *)
(* an empty answer.                                                          *)
Conclude ==
  /\ point = "attempted"
  /\ reflexion => Satisfactory \/ attempt = MaxReflections
  /\ answer' = IF reflexion /\ ~Satisfactory THEN "text" ELSE answer
  /\ point' = "done"
  /\ UNCHANGED <<fixed, lessons, attempt, loopVars, reported, charges, seen>>

(* An attempt starts: the conversation ends with the task's prompt.          *)
StartAttempt ==
  /\ point' = "ask" /\ step' = 0 /\ pending' = 0 /\ children' = <<>> /\ simulated' = 0
  /\ last' = "prompt" /\ answer' = "empty" /\ scored' = <<>> /\ chosen' = 0

ToReflect == point = "attempted" /\ reflexion /\ ~Satisfactory /\ attempt < MaxReflections

(* _reflect, whose usage is added to no result, and the next attempt.        *)
Reflect ==
  /\ ToReflect
  /\ QueryModel
  /\ lessons' = Append(lessons, session)
  /\ attempt' = attempt + 1
  /\ StartAttempt
  /\ UNCHANGED <<fixed, reported>>

(* Mutant: Reflexion keeps what it has and tries again.                      *)
TryAgain == StartAttempt /\ attempt' = attempt + 1

(* Nothing in Reflexion.run catches BudgetExceeded.                          *)
GiveUp == point' = "raised" /\ UNCHANGED <<attempt, loopVars, answer, seen>>

ReflectRunsOut ==
  /\ ToReflect
  /\ Charge(1, 0) /\ Exhausted'
  /\ GiveUp
  /\ UNCHANGED <<fixed, lessons, reported>>

(* The agent's next session, on the same strategy object.                    *)
NextSession ==
  /\ point \in {"done", "raised"} /\ session < SessionBound
  /\ session' = session + 1
  /\ attempt' = 0 /\ StartAttempt
  /\ reported' = 0 /\ queries' = 0 /\ toolCalls' = 0 /\ after' = 0
  /\ UNCHANGED <<inner, reflexion, lessons>>

StrategyInit ==
  /\ inner \in Inners /\ reflexion \in BOOLEAN /\ lessons = <<>> /\ session = 1
  /\ point = "ask" /\ attempt = 0 /\ step = 0 /\ pending = 0 /\ children = <<>>
  /\ simulated = 0 /\ last = "prompt" /\ answer = "empty" /\ scored = <<>> /\ chosen = 0
  /\ reported = 0 /\ queries = 0 /\ toolCalls = 0 /\ after = 0

StrategyStep ==
  \/ ReActAsk \/ ReActCall \/ LatsExpand \/ LatsScore \/ LatsSimulate \/ LatsChoose
  \/ LatsCall \/ Translate \/ Plan \/ Backtranslate \/ StepsEnd \/ RunOut
  \/ Conclude \/ Reflect \/ ReflectRunsOut

StrategyNext == StrategyStep \/ NextSession

StrategySpec == StrategyInit /\ [][StrategyNext]_strategyVars

-----------------------------------------------------------------------------
StrategyTypeOK ==
  /\ inner \in Inners /\ reflexion \in BOOLEAN
  /\ point \in {"ask", "call", "score", "simulate", "plan", "backtranslate", "attempted",
                "done", "raised"}
  /\ answer \in Texts \cup {"prompt"} /\ last \in Texts \cup {"prompt"}
  /\ \A n \in {attempt, step, pending, simulated, reported, queries, toolCalls, after, chosen, session} : n \in Nat

(* Once the budget has run out at most one more call is made, whichever      *)
(* strategy has caught the exception.                                        *)
StopsWhenOut == after <= 1

(* The candidate LATS executes is one the model scored highest, however the  *)
(* simulations went.  (_select_best_child, _backpropagate, max.)             *)
BestScored == chosen # 0 => \A i \in DOMAIN scored : scored[i] <= scored[chosen]
=============================================================================
