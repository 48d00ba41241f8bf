----------------------------- MODULE Delegation -----------------------------
(***************************************************************************)
(* tools/agent_tool.py: an agent wrapped as a tool of another agent.  A    *)
(* call of the wrapper derives a child agent, gives its session a slice of *)
(* a budget and turns what comes of it into a tool result.  Wrappers may   *)
(* be among the child's own tools, so the sessions form a stack.           *)
(*                                                                         *)
(* A session spends what a response is charged for and, for a delegation,  *)
(* one of its tool calls; what else its strategy does, Strategies models.  *)
(***************************************************************************)
EXTENDS Naturals, Sequences, SequencesExt, Optional

CONSTANTS
  Agents,     \* agent -> [context, strict, lenient, tools, filter]
  Wrappers,   \* wrapper -> [agent, context, budget, strict, delegated]
  RootBudget, \* limits of the root's session
  Usages,     \* tokens that a response may be charged for
  MaxUsage,   \* the largest of them
  DepthBound, \* bound: sessions on the stack
  WorkBound   \* bound: tokens, and delegations, of a session without a limit on them

ASSUME DelegationAssumption ==
  /\ None \notin Nat \cup {"answer", "BudgetExceeded", "AssertionError"}
  /\ MaxUsage \in Nat /\ Usages \subseteq 0 .. MaxUsage
  /\ \A budget \in {RootBudget} \cup ({Wrappers[w].budget : w \in DOMAIN Wrappers} \ {None}) :
       {budget.tokens, budget.toolCalls} \subseteq Nat \cup {None}

VARIABLES
  stack,      \* the sessions under way, the root's first
  raising,    \* exception that leaves the session on top, or None
  outcome,    \* how the root's session ended, or None
  spent,      \* observed: tokens spent by all sessions
  granted     \* observed: tokens that the sessions begun may spend, None without a limit

delegationVars == <<stack, raising, outcome, spent, granted>>

Anonymous == [subject |-> "anonymous", roles |-> {}]

Unlimited == [tokens |-> None, toolCalls |-> None]

Top == stack[Len(stack)]

-----------------------------------------------------------------------------
Known(context) == context # None /\ context.subject # "anonymous"

(* Agent.__post_init__: a strict agent has a known subject and a policy that *)
(* does not allow everything.                                                *)
Constructible(context, strict, lenient) ==
  strict => Known(context) /\ ~lenient

(* The roles of the child under a parent: no common role leaves the parent's *)
(* and a parent without roles the child's.                                   *)
Roles(parent, child) ==
  IF parent = {} THEN child
  ELSE IF parent \cap child = {} THEN parent ELSE parent \cap child

(* _derive_child_context.                                                    *)
DeriveContext(parent, child) ==
  IF parent = None THEN (IF child = None THEN Anonymous ELSE child)
  ELSE IF child = None THEN parent
  ELSE [subject |-> parent.subject, roles |-> Roles(parent.roles, child.roles)]

(* Mutant: a slice of nothing is no limit.                                   *)
SliceOrNone(limit) == IF limit \in {None, 0, 1} THEN None ELSE limit \div 2

(* _slice_int: half, but of a positive limit at least one.                   *)
Slice(limit) ==
  IF limit = None THEN None
  ELSE IF limit = 0 THEN 0
  ELSE IF limit \div 2 = 0 THEN 1 ELSE limit \div 2

(* _child_budget and _slice_budget: of the budget the wrapper was built      *)
(* with, whole again for every call.                                         *)
ChildBudget(wrapper) ==
  LET whole == Wrappers[wrapper].budget IN
  IF whole = None THEN Unlimited
  ELSE [tokens |-> Slice(whole.tokens), toolCalls |-> Slice(whole.toolCalls)]

(* environment.tools(): the tools the model is shown.                        *)
Offered(agent, filter) ==
  IF filter = None THEN Agents[agent].tools ELSE Agents[agent].tools \cap filter

Begin(agent, context, strict, budget, filter, wrapper) ==
  [agent |-> agent, context |-> context, strict |-> strict, budget |-> budget,
   shown |-> Offered(agent, filter), wrapper |-> wrapper, tokens |-> 0, toolCalls |-> 0,
   caught |-> FALSE]

-----------------------------------------------------------------------------
Above(n, limit) == limit # None /\ n > limit

(* BudgetGuard: the charge that passes a limit raises.                       *)
Exceeded(session) ==
  \/ Above(session.tokens, session.budget.tokens)
  \/ Above(session.toolCalls, session.budget.toolCalls)

Running == outcome = None /\ raising = None

(* A query of the session on top.                                            *)
Query ==
  /\ Running
  /\ Top.budget.tokens = None => Top.tokens < WorkBound
  /\ \E usage \in Usages :
       LET session == [Top EXCEPT !.tokens = @ + usage] IN
       /\ spent' = spent + usage
       /\ stack' = [stack EXCEPT ![Len(stack)] = session]
       /\ raising' = IF Exceeded(session) THEN "BudgetExceeded" ELSE None
  /\ UNCHANGED <<outcome, granted>>

(* A strategy that catches BudgetExceeded, LATS or LLM+P, returns what it    *)
(* has.  Reflexion around it may query once more, which raises again, and    *)
(* nobody catches that.                                                      *)
Recover ==
  /\ outcome = None /\ raising = "BudgetExceeded" /\ ~Top.caught
  /\ stack' = [stack EXCEPT ![Len(stack)].caught = TRUE]
  /\ raising' = None
  /\ UNCHANGED <<outcome, spent, granted>>

(* The stack once its top session's call has a result: the environment       *)
(* below counts a tool call, and may raise for it.                           *)
ToolReturns(below) ==
  LET n == Len(below)
      session == [below[n] EXCEPT !.toolCalls = @ + 1]
  IN  /\ stack' = [below EXCEPT ![n] = session]
      /\ raising' = IF Exceeded(session) THEN "BudgetExceeded" ELSE None

(* Sums with no limit have none.                                             *)
Plus(m, n) == IF None \in {m, n} THEN None ELSE m + n

(* What a session may spend past its limit: the response whose charge passes *)
(* it and the one that Reflexion asks for then.                              *)
Overshoot == 2 * MaxUsage

(* What one delegation may cost: half the limit of its wrapper or, since a   *)
(* slice is at least one, a token more, and the overshoot.                   *)
Grant(wrapper) ==
  LET whole == Wrappers[wrapper].budget IN
  IF whole = None \/ whole.tokens = None THEN None ELSE whole.tokens \div 2 + 1 + Overshoot

(* AgentAsTool.execute up to session.run(): what _build_child_agent or the   *)
(* child's constructor raises is the result of the call.                     *)
Delegate(wrapper) ==
  /\ Running /\ ~Top.caught /\ wrapper \in Top.shown /\ Len(stack) < DepthBound
  /\ Top.budget.toolCalls = None => Top.toolCalls < WorkBound
  /\ LET config == Wrappers[wrapper]
         agent == Agents[config.agent]
         context == DeriveContext(config.context, agent.context)
         strict == agent.strict \/ config.strict
         filter == IF config.delegated = None THEN agent.filter ELSE config.delegated
     IN  IF Constructible(context, strict, agent.lenient)
           THEN /\ stack' = Append(stack, Begin(config.agent, context, strict,
                                                ChildBudget(wrapper), filter, wrapper))
                /\ granted' = Plus(granted, Grant(wrapper))
                /\ UNCHANGED raising
           ELSE ToolReturns(stack) /\ UNCHANGED granted
  /\ UNCHANGED <<outcome, spent>>

(* session.run() returns a result.                                           *)
Answer ==
  /\ Running
  /\ IF Len(stack) = 1 THEN outcome' = "answer" /\ UNCHANGED <<stack, raising>>
     ELSE ToolReturns(Front(stack)) /\ UNCHANGED outcome
  /\ UNCHANGED <<spent, granted>>

(* A tool of the session asserts something false.                            *)
ToolAsserts ==
  /\ Running /\ ~Top.caught
  /\ raising' = "AssertionError"
  /\ UNCHANGED <<stack, outcome, spent, granted>>

(* Mutant: only the errors of construction become results.                   *)
CaughtInConstruction(exception) == FALSE

(* The except clauses of execute.                                            *)
Caught(exception) == exception # "AssertionError"

(* The exception leaves session.run().                                       *)
Unwind ==
  /\ raising # None /\ outcome = None
  /\ IF Len(stack) = 1 THEN outcome' = raising /\ UNCHANGED <<stack, raising>>
     ELSE IF Caught(raising) THEN ToolReturns(Front(stack)) /\ UNCHANGED outcome
     ELSE stack' = Front(stack) /\ UNCHANGED <<raising, outcome>>
  /\ UNCHANGED <<spent, granted>>

(* Agent.session of any constructible agent.                                 *)
DelegationInit ==
  /\ \E agent \in DOMAIN Agents :
       LET config == Agents[agent] IN
       /\ Constructible(config.context, config.strict, config.lenient)
       /\ stack = <<Begin(agent, config.context, config.strict, RootBudget, config.filter, None)>>
  /\ raising = None /\ outcome = None /\ spent = 0
  /\ granted = Plus(RootBudget.tokens, Overshoot)

DelegationNext ==
  \/ Query \/ Recover \/ Answer \/ ToolAsserts \/ Unwind
  \/ \E wrapper \in DOMAIN Wrappers : Delegate(wrapper)

DelegationSpec == DelegationInit /\ [][DelegationNext]_delegationVars

-----------------------------------------------------------------------------
(* What all the sessions spend is bounded by the root's limit and, for each  *)
(* delegation, half the limit its wrapper was built with, and for each of    *)
(* them the two responses of the overshoot; the root's delegations by its    *)
(* limit on tool calls.  A slice is a limit of the call and not a share of   *)
(* what is left.  (_child_budget and track_llm, as long as every wrapper     *)
(* called has a limit.)                                                      *)
SpendBounded ==
  /\ granted # None => spent <= granted
  /\ RootBudget.toolCalls # None => stack[1].toolCalls <= RootBudget.toolCalls + 1

(* The root's session ends with BudgetExceeded only over limits of its own;  *)
(* a child that runs out is a result like any other.  (execute, lines        *)
(* 71-74.)                                                                   *)
OwnBudgetOnly == outcome = "BudgetExceeded" => Exceeded(stack[1])

=============================================================================
