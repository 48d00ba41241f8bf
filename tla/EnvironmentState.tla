------------------------- MODULE EnvironmentState -------------------------
(***************************************************************************)
(* The state of one RuntimeEnvironment (core/environment.py) that its tool *)
(* gate (ToolGate) and its model gate (ModelGate) share: the callers, the  *)
(* event log and the cost accountant behind _state_lock.                   *)
(*                                                                         *)
(* A caller is a thread that uses the environment: the thread of           *)
(* Session.run, or one of several threads that a strategy, a tool or a     *)
(* test starts over the same environment.  pc[c] says where in a handler   *)
(* caller c stands.  Every step between two values of pc touches shared    *)
(* state once, so any interleaving of two callers is a behaviour here.     *)
(***************************************************************************)
EXTENDS Naturals, FiniteSets

CONSTANTS
  Callers,        \* threads that use the environment
  MaxToolCalls,   \* Budget.max_tool_calls, or Unlimited
  MaxTokens,      \* Budget.max_tokens, or Unlimited
  Unlimited,      \* a None field of Budget
  ToolCallBound,  \* bound: tool calls begun in a behaviour
  ModelCallBound  \* bound: model calls and streams begun in a behaviour

ASSUME EnvironmentAssumption ==
  /\ IsFiniteSet(Callers)
  /\ Unlimited \notin Nat
  /\ MaxToolCalls \in Nat \union {Unlimited}
  /\ MaxTokens \in Nat \union {Unlimited}
  /\ ToolCallBound \in Nat
  /\ ModelCallBound \in Nat

VARIABLES
  pc,          \* pc[c]: where caller c stands
  events,      \* events[k]: events of kind k in the EventEmitter's log
  toolCalls,   \* CostAccountant._tool_calls
  tokens,      \* CostAccountant._usage.total_tokens
  toolsBegun,  \* tool calls begun so far (history)
  modelsBegun  \* model calls and streams begun so far (history)

meters == <<toolCalls, tokens>>
begun == <<toolsBegun, modelsBegun>>
envVars == <<pc, events, meters, begun>>

-----------------------------------------------------------------------------
(* The points of call and call_async before the call's terminal event.      *)
PreEvent == {"decided", "missed", "ready", "running", "sleeping", "executed",
             "fallback", "emit"}
ToolPoints == PreEvent \union {"track"}

(* The points of query_model and query_model_stream, the latter suffixed.   *)
QueryPoints == {"querying", "counted", "emitted"}
StreamPoints == {"streaming", "s_querying", "s_counted", "s_emitted", "s_yielded"}
ClosingPoints == {"closing", "closing_over", "closing_failed"}
ModelPoints == QueryPoints \union StreamPoints \union ClosingPoints

(* A caller whose call raised takes no further call of this run: no strategy *)
(* of reasoning/ calls the environment again after an exception from it.     *)
(* "over": BudgetExceeded; "lost": a tool call raised something else;        *)
(* "failed": a model call did.                                               *)
EndPoints == {"over", "lost", "failed"}
Points == {"idle"} \union ToolPoints \union ModelPoints \union EndPoints

(* Kinds of events a property tells apart.  "executed": tool.called,         *)
(* tool.masked, tool.partial_allowed and tool.degraded.  "refused":          *)
(* tool.blocked, tool.schema_violation, tool.idempotent_cache_hit,           *)
(* tool.rate_limited and tool.degrade_failed.  "approval":                   *)
(* tool.approval_required.  "diagnostic": tool.timeout, tool.retry_exhausted.*)
EventKinds == {"executed", "refused", "approval", "diagnostic",
               "model", "stream_start", "stream_end"}

(* EventEmitter.emit, as the log's readers see it: one more event.           *)
Emit(kind) == events' = [events EXCEPT ![kind] = @ + 1]

Goto(c, point) == pc' = [pc EXCEPT ![c] = point]

-----------------------------------------------------------------------------
(* Mutant: the comparison grants one unit more.                              *)
ExceedsAtLimit(used, limit) == limit # Unlimited /\ used > limit + 1

(* CostAccountant.check_budget's test of one dimension: strictly above.      *)
Exceeds(used, limit) == limit # Unlimited /\ used > limit

(* CostAccountant.check_budget: max_tokens stands for max_cost_usd too, the  *)
(* other accumulated float of the same call; max_steps is not checked here.  *)
OverBudget(calls, tks) == Exceeds(tks, MaxTokens) \/ Exceeds(calls, MaxToolCalls)

(* BudgetGuard.track_*: under _state_lock, record and check.  The caller     *)
(* continues at `ok`, or at `over` with BudgetExceeded raised.               *)
Charge(c, calls, tks, ok, over) ==
  /\ toolCalls' = toolCalls + calls
  /\ tokens' = tokens + tks
  /\ Goto(c, IF OverBudget(toolCalls + calls, tokens + tks) THEN over ELSE ok)

-----------------------------------------------------------------------------
EnvInit ==
  /\ pc = [c \in Callers |-> "idle"]
  /\ events = [k \in EventKinds |-> 0]
  /\ toolCalls = 0
  /\ tokens = 0
  /\ toolsBegun = 0
  /\ modelsBegun = 0

EnvTypeOK ==
  /\ pc \in [Callers -> Points]
  /\ events \in [EventKinds -> Nat]
  /\ toolCalls \in Nat
  /\ tokens \in Nat
  /\ toolsBegun \in Nat
  /\ modelsBegun \in Nat

(* How many callers stand at one of the given points.                        *)
Count(points) == Cardinality({c \in Callers : pc[c] \in points})

=============================================================================
