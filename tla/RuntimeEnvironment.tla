------------------------ MODULE RuntimeEnvironment ------------------------
(***************************************************************************)
(* The chokepoint whole: tool calls and model calls of several callers     *)
(* over one event log, one cost accountant, one idempotency store and one  *)
(* rate limiter; what the environment owes its session; and the proof      *)
(* obligations' statements.                                                *)
(***************************************************************************)
EXTENDS ToolGate, ModelGate

vars == <<envVars, toolVars, modelCalls>>

Init == EnvInit /\ ToolInit /\ ModelInit

(* The bounds are spent and every caller is back or out.                     *)
Finished ==
  /\ \A c \in Callers : pc[c] \in {"idle"} \union EndPoints
  /\ (\E c \in Callers : pc[c] = "idle") =>
       toolsBegun = ToolCallBound /\ modelsBegun = ModelCallBound
  /\ UNCHANGED vars

Next ==
  \/ ToolNext /\ UNCHANGED modelCalls
  \/ ModelNext /\ UNCHANGED toolVars
  \/ Finished

Spec == Init /\ [][Next]_vars

(* A thread inside a call is scheduled, and tools, adapters and consumers of *)
(* streams finish what they are doing; nobody has to begin a call, and no    *)
(* timer has to fire.                                                        *)
CallerStep(c) ==
  \/ ToolStep(c) /\ UNCHANGED modelCalls
  \/ ModelStep(c) /\ UNCHANGED toolVars

FairSpec == Spec /\ \A c \in Callers : WF_vars(CallerStep(c))

-----------------------------------------------------------------------------
TypeOK == EnvTypeOK /\ ToolTypeOK /\ ModelTypeOK

(* Every tool call leaves one terminal event, executed, refused or waiting   *)
(* for approval, however it ended and whoever ran beside it; the calls       *)
(* without one are those still before it and those an exception took out of  *)
(* the gate.  (call: the paths from _prepare_tool_call to _block_tool, to a  *)
(* gate's event and to _record_tool_call.)                                   *)
AuditTrail ==
  toolsBegun = events["executed"] + events["refused"] + events["approval"]
                 + Count(PreEvent) + Count({"lost"})

(* The log and the meter agree: an execution event is followed by exactly    *)
(* one charge of its caller, and no charge comes without its event, although *)
(* the event is emitted outside _state_lock.  (_record_tool_call,            *)
(* _handle_degrade_sync.)                                                    *)
MeteredTrail == events["executed"] = toolCalls + Count({"track"})

(* Callers that have met BudgetExceeded, on their way out or out.            *)
Halted == {c \in Callers : pc[c] \in {"over", "closing_over"}}

(* The budget is enforced after the run, by each caller for itself: the      *)
(* counter passes max_tool_calls at most once per halted caller.             *)
(* (BudgetGuard.track_tool_call, CostAccountant.check_budget.)               *)
ToolOvershootBounded ==
  MaxToolCalls # Unlimited => toolCalls <= MaxToolCalls + Cardinality(Halted)

(* The same for tokens: past max_tokens, by at most one response per halted  *)
(* caller.  (BudgetGuard.track_llm.)                                         *)
TokenOvershootBounded ==
  MaxTokens # Unlimited => tokens <= MaxTokens + MaxUsage * Cardinality(Halted)

(* While an entry of the idempotency store lives, no caller runs the same    *)
(* key twice, in spite of the unlocked gap between get and put: what a       *)
(* second caller may do in the gap, a caller cannot do to itself.            *)
(* (_prepare_execution's Gate 2 and _finalize_execution.)                    *)
KeyRunsOncePerCaller == \A c \in Callers, k \in Keys : keyRuns[c][k] <= 1

(* A stream that started ends in the log exactly once, whether its consumer  *)
(* finished, stopped reading, the model raised or the budget was exceeded.   *)
(* (query_model_stream's finally.)                                           *)
StreamsBalanced ==
  events["stream_start"] = events["stream_end"] + Count(StreamPoints \union ClosingPoints)

(* A timeout or retry_exhausted event never stands alone: its call is also   *)
(* recorded as executed, or about to be.  (_execute_sync, _execute_async.)   *)
DiagnosticsBelong ==
  events["diagnostic"] <= events["executed"] + Count({"executed", "emit"})

(* The chokepoint implements the abstract meter of tool calls.               *)
Meter == INSTANCE BudgetMeter
           WITH Limit <- MaxToolCalls, charged <- toolCalls, halted <- Halted
MeterSpec == Meter!Spec

(* The window the gate keeps of a tool implements the abstract window, as    *)
(* the rate limiter does, whose stamps and clock the gate leaves out.        *)
WindowOf(t) == INSTANCE SlidingWindow WITH Limit <- RateLimit, inWindow <- window[t]

(* A call that began ends: it returns or raises.  (with_retry's bounded      *)
(* loop, with_timeout, the generator's finally.)                             *)
InCall(c) == pc[c] \in ToolPoints \union ModelPoints
CallsEnd == \A c \in Callers : InCall(c) ~> ~InCall(c)

-----------------------------------------------------------------------------
(* Statements the documentation makes and the code does not keep.            *)

(* README: "all calls audited".  A tool call that is over has its event.     *)
AllCallsAudited ==
  toolsBegun = events["executed"] + events["refused"] + events["approval"] + Count(PreEvent)

(* query_model_stream: the budget is checked, and usage estimated, when the  *)
(* stream ends.  A stream that ended without an exception was charged.       *)
EndedStreamsCharged ==
  events["stream_end"] <= modelCalls + Count({"failed"}) + Count({"over"})

=============================================================================
