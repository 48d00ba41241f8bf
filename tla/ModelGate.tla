---------------------------- MODULE ModelGate -----------------------------
(***************************************************************************)
(* RuntimeEnvironment.query_model and query_model_stream: the model's      *)
(* answer, its event, its charge, and the life of a stream whose consumer  *)
(* may stop reading.  The model is the embedder's.  A stream of a model    *)
(* without query_stream passes through query_model; its points have an     *)
(* "s_" prefix.                                                            *)
(***************************************************************************)
EXTENDS EnvironmentState

CONSTANTS
  Usages,     \* total_tokens a response can report
  MaxUsage    \* the largest of them

ASSUME ModelGateAssumption ==
  /\ Usages \subseteq Nat
  /\ MaxUsage \in Nat
  /\ \A u \in Usages : u <= MaxUsage

VARIABLES
  modelCalls   \* _model_calls

-----------------------------------------------------------------------------
(* query_model: the adapter is asked.                                        *)
AskModel(c) ==
  /\ pc[c] = "idle"
  /\ modelsBegun < ModelCallBound
  /\ modelsBegun' = modelsBegun + 1
  /\ Goto(c, "querying")
  /\ UNCHANGED <<events, meters, toolsBegun, modelCalls>>

(* _finalize_query_model, first half: the counter, under _state_lock.        *)
CountModelCall(c) ==
  /\ \/ pc[c] = "querying" /\ Goto(c, "counted")
     \/ pc[c] = "s_querying" /\ Goto(c, "s_counted")
  /\ modelCalls' = modelCalls + 1
  /\ UNCHANGED <<events, meters, begun>>

(* The adapter raises; in a stream, the finally clause still runs.           *)
ModelRaises(c) ==
  /\ \/ pc[c] = "querying" /\ Goto(c, "failed")
     \/ pc[c] \in {"s_querying", "streaming"} /\ Goto(c, "closing_failed")
  /\ UNCHANGED <<events, meters, begun, modelCalls>>

(* The model.called event, outside the lock.                                 *)
EmitModelCalled(c) ==
  /\ \/ pc[c] = "counted" /\ Goto(c, "emitted")
     \/ pc[c] = "s_counted" /\ Goto(c, "s_emitted")
  /\ Emit("model")
  /\ UNCHANGED <<meters, begun, modelCalls>>

(* track_llm, under the lock again.  A stream then yields the content.       *)
TrackLlm(c) ==
  /\ \E u \in Usages :
       \/ pc[c] = "emitted" /\ Charge(c, 0, u, "idle", "over")
       \/ pc[c] = "s_emitted" /\ Charge(c, 0, u, "s_yielded", "closing_over")
  /\ UNCHANGED <<events, begun, modelCalls>>

-----------------------------------------------------------------------------
(* query_model_stream up to stream_start: the budget is checked under the    *)
(* lock; a spent budget opens no stream.                                     *)
OpenStream(c) ==
  /\ pc[c] = "idle"
  /\ modelsBegun < ModelCallBound
  /\ modelsBegun' = modelsBegun + 1
  /\ IF OverBudget(toolCalls, tokens)
       THEN Goto(c, "over") /\ UNCHANGED events
       ELSE Goto(c, "streaming") /\ Emit("stream_start")
  /\ UNCHANGED <<meters, toolsBegun, modelCalls>>

(* The model has no query_stream: query_model inside the stream.             *)
FallBackToQuery(c) ==
  /\ pc[c] = "streaming"
  /\ Goto(c, "s_querying")
  /\ UNCHANGED <<events, meters, begun, modelCalls>>

(* The last chunk is consumed: counted and charged in one locked step.       *)
FinishStream(c) ==
  /\ pc[c] = "streaming"
  /\ \E u \in Usages : Charge(c, 0, u, "closing", "closing_over")
  /\ modelCalls' = modelCalls + 1
  /\ UNCHANGED <<events, begun>>

(* The consumer reads on past the single chunk, or closes the generator at   *)
(* a yield: GeneratorExit goes straight to the finally clause.               *)
LeaveStream(c) ==
  /\ pc[c] \in {"streaming", "s_yielded"}
  /\ Goto(c, "closing")
  /\ UNCHANGED <<events, meters, begun, modelCalls>>

(* Where the caller goes once the stream is closed.                          *)
AfterClose(point) ==
  CASE point = "closing" -> "idle" [] point = "closing_over" -> "over"
    [] OTHER -> "failed"

(* Mutant: without the finally, an exception skips the closing event.        *)
EmitStreamEndOnSuccess(c) ==
  IF pc[c] = "closing" THEN Emit("stream_end") ELSE UNCHANGED events

EmitStreamEnd(c) == Emit("stream_end")

(* The finally clause: stream_end on every exit.                             *)
CloseStream(c) ==
  /\ pc[c] \in ClosingPoints
  /\ EmitStreamEnd(c)
  /\ Goto(c, AfterClose(pc[c]))
  /\ UNCHANGED <<meters, begun, modelCalls>>

-----------------------------------------------------------------------------
ModelInit == modelCalls = 0

ModelStep(c) ==
  \/ CountModelCall(c) \/ ModelRaises(c) \/ EmitModelCalled(c) \/ TrackLlm(c)
  \/ FallBackToQuery(c) \/ FinishStream(c) \/ LeaveStream(c) \/ CloseStream(c)

ModelNext == \E c \in Callers : AskModel(c) \/ OpenStream(c) \/ ModelStep(c)

ModelTypeOK == modelCalls \in Nat
=============================================================================
