--------------------- MODULE RuntimeEnvironmentProofs ---------------------
(***************************************************************************)
(* Proofs about RuntimeEnvironment, for any number of callers, tools, keys *)
(* and any budget.                                                         *)
(***************************************************************************)
EXTENDS RuntimeEnvironment, FiniteSetTheorems, TLAPS

-----------------------------------------------------------------------------
One(b) == IF b THEN 1 ELSE 0

(* How a count of callers changes when one caller moves.                     *)
LEMMA CountMove ==
  ASSUME NEW S, NEW c \in Callers, NEW p, pc \in [Callers -> Points], Goto(c, p)
  PROVE  /\ Count(S) \in Nat
         /\ Count(S)' \in Nat
         /\ pc[c] \in S /\ p \in S => Count(S)' = Count(S)
         /\ pc[c] \notin S /\ p \notin S => Count(S)' = Count(S)
         /\ pc[c] \notin S /\ p \in S => Count(S)' = Count(S) + 1
         /\ pc[c] \in S /\ p \notin S => Count(S)' = Count(S) - 1
  <1> DEFINE A == {x \in Callers : pc[x] \in S}
             B == {x \in Callers : pc'[x] \in S}
  <1>1. IsFiniteSet(A) /\ IsFiniteSet(B)
    BY EnvironmentAssumption, FS_Subset
  <1>2. Cardinality(A) \in Nat /\ Cardinality(B) \in Nat
    BY <1>1, FS_CardinalityType
  <1>3. Count(S) = Cardinality(A) /\ Count(S)' = Cardinality(B)
    BY DEF Count
  <1>4. \A x \in Callers : x # c => pc'[x] = pc[x]
    BY DEF Goto
  <1>5. pc'[c] = p
    BY DEF Goto
  <1>6. CASE pc[c] \in S <=> p \in S
    <2>1. A = B
      BY <1>4, <1>5, <1>6
    <2> QED BY <2>1, <1>2, <1>3, <1>6
  <1>7. CASE pc[c] \notin S /\ p \in S
    <2>1. B = A \union {c} /\ c \notin A
      BY <1>4, <1>5, <1>7
    <2>2. Cardinality(B) = Cardinality(A) + 1
      BY <2>1, <1>1, FS_AddElement
    <2> QED BY <2>2, <1>2, <1>3, <1>7
  <1>8. CASE pc[c] \in S /\ p \notin S
    <2>1. B = A \ {c} /\ c \in A
      BY <1>4, <1>5, <1>8
    <2>2. Cardinality(B) = Cardinality(A) - 1
      BY <2>1, <1>1, FS_RemoveElement
    <2> QED BY <2>2, <1>2, <1>3, <1>8
  <1> QED BY <1>6, <1>7, <1>8

-----------------------------------------------------------------------------
(* The type invariant is inductive as it stands.                             *)

LEMMA EnvUnchangedType ==
  EnvTypeOK /\ UNCHANGED envVars => EnvTypeOK'
  BY DEF EnvTypeOK, envVars, meters, begun

LEMMA GotoType ==
  ASSUME NEW c \in Callers, NEW p \in Points, pc \in [Callers -> Points], Goto(c, p)
  PROVE  pc' \in [Callers -> Points]
  BY DEF Goto

LEMMA EmitType ==
  ASSUME NEW k \in EventKinds, events \in [EventKinds -> Nat], Emit(k)
  PROVE  events' \in [EventKinds -> Nat]
  BY DEF Emit

LEMMA ConcludeType ==
  ASSUME NEW c \in Callers, NEW d \in BOOLEAN, TypeOK, Conclude(c, d)
  PROVE  EnvTypeOK' /\ ToolTypeOK'
  <1> USE DEF TypeOK, EnvTypeOK, ToolTypeOK, Conclude, meters, begun
  <1>1. pc' \in [Callers -> Points]
    BY GotoType DEF Points, ToolPoints, PreEvent
  <1>2. events' \in [EventKinds -> Nat]
    <2>1. CASE d
      BY <2>1, EmitType DEF EventKinds
    <2>2. CASE ~d
      BY <2>2
    <2> QED BY <2>1, <2>2
  <1>3. call' \in [Callers -> Calls]
    BY DEF Calls
  <1>4. keyRuns' \in [Callers -> [Keys -> Nat]]
    <2>1. [k \in Keys |-> IF k = call[c].key THEN keyRuns[c][k] + 1 ELSE keyRuns[c][k]]
            \in [Keys -> Nat]
      OBVIOUS
    <2> QED BY <2>1
  <1> QED BY <1>1, <1>2, <1>3, <1>4

LEMMA ToolStepType ==
  ASSUME NEW c \in Callers, TypeOK, ToolStep(c)
  PROVE  EnvTypeOK' /\ ToolTypeOK'
  <1> USE DEF TypeOK, EnvTypeOK, ToolTypeOK, meters, begun, gateVars, toolVars,
             Points, ToolPoints, PreEvent, EndPoints, EventKinds, Calls, Goto, Emit
  <1>1. NoCall \in Calls
    BY DEF NoCall, Effects, PolicyEffects
  <1>2. CASE Block(c)
    BY <1>1, <1>2 DEF Block, BlockKind, Return
  <1>3. CASE DegradeFails(c)
    BY <1>1, <1>3 DEF DegradeFails, Return
  <1>4. CASE Degrade(c)
    <2>1. PICK t \in Tools :
            call' = [call EXCEPT ![c] = [NoCall EXCEPT !.tool = t, !.effect = "DEGRADE"]]
      BY <1>4 DEF Degrade
    <2>2. [NoCall EXCEPT !.tool = t, !.effect = "DEGRADE"] \in Calls
      BY DEF NoCall, Effects, PolicyEffects
    <2>3. call' \in [Callers -> Calls]
      BY <2>1, <2>2
    <2> QED BY <2>3, <1>4 DEF Degrade
  <1>5. CASE DegradeWithoutCredential(c)
    BY <1>1, <1>5 DEF DegradeWithoutCredential, Escape
  <1>6. CASE FallbackReturns(c)
    BY <1>6 DEF FallbackReturns
  <1>7. CASE FallbackRaises(c)
    BY <1>1, <1>7 DEF FallbackRaises, Escape
  <1>8. CASE SchemaRejects(c) \/ CacheHit(c) \/ RateRejects(c)
    <2>1. call' \in [Callers -> Calls]
      BY <1>1, <1>8 DEF SchemaRejects, CacheHit, RateRejects, Return
    <2>2. EnvTypeOK' /\ UNCHANGED gateVars
      BY <1>8 DEF SchemaRejects, CacheHit, RateRejects, Return
    <2> QED BY <2>1, <2>2
  <1>9. CASE CacheMiss(c)
    <2>1. PICK k \in Keys \union {NoKey} : call' = [call EXCEPT ![c].key = k]
      BY <1>9 DEF CacheMiss, KeyAfterFilter
    <2>2. [call[c] EXCEPT !.key = k] \in Calls
      OBVIOUS
    <2>3. call' \in [Callers -> Calls]
      BY <2>1, <2>2
    <2> QED BY <2>3, <1>9 DEF CacheMiss
  <1>10. CASE Admit(c)
    <2>1. window' \in [LimitedTools -> 0..RateLimit]
      BY <1>10, ToolGateAssumption DEF Admit, StampTool, Room
    <2> QED BY <2>1, <1>10 DEF Admit
  <1>11. CASE AdmitWithoutCredential(c)
    <2>1. window' \in [LimitedTools -> 0..RateLimit]
      BY <1>11, ToolGateAssumption DEF AdmitWithoutCredential, StampTool, Room
    <2> QED BY <1>1, <2>1, <1>11 DEF AdmitWithoutCredential, Escape
  <1>12. CASE Attempt(c)
    <2>1. call' = [call EXCEPT ![c].attempts = call[c].attempts + 1]
      BY <1>12 DEF Attempt, NextAttempt
    <2>2. [call[c] EXCEPT !.attempts = call[c].attempts + 1] \in Calls
      <3>1. call[c] \in Calls /\ call[c].attempts + 1 \in Nat
        OBVIOUS
      <3>2. \A r \in Calls, n \in Nat : [r EXCEPT !.attempts = n] \in Calls
        OBVIOUS
      <3> QED BY <3>1, <3>2
    <2>3. call' \in [Callers -> Calls]
      BY <2>1, <2>2
    <2> QED BY <2>3, <1>12 DEF Attempt
  <1>13. CASE AttemptReturns(c) \/ RetriesExhausted(c) \/ AttemptFails(c)
    <2>1. \E d \in BOOLEAN : Conclude(c, d)
      BY <1>13 DEF AttemptReturns, RetriesExhausted, AttemptFails
    <2> QED BY <2>1, ConcludeType
  <1>14. CASE BackOff(c)
    BY <1>14 DEF BackOff
  <1>15. CASE AssertionRaised(c)
    BY <1>1, <1>15 DEF AssertionRaised, Escape
  <1>16. CASE PutResult(c)
    BY <1>16 DEF PutResult, Stored
  <1>17. CASE RecordEvent(c)
    BY <1>17 DEF RecordEvent, EmitExecuted
  <1>18. CASE TrackToolCall(c)
    BY <1>1, <1>18 DEF TrackToolCall, Charge
  <1> QED
    BY <1>2, <1>3, <1>4, <1>5, <1>6, <1>7, <1>8, <1>9, <1>10, <1>11, <1>12, <1>13, <1>14,
       <1>15, <1>16, <1>17, <1>18 DEF ToolStep

LEMMA ModelStepType ==
  ASSUME NEW c \in Callers, TypeOK, AskModel(c) \/ OpenStream(c) \/ ModelStep(c)
  PROVE  EnvTypeOK' /\ ModelTypeOK'
  <1> USE DEF TypeOK, EnvTypeOK, ModelTypeOK, meters, begun, Points, ModelPoints,
             QueryPoints, StreamPoints, ClosingPoints, EndPoints, EventKinds, Goto, Emit
  <1>1. CASE AskModel(c) \/ OpenStream(c)
    BY <1>1 DEF AskModel, OpenStream
  <1>2. CASE CountModelCall(c) \/ ModelRaises(c) \/ EmitModelCalled(c)
    BY <1>2 DEF CountModelCall, ModelRaises, EmitModelCalled
  <1>3. CASE TrackLlm(c)
    BY <1>3, ModelGateAssumption DEF TrackLlm, Charge
  <1>4. CASE FinishStream(c)
    BY <1>4, ModelGateAssumption DEF FinishStream, Charge
  <1>5. CASE FallBackToQuery(c) \/ LeaveStream(c)
    BY <1>5 DEF FallBackToQuery, LeaveStream
  <1>6. CASE CloseStream(c)
    BY <1>6 DEF CloseStream, EmitStreamEnd, AfterClose
  <1> QED BY <1>1, <1>2, <1>3, <1>4, <1>5, <1>6 DEF ModelStep

LEMMA TypeInit == Init => TypeOK
  <1> SUFFICES ASSUME Init PROVE TypeOK
    OBVIOUS
  <1>1. EnvTypeOK
    BY DEF Init, EnvInit, EnvTypeOK, Points
  <1>2. ToolTypeOK
    BY ToolGateAssumption
    DEF Init, ToolInit, ToolTypeOK, NoCall, Calls, Effects, PolicyEffects
  <1>3. ModelTypeOK
    BY DEF Init, ModelInit, ModelTypeOK
  <1> QED BY <1>1, <1>2, <1>3 DEF TypeOK

LEMMA TypeNext == TypeOK /\ [Next]_vars => TypeOK'
  <1> SUFFICES ASSUME TypeOK, [Next]_vars PROVE TypeOK'
    OBVIOUS
  <1> USE DEF TypeOK
  <1>1. ASSUME NEW c \in Callers, BeginCall(c), UNCHANGED modelCalls PROVE TypeOK'
    <2>1. EnvTypeOK'
      BY <1>1 DEF BeginCall, EnvTypeOK, Goto, Points, ToolPoints, PreEvent, meters
    <2>2. call' \in [Callers -> Calls]
      <3>1. PICK t \in Tools \union {UnknownTool}, e \in Effects, k \in Keys \union {NoKey} :
              call' = [call EXCEPT ![c] = [NoCall EXCEPT !.tool = t, !.key = k, !.effect = e]]
        BY <1>1 DEF BeginCall, KeysOf, Resolved, Effects
      <3>2. [NoCall EXCEPT !.tool = t, !.key = k, !.effect = e] \in Calls
        BY DEF NoCall, Calls
      <3> QED BY <3>1, <3>2 DEF ToolTypeOK
    <2>3. requests' \in Nat
      BY <1>1 DEF BeginCall, ToolTypeOK, CreateRequest
    <2> QED BY <1>1, <2>1, <2>2, <2>3 DEF BeginCall, ToolTypeOK, ModelTypeOK
  <1>2. ASSUME NEW c \in Callers, ToolStep(c), UNCHANGED modelCalls PROVE TypeOK'
    BY <1>2, ToolStepType DEF ModelTypeOK
  <1>3. ASSUME NEW c \in Callers, SyncTimeout(c), UNCHANGED modelCalls PROVE TypeOK'
    BY <1>3 DEF SyncTimeout, EnvTypeOK, ToolTypeOK, ModelTypeOK, Calls, meters, begun, gateVars
  <1>4. ASSUME NEW c \in Callers, AsyncTimeout(c), UNCHANGED modelCalls PROVE TypeOK'
    BY <1>4, ConcludeType DEF AsyncTimeout, ModelTypeOK
  <1>5. ASSUME NEW k \in Keys, KeyExpires(k), UNCHANGED modelCalls PROVE TypeOK'
    BY <1>5, EnvUnchangedType DEF KeyExpires, ToolTypeOK, ModelTypeOK
  <1>6. ASSUME NEW t \in LimitedTools, WindowSlides(t), UNCHANGED modelCalls PROVE TypeOK'
    BY <1>6, EnvUnchangedType, ToolGateAssumption DEF WindowSlides, ToolTypeOK, ModelTypeOK
  <1>7. ASSUME NEW c \in Callers, AskModel(c) \/ OpenStream(c) \/ ModelStep(c),
               UNCHANGED toolVars
        PROVE  TypeOK'
    BY <1>7, ModelStepType DEF ToolTypeOK, toolVars, gateVars
  <1>8. CASE UNCHANGED vars
    BY <1>8, EnvUnchangedType DEF vars, toolVars, gateVars, ToolTypeOK, ModelTypeOK
  <1> QED
    BY <1>1, <1>2, <1>3, <1>4, <1>5, <1>6, <1>7, <1>8
    DEF Next, ToolNext, ModelNext, Finished

(* Every reachable state is well typed: in particular no rate limiter window *)
(* ever holds more than RateLimit stamps.                                    *)
THEOREM TypeCorrect == Spec => []TypeOK
  BY TypeInit, TypeNext, PTL DEF Spec

-----------------------------------------------------------------------------
(* What a step of the environment does to the callers, the log and the       *)
(* meters, the gates' own state apart.                                       *)

HaltPoints == {"over", "closing_over"}

Begin(c) ==
  /\ pc[c] = "idle" /\ Goto(c, "decided")
  /\ toolsBegun' = toolsBegun + 1
  /\ UNCHANGED <<events, meters>>

(* Inside a tool call, before its terminal event.                            *)
Advance(c) ==
  \E p \in PreEvent \union {"lost"} :
    /\ pc[c] \in PreEvent \ {"emit"} /\ Goto(c, p)
    /\ pc[c] = "executed" => p = "emit"
    /\ events' = events \/ (p = "executed" /\ Emit("diagnostic"))
    /\ UNCHANGED <<meters, begun>>

Refuse(c) ==
  /\ pc[c] \in {"decided", "missed"} /\ Goto(c, "idle")
  /\ \E k \in {"refused", "approval"} : Emit(k)
  /\ UNCHANGED <<meters, begun>>

Record(c) ==
  /\ pc[c] = "emit" /\ Goto(c, "track")
  /\ Emit("executed")
  /\ UNCHANGED <<meters, begun>>

ChargeTool(c) ==
  /\ pc[c] = "track" /\ Charge(c, 1, 0, "idle", "over")
  /\ UNCHANGED <<events, begun>>

(* A step of a model call or a stream, with or without a charge.             *)
ModelMove(c) ==
  \E p \in {"idle", "over", "failed"} \union ModelPoints :
    /\ pc[c] \in {"idle"} \union ModelPoints /\ Goto(c, p)
    /\ pc[c] \in HaltPoints => p \in HaltPoints
    /\ \/ tokens' = tokens
       \/ /\ pc[c] \notin HaltPoints
          /\ \E u \in Usages : tokens' = tokens + u
          /\ OverBudget(toolCalls, tokens') => p \in HaltPoints
    /\ \A k \in EventKinds \ {"model", "stream_start", "stream_end"} :
         events'[k] = events[k]
    /\ UNCHANGED <<toolCalls, toolsBegun>>

(* Time passes, a timer fires, or nothing happens.                           *)
Quiet == UNCHANGED envVars

LEMMA ConcludeAdvances ==
  ASSUME NEW c \in Callers, NEW d \in BOOLEAN, Conclude(c, d), pc[c] \in {"running", "sleeping"}
  PROVE  Advance(c)
  BY DEF Conclude, Advance, PreEvent, meters, begun

LEMMA ToolStepShape ==
  ASSUME NEW c \in Callers, TypeOK, ToolStep(c)
  PROVE  Advance(c) \/ Refuse(c) \/ Record(c) \/ ChargeTool(c)
  <1>1. CASE Block(c)
    BY <1>1 DEF Block, BlockKind, Return, Refuse
  <1>2. CASE DegradeFails(c) \/ SchemaRejects(c) \/ CacheHit(c) \/ RateRejects(c)
    BY <1>2 DEF DegradeFails, SchemaRejects, CacheHit, RateRejects, ToDegrade, AtGates,
                Return, Refuse
  <1>3. CASE Degrade(c) \/ DegradeWithoutCredential(c)
    BY <1>3 DEF Degrade, DegradeWithoutCredential, ToDegrade, Escape, Advance, PreEvent
  <1>4. CASE FallbackReturns(c) \/ FallbackRaises(c)
    BY <1>4 DEF FallbackReturns, FallbackRaises, Escape, Advance, PreEvent
  <1>5. CASE CacheMiss(c)
    BY <1>5 DEF CacheMiss, AtGates, Advance, PreEvent
  <1>6. CASE Admit(c) \/ AdmitWithoutCredential(c)
    BY <1>6 DEF Admit, AdmitWithoutCredential, StampTool, Escape, Advance, PreEvent
  <1>7. CASE Attempt(c) \/ BackOff(c) \/ AssertionRaised(c)
    BY <1>7 DEF Attempt, BackOff, AssertionRaised, Escape, Advance, PreEvent
  <1>8. CASE AttemptReturns(c) \/ RetriesExhausted(c) \/ AttemptFails(c)
    <2>1. \E d \in BOOLEAN : Conclude(c, d)
      BY <1>8 DEF AttemptReturns, RetriesExhausted, AttemptFails, TypeOK, ToolTypeOK, Calls
    <2> QED BY <2>1, <1>8, ConcludeAdvances
            DEF AttemptReturns, RetriesExhausted, AttemptFails
  <1>9. CASE PutResult(c)
    BY <1>9 DEF PutResult, Advance, PreEvent
  <1>10. CASE RecordEvent(c)
    BY <1>10 DEF RecordEvent, EmitExecuted, Record
  <1>11. CASE TrackToolCall(c)
    BY <1>11 DEF TrackToolCall, ChargeTool
  <1> QED
    BY <1>1, <1>2, <1>3, <1>4, <1>5, <1>6, <1>7, <1>8, <1>9, <1>10, <1>11 DEF ToolStep

LEMMA ModelStepShape ==
  ASSUME NEW c \in Callers, TypeOK, AskModel(c) \/ OpenStream(c) \/ ModelStep(c)
  PROVE  ModelMove(c)
  <1> USE DEF ModelMove, ModelPoints, QueryPoints, StreamPoints, ClosingPoints, HaltPoints,
             meters, begun
  <1>1. CASE AskModel(c) \/ CountModelCall(c) \/ ModelRaises(c)
    BY <1>1 DEF AskModel, CountModelCall, ModelRaises
  <1>2. CASE OpenStream(c) \/ EmitModelCalled(c)
    <2>1. \A k \in EventKinds \ {"model", "stream_start", "stream_end"} :
            events'[k] = events[k]
      BY <1>2 DEF OpenStream, EmitModelCalled, Emit, TypeOK, EnvTypeOK
    <2> QED BY <2>1, <1>2 DEF OpenStream, EmitModelCalled
  <1>3. CASE TrackLlm(c) \/ FinishStream(c)
    BY <1>3, ModelGateAssumption DEF TrackLlm, FinishStream, Charge, TypeOK, EnvTypeOK
  <1>4. CASE FallBackToQuery(c) \/ LeaveStream(c)
    BY <1>4 DEF FallBackToQuery, LeaveStream
  <1>5. CASE CloseStream(c)
    <2>1. \A k \in EventKinds \ {"model", "stream_start", "stream_end"} :
            events'[k] = events[k]
      BY <1>5 DEF CloseStream, EmitStreamEnd, Emit, TypeOK, EnvTypeOK
    <2> QED BY <2>1, <1>5 DEF CloseStream, AfterClose
  <1> QED BY <1>1, <1>2, <1>3, <1>4, <1>5 DEF ModelStep

LEMMA NotModelShape ==
  ASSUME TypeOK, [Next]_vars
  PROVE  \/ Quiet
         \/ \E c \in Callers : \/ Begin(c) \/ Advance(c) \/ Refuse(c) \/ Record(c) \/ ChargeTool(c)
                              \/ AskModel(c) \/ OpenStream(c) \/ ModelStep(c)
  <1>1. ASSUME NEW c \in Callers, BeginCall(c) PROVE Begin(c)
    BY <1>1 DEF BeginCall, Begin
  <1>2. ASSUME NEW c \in Callers, SyncTimeout(c) PROVE Quiet
    BY <1>2 DEF SyncTimeout, Quiet, envVars
  <1>3. ASSUME NEW c \in Callers, AsyncTimeout(c) PROVE Advance(c)
    BY <1>3, ConcludeAdvances DEF AsyncTimeout
  <1>4. ASSUME NEW k \in Keys, KeyExpires(k) PROVE Quiet
    BY <1>4 DEF KeyExpires, Quiet
  <1>5. ASSUME NEW t \in LimitedTools, WindowSlides(t) PROVE Quiet
    BY <1>5 DEF WindowSlides, Quiet
  <1>6. CASE UNCHANGED vars
    BY <1>6 DEF vars, Quiet
  <1> QED
    BY <1>1, <1>2, <1>3, <1>4, <1>5, <1>6, ToolStepShape DEF Next, ToolNext, ModelNext, Finished

LEMMA StepShape ==
  ASSUME TypeOK, [Next]_vars
  PROVE  \/ Quiet
         \/ \E c \in Callers : Begin(c) \/ Advance(c) \/ Refuse(c) \/ Record(c)
                                \/ ChargeTool(c) \/ ModelMove(c)
  BY NotModelShape, ModelStepShape

-----------------------------------------------------------------------------
(* AuditTrail, MeteredTrail and DiagnosticsBelong are inductive given TypeOK:*)
(* each compares a counter of the log with a count of callers, and a shape   *)
(* of step moves both by the same amount.                                    *)

LEMMA CountsOfNobody ==
  ASSUME Init, NEW S, "idle" \notin S
  PROVE  Count(S) = 0
  <1>1. {c \in Callers : pc[c] \in S} = {}
    BY DEF Init, EnvInit
  <1> QED BY <1>1, FS_EmptySet DEF Count

LEMMA QuietCounts ==
  ASSUME Quiet, NEW S
  PROVE  Count(S)' = Count(S)
  BY DEF Quiet, envVars, Count

Trails == AuditTrail /\ MeteredTrail /\ DiagnosticsBelong

LEMMA TrailsInit == Init => Trails
  <1> SUFFICES ASSUME Init PROVE Trails
    OBVIOUS
  <1>1. /\ Count(PreEvent) = 0 /\ Count({"lost"}) = 0 /\ Count({"track"}) = 0
        /\ Count({"executed", "emit"}) = 0
    BY CountsOfNobody DEF PreEvent
  <1> QED
    BY <1>1 DEF Init, EnvInit, EventKinds, Trails, AuditTrail, MeteredTrail, DiagnosticsBelong

(* CountMove for the sets of points that the trails count.                   *)
LEMMA TrailCounts ==
  ASSUME NEW c \in Callers, NEW p, pc \in [Callers -> Points], Goto(c, p)
  PROVE  /\ Count(PreEvent) \in Nat /\ Count({"lost"}) \in Nat /\ Count({"track"}) \in Nat
         /\ Count({"executed", "emit"}) \in Nat
         /\ Count(PreEvent)' =
              Count(PreEvent) + One(p \in PreEvent) - One(pc[c] \in PreEvent)
         /\ Count({"lost"})' = Count({"lost"}) + One(p = "lost") - One(pc[c] = "lost")
         /\ Count({"track"})' = Count({"track"}) + One(p = "track") - One(pc[c] = "track")
         /\ Count({"executed", "emit"})' = Count({"executed", "emit"})
              + One(p \in {"executed", "emit"}) - One(pc[c] \in {"executed", "emit"})
  <1>1. \A S : /\ Count(S) \in Nat
               /\ Count(S)' = Count(S) + One(p \in S) - One(pc[c] \in S)
    BY CountMove DEF One
  <1>2. /\ Count(PreEvent) \in Nat
        /\ Count(PreEvent)' = Count(PreEvent) + One(p \in PreEvent) - One(pc[c] \in PreEvent)
    BY <1>1
  <1>3. /\ Count({"lost"}) \in Nat
        /\ Count({"lost"})' = Count({"lost"}) + One(p = "lost") - One(pc[c] = "lost")
    BY <1>1 DEF One
  <1>4. /\ Count({"track"}) \in Nat
        /\ Count({"track"})' = Count({"track"}) + One(p = "track") - One(pc[c] = "track")
    BY <1>1 DEF One
  <1>5. /\ Count({"executed", "emit"}) \in Nat
        /\ Count({"executed", "emit"})' = Count({"executed", "emit"})
             + One(p \in {"executed", "emit"}) - One(pc[c] \in {"executed", "emit"})
    BY <1>1
  <1> QED BY <1>2, <1>3, <1>4, <1>5

LEMMA TrailsNext == TypeOK /\ Trails /\ [Next]_vars => Trails'
  <1> SUFFICES ASSUME TypeOK, Trails, [Next]_vars PROVE Trails'
    OBVIOUS
  <1> USE DEF Trails, AuditTrail, MeteredTrail, DiagnosticsBelong
  <1>t. /\ pc \in [Callers -> Points] /\ events \in [EventKinds -> Nat]
        /\ toolCalls \in Nat /\ toolsBegun \in Nat
    BY DEF TypeOK, EnvTypeOK
  <1>1. CASE Quiet
    BY <1>1, QuietCounts DEF Quiet, envVars, meters, begun
  <1>2. ASSUME NEW c \in Callers, Begin(c) PROVE Trails'
    BY <1>2, <1>t, TrailCounts DEF Begin, PreEvent, One, meters, EventKinds
  <1>3. ASSUME NEW c \in Callers, Advance(c) PROVE Trails'
    <2>1. PICK p \in PreEvent \union {"lost"} : Advance(c)!(p)
      BY <1>3 DEF Advance
    <2>2. /\ Count(PreEvent)' = Count(PreEvent) - One(p = "lost")
          /\ Count({"lost"})' = Count({"lost"}) + One(p = "lost")
          /\ Count(PreEvent) \in Nat /\ Count({"lost"}) \in Nat
          /\ Count({"track"})' = Count({"track"})
          /\ Count({"executed", "emit"})' = Count({"executed", "emit"})
                + One(p \in {"executed", "emit"}) - One(pc[c] = "executed")
          /\ Count({"executed", "emit"}) \in Nat
      BY <2>1, <1>t, TrailCounts DEF PreEvent, One
    <2>3. /\ \A k \in {"executed", "refused", "approval"} : events'[k] = events[k]
          /\ \/ events'["diagnostic"] = events["diagnostic"]
             \/ p = "executed" /\ events'["diagnostic"] = events["diagnostic"] + 1
      BY <2>1, <1>t DEF Emit, EventKinds
    <2>4. /\ UNCHANGED <<toolCalls, toolsBegun>>
          /\ pc[c] = "executed" => p = "emit"
      BY <2>1 DEF meters, begun
    <2>5. AuditTrail' /\ MeteredTrail'
      BY <2>2, <2>3, <2>4, <1>t DEF One, EventKinds
    <2>6. DiagnosticsBelong'
      BY <2>2, <2>3, <2>4, <1>t DEF One, EventKinds
    <2> QED BY <2>5, <2>6
  <1>4. ASSUME NEW c \in Callers, Refuse(c) PROVE Trails'
    <2>1. /\ Count(PreEvent)' = Count(PreEvent) - 1 /\ Count({"lost"})' = Count({"lost"})
          /\ Count({"track"})' = Count({"track"}) /\ Count({"lost"}) \in Nat
          /\ Count({"executed", "emit"})' = Count({"executed", "emit"})
          /\ Count(PreEvent) \in Nat
      BY <1>4, <1>t, TrailCounts DEF Refuse, PreEvent, One
    <2> QED BY <2>1, <1>4, <1>t DEF Refuse, Emit, EventKinds, meters, begun
  <1>5. ASSUME NEW c \in Callers, Record(c) PROVE Trails'
    <2>0. pc[c] = "emit" /\ Goto(c, "track")
      BY <1>5 DEF Record
    <2>1. /\ Count(PreEvent)' = Count(PreEvent) - 1 /\ Count({"lost"})' = Count({"lost"})
          /\ Count(PreEvent) \in Nat /\ Count({"lost"}) \in Nat
      BY <2>0, <1>t, TrailCounts DEF PreEvent, One
    <2>2. /\ Count({"track"})' = Count({"track"}) + 1 /\ Count({"track"}) \in Nat
          /\ Count({"executed", "emit"})' = Count({"executed", "emit"}) - 1
          /\ Count({"executed", "emit"}) \in Nat
      BY <2>0, <1>t, TrailCounts DEF One
    <2> QED BY <2>1, <2>2, <1>5, <1>t DEF Record, Emit, EventKinds, meters, begun
  <1>6. ASSUME NEW c \in Callers, ChargeTool(c) PROVE Trails'
    <2>1. PICK p \in {"idle", "over"} : Goto(c, p)
      BY <1>6 DEF ChargeTool, Charge
    <2>2. /\ Count(PreEvent)' = Count(PreEvent) /\ Count({"lost"})' = Count({"lost"})
          /\ Count({"track"})' = Count({"track"}) - 1 /\ Count({"track"}) \in Nat
          /\ Count({"executed", "emit"})' = Count({"executed", "emit"})
      BY <2>1, <1>6, <1>t, TrailCounts DEF ChargeTool, PreEvent, One
    <2> QED BY <2>2, <1>6, <1>t DEF ChargeTool, Charge, begun, EventKinds
  <1>7. ASSUME NEW c \in Callers, ModelMove(c) PROVE Trails'
    <2>1. PICK p \in {"idle", "over", "failed"} \union ModelPoints : ModelMove(c)!(p)
      BY <1>7 DEF ModelMove
    <2>2. /\ Count(PreEvent)' = Count(PreEvent) /\ Count({"lost"})' = Count({"lost"})
          /\ Count({"track"})' = Count({"track"})
          /\ Count({"executed", "emit"})' = Count({"executed", "emit"})
      BY <2>1, <1>t, TrailCounts
      DEF PreEvent, One, ModelPoints, QueryPoints, StreamPoints, ClosingPoints
    <2> QED BY <2>1, <2>2, <1>t DEF EventKinds
  <1> QED BY <1>1, <1>2, <1>3, <1>4, <1>5, <1>6, <1>7, StepShape

LEMMA TrailsInvariant == Spec => []Trails
  <1>1. TypeOK /\ Trails /\ [Next]_vars => TypeOK' /\ Trails'
    BY TypeNext, TrailsNext
  <1> QED BY <1>1, TypeInit, TrailsInit, PTL DEF Spec

(* Every tool call leaves exactly one terminal event in the log, unless an   *)
(* exception took it out of the gate.                                        *)
THEOREM AuditTrailHolds == Spec => []AuditTrail
  BY TrailsInvariant, PTL DEF Trails

(* No execution event without its charge and no charge without its event,    *)
(* although the event is emitted outside the lock of the meter.              *)
THEOREM MeteredTrailHolds == Spec => []MeteredTrail
  BY TrailsInvariant, PTL DEF Trails

(* A timeout or retry_exhausted event belongs to a call that is recorded.    *)
THEOREM DiagnosticsBelongHolds == Spec => []DiagnosticsBelong
  BY TrailsInvariant, PTL DEF Trails

-----------------------------------------------------------------------------
(* The budget: the environment implements BudgetMeter, and passes each limit *)
(* by at most one charge per halted caller.                                  *)

LEMMA HaltedMove ==
  ASSUME NEW c \in Callers, NEW p, pc \in [Callers -> Points], Goto(c, p),
         pc[c] \in HaltPoints => p \in HaltPoints
  PROVE  Halted' = IF p \in HaltPoints THEN Halted \union {c} ELSE Halted
  BY DEF Halted, HaltPoints, Goto

(* Each shape of step is a charge of the meter, a halt or a stutter.         *)
LEMMA MeterStep == TypeOK /\ [Next]_vars => [Meter!Next]_<<toolCalls, Halted>>
  <1> SUFFICES ASSUME TypeOK, [Next]_vars
               PROVE  [Meter!Next]_<<toolCalls, Halted>>
    OBVIOUS
  <1>t. pc \in [Callers -> Points] /\ toolCalls \in Nat
    BY DEF TypeOK, EnvTypeOK
  <1>1. CASE Quiet
    BY <1>1 DEF Quiet, envVars, meters, Halted
  <1>2. ASSUME NEW c \in Callers, Begin(c) \/ Advance(c) \/ Refuse(c) \/ Record(c)
        PROVE  UNCHANGED <<toolCalls, Halted>>
    <2>1. PICK p : pc[c] \notin HaltPoints /\ p \notin HaltPoints /\ Goto(c, p)
      BY <1>2 DEF Begin, Advance, Refuse, Record, PreEvent, HaltPoints
    <2>2. Halted' = Halted
      BY <2>1, <1>t, HaltedMove
    <2> QED BY <2>2, <1>2 DEF Begin, Advance, Refuse, Record, meters
  <1>3. ASSUME NEW c \in Callers, ChargeTool(c) PROVE Meter!Charge(c)
    <2>1. PICK p \in {"idle", "over"} :
            Goto(c, p) /\ (OverBudget(toolCalls + 1, tokens + 0) => p = "over")
      BY <1>3 DEF ChargeTool, Charge
    <2>2. c \notin Halted /\ toolCalls' = toolCalls + 1
      BY <1>3 DEF ChargeTool, Charge, Halted
    <2>3. Halted' = IF p = "over" THEN Halted \union {c} ELSE Halted
      BY <2>1, <1>3, <1>t, HaltedMove DEF ChargeTool, HaltPoints
    <2>4. MaxToolCalls # Unlimited /\ toolCalls' > MaxToolCalls => p = "over"
      BY <2>1, <2>2 DEF OverBudget, Exceeds
    <2> QED BY <2>2, <2>3, <2>4 DEF Meter!Charge
  <1>4. ASSUME NEW c \in Callers, ModelMove(c)
        PROVE  Meter!Halt(c) \/ UNCHANGED <<toolCalls, Halted>>
    <2>1. PICK p : Goto(c, p) /\ (pc[c] \in HaltPoints => p \in HaltPoints)
      BY <1>4 DEF ModelMove
    <2>2. Halted' = IF p \in HaltPoints THEN Halted \union {c} ELSE Halted
      BY <2>1, <1>t, HaltedMove
    <2> QED BY <2>2, <1>4 DEF ModelMove, Meter!Halt
  <1> QED BY <1>1, <1>2, <1>3, <1>4, StepShape DEF Meter!Next

LEMMA MeterInit == Init => Meter!Init
  BY DEF Init, EnvInit, Halted, Meter!Init

(* The chokepoint implements the abstract meter: one charge at a time, and   *)
(* the caller whose charge passes the limit halts.                           *)
THEOREM ImplementsMeter == Spec => MeterSpec
  BY TypeCorrect, MeterInit, MeterStep, PTL
  DEF Spec, MeterSpec, Meter!Spec, Meter!meterVars

LEMMA HaltedCount ==
  ASSUME NEW c \in Callers, NEW p, pc \in [Callers -> Points], Goto(c, p),
         pc[c] \in HaltPoints => p \in HaltPoints
  PROVE  /\ Cardinality(Halted) \in Nat
         /\ Cardinality(Halted)' \in Nat
         /\ Cardinality(Halted)' >= Cardinality(Halted)
         /\ pc[c] \notin HaltPoints /\ p \in HaltPoints =>
              Cardinality(Halted)' = Cardinality(Halted) + 1
  <1>1. Halted = {x \in Callers : pc[x] \in HaltPoints}
    BY DEF Halted, HaltPoints
  <1>2. Cardinality(Halted) = Count(HaltPoints) /\ Cardinality(Halted)' = Count(HaltPoints)'
    BY <1>1 DEF Count, Halted, HaltPoints
  <1>3. /\ Count(HaltPoints) \in Nat /\ Count(HaltPoints)' \in Nat
        /\ pc[c] \notin HaltPoints /\ p \in HaltPoints =>
             Count(HaltPoints)' = Count(HaltPoints) + 1
        /\ pc[c] \notin HaltPoints /\ p \notin HaltPoints =>
             Count(HaltPoints)' = Count(HaltPoints)
        /\ pc[c] \in HaltPoints /\ p \in HaltPoints =>
             Count(HaltPoints)' = Count(HaltPoints)
    BY CountMove
  <1> QED BY <1>2, <1>3

Overshoots == ToolOvershootBounded /\ TokenOvershootBounded

LEMMA OvershootsInit == Init => Overshoots
  <1> SUFFICES ASSUME Init PROVE Overshoots
    OBVIOUS
  <1>1. Halted = {} /\ Cardinality(Halted) = 0
    BY FS_EmptySet DEF Init, EnvInit, Halted
  <1> QED
    BY <1>1, EnvironmentAssumption, ModelGateAssumption
    DEF Init, EnvInit, Overshoots, ToolOvershootBounded, TokenOvershootBounded

LEMMA OvershootsNext == TypeOK /\ Overshoots /\ [Next]_vars => Overshoots'
  <1> SUFFICES ASSUME TypeOK, Overshoots, [Next]_vars PROVE Overshoots'
    OBVIOUS
  <1> USE EnvironmentAssumption, ModelGateAssumption
      DEF Overshoots, ToolOvershootBounded, TokenOvershootBounded
  <1>t. pc \in [Callers -> Points] /\ toolCalls \in Nat /\ tokens \in Nat
    BY DEF TypeOK, EnvTypeOK
  <1>m. \A m, n \in Nat : m >= n => MaxUsage * m >= MaxUsage * n
    OBVIOUS
  <1>1. CASE Quiet
    BY <1>1 DEF Quiet, envVars, meters, Halted
  <1>2. ASSUME NEW c \in Callers, Begin(c) \/ Advance(c) \/ Refuse(c) \/ Record(c)
        PROVE  Overshoots'
    <2>1. PICK p : pc[c] \notin HaltPoints /\ p \notin HaltPoints /\ Goto(c, p)
      BY <1>2 DEF Begin, Advance, Refuse, Record, PreEvent, HaltPoints
    <2>2. Halted' = Halted
      BY <2>1, <1>t, HaltedMove
    <2> QED BY <2>2, <1>2 DEF Begin, Advance, Refuse, Record, meters
  <1>3. ASSUME NEW c \in Callers, ChargeTool(c) PROVE Overshoots'
    <2>1. PICK p \in {"idle", "over"} :
            Goto(c, p) /\ (OverBudget(toolCalls + 1, tokens + 0) => p = "over")
      BY <1>3 DEF ChargeTool, Charge
    <2>2. toolCalls' = toolCalls + 1 /\ tokens' = tokens /\ pc[c] \notin HaltPoints
      BY <1>3, <1>t DEF ChargeTool, Charge, HaltPoints
    <2>3. /\ Cardinality(Halted) \in Nat /\ Cardinality(Halted)' \in Nat
          /\ Cardinality(Halted)' >= Cardinality(Halted)
          /\ p = "over" => Cardinality(Halted)' = Cardinality(Halted) + 1
      BY <2>1, <2>2, <1>t, HaltedCount DEF HaltPoints
    <2>4. ToolOvershootBounded'
      BY <2>1, <2>2, <2>3, <1>t DEF OverBudget, Exceeds
    <2>5. TokenOvershootBounded'
      <3>1. MaxUsage * Cardinality(Halted)' >= MaxUsage * Cardinality(Halted)
        BY <2>3, <1>m
      <3> QED BY <3>1, <2>2, <2>3, <1>t
    <2> QED BY <2>4, <2>5
  <1>4. ASSUME NEW c \in Callers, ModelMove(c) PROVE Overshoots'
    <2>1. PICK p \in {"idle", "over", "failed"} \union ModelPoints : ModelMove(c)!(p)
      BY <1>4 DEF ModelMove
    <2>2. /\ Cardinality(Halted) \in Nat /\ Cardinality(Halted)' \in Nat
          /\ Cardinality(Halted)' >= Cardinality(Halted)
          /\ pc[c] \notin HaltPoints /\ p \in HaltPoints =>
               Cardinality(Halted)' = Cardinality(Halted) + 1
      BY <2>1, <1>t, HaltedCount
    <2>3. MaxUsage * Cardinality(Halted)' >= MaxUsage * Cardinality(Halted)
      BY <2>2, <1>m
    <2>4. ToolOvershootBounded'
      BY <2>1, <2>2, <1>t
    <2>5. CASE tokens' = tokens
      BY <2>2, <2>3, <2>4, <2>5, <1>t
    <2>6. CASE tokens' # tokens
      <3>1. pc[c] \notin HaltPoints /\ (OverBudget(toolCalls, tokens') => p \in HaltPoints)
        BY <2>1, <2>6
      <3>2. PICK u \in Usages : tokens' = tokens + u
        BY <2>1, <2>6
      <3>3. CASE p \in HaltPoints
        <4>1. MaxUsage * Cardinality(Halted)' = MaxUsage * Cardinality(Halted) + MaxUsage
          BY <2>2, <3>1, <3>3
        <4> QED BY <4>1, <2>2, <2>4, <3>2, <1>t
      <3>4. CASE p \notin HaltPoints
        <4>1. MaxTokens # Unlimited => tokens' <= MaxTokens
          BY <3>1, <3>2, <3>4, <1>t DEF OverBudget, Exceeds
        <4>2. MaxUsage * Cardinality(Halted)' \in Nat
          BY <2>2
        <4> QED BY <4>1, <4>2, <2>4, <3>2, <1>t
      <3> QED BY <3>3, <3>4
    <2> QED BY <2>5, <2>6
  <1> QED BY <1>1, <1>2, <1>3, <1>4, StepShape

LEMMA OvershootsInvariant == Spec => []Overshoots
  <1>1. TypeOK /\ Overshoots /\ [Next]_vars => TypeOK' /\ Overshoots'
    BY TypeNext, OvershootsNext
  <1> QED BY <1>1, TypeInit, OvershootsInit, PTL DEF Spec

(* The tool-call counter passes the budget at most once per halted caller.   *)
THEOREM ToolOvershootHolds == Spec => []ToolOvershootBounded
  BY OvershootsInvariant, PTL DEF Overshoots

(* Tokens pass the budget by at most one response per halted caller.         *)
THEOREM TokenOvershootHolds == Spec => []TokenOvershootBounded
  BY OvershootsInvariant, PTL DEF Overshoots

-----------------------------------------------------------------------------
(* The idempotency store: KeyRunsOncePerCaller is not inductive.  What makes *)
(* it so: a run that was counted is stored or about to be, and a caller past *)
(* the cache miss has not run its key.                                       *)

Executing == {"missed", "ready", "running", "sleeping"}

KeyInv ==
  \A c \in Callers, k \in Keys :
    /\ keyRuns[c][k] \in {0, 1}
    /\ keyRuns[c][k] = 1 => k \in cached \/ (pc[c] = "executed" /\ call[c].key = k)
    /\ pc[c] \in Executing /\ call[c].key = k => keyRuns[c][k] = 0

LEMMA KeyInitial == Init => KeyInv
  BY DEF Init, EnvInit, ToolInit, KeyInv, Executing

(* A step of one caller that leaves the store and the history alone, and     *)
(* does not bring the caller past a cache miss.                              *)
LEMMA KeyFrame ==
  ASSUME KeyInv, NEW c \in Callers, UNCHANGED <<cached, keyRuns>>, pc[c] # "executed",
         \A x \in Callers : x # c => pc'[x] = pc[x] /\ call'[x] = call[x],
         pc'[c] \in Executing => pc[c] \in Executing /\ call'[c].key = call[c].key
  PROVE  KeyInv'
  BY DEF KeyInv

LEMMA KeyConclude ==
  ASSUME TypeOK, KeyInv, NEW c \in Callers, NEW d \in BOOLEAN, Conclude(c, d),
         pc[c] \in {"running", "sleeping"}
  PROVE  KeyInv'
  <1>1. /\ pc' = [pc EXCEPT ![c] = "executed"]
        /\ call' = [call EXCEPT ![c].attempts = 0, ![c].late = FALSE]
        /\ cached' = cached
        /\ keyRuns' = [keyRuns EXCEPT ![c] = [k \in Keys |->
                         IF k = call[c].key THEN keyRuns[c][k] + 1 ELSE keyRuns[c][k]]]
    BY DEF Conclude, Goto
  <1>2. /\ pc \in [Callers -> Points] /\ call \in [Callers -> Calls]
        /\ keyRuns \in [Callers -> [Keys -> Nat]]
    BY DEF TypeOK, EnvTypeOK, ToolTypeOK
  <1>3. call'[c].key = call[c].key
    BY <1>1, <1>2 DEF Calls
  <1>4. \A x \in Callers : x # c =>
          pc'[x] = pc[x] /\ call'[x] = call[x] /\ keyRuns'[x] = keyRuns[x]
    BY <1>1, <1>2
  <1>5. \A k \in Keys : /\ k = call[c].key => keyRuns[c][k] = 0 /\ keyRuns'[c][k] = 1
                        /\ k # call[c].key => keyRuns'[c][k] = keyRuns[c][k]
    BY <1>1, <1>2 DEF KeyInv, Executing
  <1>6. pc'[c] = "executed" /\ pc[c] # "executed"
    BY <1>1, <1>2
  <1>7. SUFFICES ASSUME NEW x \in Callers, NEW k \in Keys
        PROVE  /\ keyRuns'[x][k] \in {0, 1}
               /\ keyRuns'[x][k] = 1 =>
                    k \in cached' \/ (pc'[x] = "executed" /\ call'[x].key = k)
               /\ pc'[x] \in Executing /\ call'[x].key = k => keyRuns'[x][k] = 0
    BY DEF KeyInv
  <1>u. cached' = cached
    BY <1>1
  <1>v. /\ keyRuns[x][k] \in {0, 1}
        /\ keyRuns[x][k] = 1 => k \in cached \/ (pc[x] = "executed" /\ call[x].key = k)
        /\ pc[x] \in Executing /\ call[x].key = k => keyRuns[x][k] = 0
    BY DEF KeyInv
  <1>8. CASE x # c
    BY <1>u, <1>v, <1>4, <1>8
  <1>9. CASE x = c
    <2>1. CASE k = call[c].key
      BY <1>3, <1>5, <1>6, <1>9, <2>1 DEF Executing
    <2>2. CASE k # call[c].key
      BY <1>u, <1>v, <1>3, <1>5, <1>6, <1>9, <2>2 DEF Executing
    <2> QED BY <2>1, <2>2
  <1> QED BY <1>8, <1>9

LEMMA KeyToolStep ==
  ASSUME TypeOK, KeyInv, NEW c \in Callers, ToolStep(c)
  PROVE  KeyInv'
  <1>t. /\ pc \in [Callers -> Points] /\ call \in [Callers -> Calls]
        /\ keyRuns \in [Callers -> [Keys -> Nat]]
    BY DEF TypeOK, EnvTypeOK, ToolTypeOK
  <1>1. CASE Block(c) \/ DegradeFails(c) \/ SchemaRejects(c) \/ CacheHit(c) \/ RateRejects(c)
    BY <1>1, <1>t, KeyFrame DEF Block, DegradeFails, ToDegrade, SchemaRejects, CacheHit,
       RateRejects, AtGates, Return, Goto, gateVars, Executing
  <1>2. CASE Degrade(c) \/ DegradeWithoutCredential(c) \/ FallbackReturns(c) \/ FallbackRaises(c)
    BY <1>2, <1>t, KeyFrame DEF Degrade, DegradeWithoutCredential, ToDegrade, FallbackReturns,
       FallbackRaises, Escape, Goto, gateVars, toolVars, Executing
  <1>3. CASE CacheMiss(c)
    <2>1. PICK k \in KeyAfterFilter(c) : k \notin cached /\ call' = [call EXCEPT ![c].key = k]
      BY <1>3 DEF CacheMiss
    <2>2. /\ pc' = [pc EXCEPT ![c] = "missed"] /\ pc[c] = "decided"
          /\ UNCHANGED <<cached, keyRuns>>
      BY <1>3 DEF CacheMiss, AtGates, Goto, gateVars
    <2>3. call'[c].key = k
      BY <2>1, <1>t DEF Calls
    <2>4. k \in Keys => keyRuns[c][k] = 0
      BY <2>1, <2>2 DEF KeyInv
    <2>5. \A x \in Callers : x # c => pc'[x] = pc[x] /\ call'[x] = call[x]
      BY <2>1, <2>2, <1>t
    <2> QED BY <2>2, <2>3, <2>4, <2>5, <1>t DEF KeyInv, Executing
  <1>4. CASE Admit(c) \/ AdmitWithoutCredential(c)
    BY <1>4, <1>t, KeyFrame DEF Admit, AdmitWithoutCredential, StampTool, Escape, Goto, Executing
  <1>5. CASE Attempt(c)
    <2>1. call'[c].key = call[c].key
      BY <1>5, <1>t DEF Attempt, Calls
    <2> QED BY <1>5, <2>1, <1>t, KeyFrame DEF Attempt, Goto, gateVars, Executing
  <1>6. CASE BackOff(c) \/ AssertionRaised(c)
    BY <1>6, <1>t, KeyFrame
    DEF BackOff, AssertionRaised, Escape, Goto, gateVars, toolVars, Executing
  <1>7. CASE AttemptReturns(c) \/ RetriesExhausted(c) \/ AttemptFails(c)
    <2>1. \E d \in BOOLEAN : Conclude(c, d)
      BY <1>7, <1>t DEF AttemptReturns, RetriesExhausted, AttemptFails, Calls
    <2> QED BY <2>1, <1>7, KeyConclude DEF AttemptReturns, RetriesExhausted, AttemptFails
  <1>8. CASE PutResult(c)
    <2>1. /\ cached \subseteq cached' /\ \A k \in Keys : call[c].key = k => k \in cached'
          /\ pc' = [pc EXCEPT ![c] = "emit"] /\ UNCHANGED <<call, keyRuns>>
      BY <1>8, ToolGateAssumption DEF PutResult, Stored, Goto
    <2> QED BY <2>1, <1>t DEF KeyInv, Executing
  <1>9. CASE RecordEvent(c) \/ TrackToolCall(c)
    BY <1>9, <1>t, KeyFrame
    DEF RecordEvent, TrackToolCall, Charge, Goto, gateVars, toolVars, Executing
  <1> QED BY <1>1, <1>2, <1>3, <1>4, <1>5, <1>6, <1>7, <1>8, <1>9 DEF ToolStep

LEMMA KeyNext == TypeOK /\ KeyInv /\ [Next]_vars => KeyInv'
  <1> SUFFICES ASSUME TypeOK, KeyInv, [Next]_vars PROVE KeyInv'
    OBVIOUS
  <1>t. /\ pc \in [Callers -> Points] /\ call \in [Callers -> Calls]
        /\ keyRuns \in [Callers -> [Keys -> Nat]]
    BY DEF TypeOK, EnvTypeOK, ToolTypeOK
  <1>1. ASSUME NEW c \in Callers, BeginCall(c) PROVE KeyInv'
    BY <1>1, <1>t, KeyFrame DEF BeginCall, Goto, Executing
  <1>2. ASSUME NEW c \in Callers, SyncTimeout(c) PROVE KeyInv'
    <2>1. call'[c].key = call[c].key
      BY <1>2, <1>t DEF SyncTimeout, Calls
    <2> QED BY <2>1, <1>2, <1>t, KeyFrame DEF SyncTimeout, gateVars, Executing
  <1>3. ASSUME NEW c \in Callers, AsyncTimeout(c) PROVE KeyInv'
    BY <1>3, KeyConclude DEF AsyncTimeout
  <1>4. ASSUME NEW k \in Keys, KeyExpires(k) PROVE KeyInv'
    <2>1. /\ cached' = cached \ {k} /\ UNCHANGED <<pc, call>>
          /\ \A x \in Callers : keyRuns'[x] = [keyRuns[x] EXCEPT ![k] = 0]
      BY <1>4 DEF KeyExpires, envVars
    <2>2. \A x \in Callers, j \in Keys :
            keyRuns'[x][j] = IF j = k THEN 0 ELSE keyRuns[x][j]
      BY <2>1, <1>t
    <2> QED BY <2>1, <2>2 DEF KeyInv
  <1>5. ASSUME NEW t \in LimitedTools, WindowSlides(t) PROVE KeyInv'
    BY <1>5 DEF WindowSlides, KeyInv, envVars
  <1>6. ASSUME NEW c \in Callers, ModelMove(c), UNCHANGED toolVars PROVE KeyInv'
    BY <1>6, <1>t, KeyFrame DEF ModelMove, Goto, ModelPoints, QueryPoints, StreamPoints,
       ClosingPoints, toolVars, gateVars, Executing
  <1>7. CASE UNCHANGED vars
    BY <1>7 DEF vars, envVars, toolVars, gateVars, KeyInv
  <1> QED
    BY <1>1, <1>2, <1>3, <1>4, <1>5, <1>6, <1>7, KeyToolStep, ModelStepShape
    DEF Next, ToolNext, ModelNext, Finished

(* While an entry of the store lives, no caller runs its key twice, whatever *)
(* other callers do in the gap between get and put.                          *)
THEOREM KeyRunsHold == Spec => []KeyRunsOncePerCaller
  <1>1. TypeOK /\ KeyInv /\ [Next]_vars => TypeOK' /\ KeyInv'
    BY TypeNext, KeyNext
  <1>2. KeyInv => KeyRunsOncePerCaller
    BY DEF KeyInv, KeyRunsOncePerCaller
  <1> QED BY <1>1, <1>2, TypeInit, KeyInitial, PTL DEF Spec

-----------------------------------------------------------------------------
(* Streams: stream_start and stream_end against the callers inside a stream. *)

InStream == StreamPoints \union ClosingPoints

LEMMA StreamsNext == TypeOK /\ StreamsBalanced /\ [Next]_vars => StreamsBalanced'
  <1> SUFFICES ASSUME TypeOK, StreamsBalanced, [Next]_vars PROVE StreamsBalanced'
    OBVIOUS
  <1>t. pc \in [Callers -> Points] /\ events \in [EventKinds -> Nat]
    BY DEF TypeOK, EnvTypeOK
  <1>b. events["stream_start"] = events["stream_end"] + Count(InStream)
    BY DEF StreamsBalanced, InStream
  <1>g. SUFFICES events'["stream_start"] = events'["stream_end"] + Count(InStream)'
    BY DEF StreamsBalanced, InStream
  <1> USE DEF StreamPoints, ClosingPoints, QueryPoints, EventKinds
  <1>1. CASE Quiet
    BY <1>1, <1>b, QuietCounts DEF Quiet, envVars
  <1>2. ASSUME NEW c \in Callers,
               Begin(c) \/ Advance(c) \/ Refuse(c) \/ Record(c) \/ ChargeTool(c)
        PROVE  events'["stream_start"] = events'["stream_end"] + Count(InStream)'
    <2>1. PICK p : pc[c] \notin InStream /\ p \notin InStream /\ Goto(c, p)
      BY <1>2 DEF Begin, Advance, Refuse, Record, ChargeTool, Charge, PreEvent, InStream
    <2>2. Count(InStream)' = Count(InStream)
      BY <2>1, <1>t, CountMove
    <2>3. \A k \in {"stream_start", "stream_end"} : events'[k] = events[k]
      BY <1>2, <1>t DEF Begin, Advance, Refuse, Record, ChargeTool, Emit
    <2> QED BY <2>2, <2>3, <1>b
  <1>3. ASSUME NEW c \in Callers, AskModel(c) \/ OpenStream(c) \/ ModelStep(c)
        PROVE  events'["stream_start"] = events'["stream_end"] + Count(InStream)'
    <2>1. CASE \/ AskModel(c) \/ CountModelCall(c) \/ ModelRaises(c) \/ FallBackToQuery(c)
               \/ LeaveStream(c)
      <3>1. PICK p : Goto(c, p) /\ (p \in InStream <=> pc[c] \in InStream)
        BY <2>1 DEF AskModel, CountModelCall, ModelRaises, FallBackToQuery, LeaveStream, InStream
      <3>2. Count(InStream)' = Count(InStream) /\ events' = events
        BY <3>1, <2>1, <1>t, CountMove
        DEF AskModel, CountModelCall, ModelRaises, FallBackToQuery, LeaveStream
      <3> QED BY <3>2, <1>b
    <2>2. CASE EmitModelCalled(c)
      <3>1. PICK p : Goto(c, p) /\ (p \in InStream <=> pc[c] \in InStream)
        BY <2>2 DEF EmitModelCalled, InStream
      <3>2. Count(InStream)' = Count(InStream)
        BY <3>1, <1>t, CountMove
      <3> QED BY <3>2, <2>2, <1>b, <1>t DEF EmitModelCalled, Emit
    <2>3. CASE TrackLlm(c) \/ FinishStream(c)
      <3>1. PICK p : Goto(c, p) /\ (p \in InStream <=> pc[c] \in InStream)
        BY <2>3 DEF TrackLlm, FinishStream, Charge, InStream
      <3>2. Count(InStream)' = Count(InStream) /\ events' = events
        BY <3>1, <2>3, <1>t, CountMove DEF TrackLlm, FinishStream
      <3> QED BY <3>2, <1>b
    <2>4. CASE OpenStream(c)
      <3>1. CASE OverBudget(toolCalls, tokens)
        <4>1. Goto(c, "over") /\ events' = events /\ pc[c] = "idle"
          BY <2>4, <3>1 DEF OpenStream
        <4>0. "idle" \notin InStream /\ "over" \notin InStream
          BY DEF InStream
        <4>2. Count(InStream)' = Count(InStream)
          BY <4>0, <4>1, <1>t, CountMove
        <4> QED BY <4>1, <4>2, <1>b
      <3>2. CASE ~OverBudget(toolCalls, tokens)
        <4>1. Goto(c, "streaming") /\ Emit("stream_start") /\ pc[c] = "idle"
          BY <2>4, <3>2 DEF OpenStream
        <4>2. Count(InStream)' = Count(InStream) + 1 /\ Count(InStream) \in Nat
          BY <4>1, <1>t, CountMove DEF InStream
        <4> QED BY <4>1, <4>2, <1>b, <1>t DEF Emit
      <3> QED BY <3>1, <3>2
    <2>5. CASE CloseStream(c)
      <3>1. PICK p \in {"idle", "over", "failed"} : Goto(c, p)
        BY <2>5 DEF CloseStream, AfterClose
      <3>2. Count(InStream)' = Count(InStream) - 1 /\ Count(InStream) \in Nat
        BY <3>1, <2>5, <1>t, CountMove DEF CloseStream, InStream
      <3> QED BY <3>2, <2>5, <1>b, <1>t DEF CloseStream, EmitStreamEnd, Emit
    <2> QED BY <1>3, <2>1, <2>2, <2>3, <2>4, <2>5 DEF ModelStep
  <1>4. \/ \E c \in Callers : Begin(c) \/ Advance(c) \/ Refuse(c) \/ Record(c) \/ ChargeTool(c)
        \/ \E c \in Callers : AskModel(c) \/ OpenStream(c) \/ ModelStep(c)
        \/ Quiet
    BY NotModelShape
  <1> QED BY <1>1, <1>2, <1>3, <1>4

(* Every stream that started ends in the log exactly once.                   *)
THEOREM StreamsBalancedHolds == Spec => []StreamsBalanced
  <1>1. Init => StreamsBalanced
    BY CountsOfNobody
    DEF StreamsBalanced, Init, EnvInit, EventKinds, StreamPoints, ClosingPoints
  <1>2. TypeOK /\ StreamsBalanced /\ [Next]_vars => TypeOK' /\ StreamsBalanced'
    BY TypeNext, StreamsNext
  <1> QED BY <1>1, <1>2, TypeInit, PTL DEF Spec

-----------------------------------------------------------------------------
(* A call ends after boundedly many steps of its own caller: the provable    *)
(* half of CallsEnd, whose other half, that a next step is enabled and taken,*)
(* is TLC's.                                                                 *)

(* How far a point is from the end of its call, further attempts apart.      *)
Stage(point) ==
  CASE point \in {"track", "emitted"} \union ClosingPoints -> 1
    [] point \in {"emit", "counted", "s_yielded"} -> 2
    [] point \in {"executed", "fallback", "sleeping", "querying", "s_emitted"} -> 3
    [] point \in {"running", "s_counted"} -> 4
    [] point \in {"ready", "s_querying"} -> 5
    [] point \in {"missed", "streaming"} -> 6
    [] point = "decided" -> 7
    [] OTHER -> 0

(* The points before the last attempt, each of which may cost two steps.     *)
Attempting == Executing \union {"decided"}

StepsFrom(point, attempts) ==
  Stage(point) + (IF point \in Attempting THEN 2 * (MaxRetries + 1 - attempts) ELSE 0)

StepsLeft(c) == StepsFrom(pc[c], call[c].attempts)

(* Steps of a call: 15 where an attempt may be retried three times.          *)
LongestCall == 2 * MaxRetries + 9

(* What the loop of with_retry has counted at a point.                       *)
AttemptsAt(point, attempts) ==
  /\ point \in {"decided", "missed", "ready"} => attempts = 0
  /\ point = "sleeping" => attempts \in 1 .. MaxRetries
  /\ point = "running" => attempts \in 1 .. MaxRetries + 1

AttemptsInv == \A c \in Callers : AttemptsAt(pc[c], call[c].attempts)

(* A caller in a call has a bounded number of steps left, one outside has    *)
(* none.                                                                     *)
StepsBounded ==
  \A c \in Callers : /\ StepsLeft(c) \in 0 .. LongestCall
                     /\ InCall(c) <=> StepsLeft(c) > 0

(* Every step of a caller in a call brings its end nearer, and no step of    *)
(* another caller, no timer and no expiry puts it off.                       *)
CallsShorten ==
  [][\A c \in Callers : /\ CallerStep(c) => StepsLeft(c)' < StepsLeft(c)
                        /\ InCall(c) => StepsLeft(c)' <= StepsLeft(c)]_vars

LEMMA AttemptsInit == Init => AttemptsInv
  BY DEF Init, EnvInit, ToolInit, NoCall, AttemptsInv, AttemptsAt

(* What a step does to the caller that takes it, and what it owes.           *)
Nearer(c) ==
  /\ AttemptsAt(pc'[c], call'[c].attempts)
  /\ StepsFrom(pc'[c], call'[c].attempts) < StepsFrom(pc[c], call[c].attempts)

(* The ranks of the points, and that they are numbers.                       *)
LEMMA StagesOrdered ==
  ASSUME NEW n \in Nat, NEW point \in Points, AttemptsAt(point, n)
  PROVE  /\ StepsFrom(point, n) \in 0 .. LongestCall
         /\ StepsFrom(point, n) > 0 <=> point \in ToolPoints \union ModelPoints
         /\ point \in Attempting => StepsFrom(point, n) > 3
  <1> USE ToolGateAssumption
  <1>1. CASE point \in Attempting
    BY <1>1 DEF StepsFrom, Stage, Attempting, Executing, AttemptsAt, LongestCall, ToolPoints,
                PreEvent, ClosingPoints
  <1>2. CASE point \notin Attempting
    <2>1. StepsFrom(point, n) = Stage(point)
      BY <1>2, SMT DEF StepsFrom, Stage
    <2>2. Stage(point) \in 0 .. 6 /\ (Stage(point) > 0 <=> point \in ToolPoints \union ModelPoints)
      BY <1>2 DEF Stage, Attempting, Executing, Points, ToolPoints, PreEvent, ModelPoints,
                  QueryPoints, StreamPoints, ClosingPoints, EndPoints
    <2> QED
      BY <1>2, <2>1, <2>2 DEF LongestCall
  <1> QED
    BY <1>1, <1>2

LEMMA ConcludeNearer ==
  ASSUME TypeOK, AttemptsInv, NEW c \in Callers, NEW d \in BOOLEAN, Conclude(c, d),
         pc[c] \in {"running", "sleeping"}
  PROVE  Nearer(c)
  <1>1. call[c].attempts \in Nat /\ pc[c] \in Attempting /\ AttemptsAt(pc[c], call[c].attempts)
    BY DEF TypeOK, ToolTypeOK, Calls, Attempting, Executing, AttemptsInv
  <1>2. StepsFrom(pc[c], call[c].attempts) > 3
    BY <1>1, StagesOrdered DEF TypeOK, EnvTypeOK
  <1>3. pc'[c] = "executed"
    BY DEF Conclude, Goto, TypeOK, EnvTypeOK
  <1>4. StepsFrom(pc'[c], call'[c].attempts) = 3 /\ AttemptsAt(pc'[c], call'[c].attempts)
    BY <1>3 DEF StepsFrom, Stage, Attempting, Executing, AttemptsAt, ClosingPoints
  <1>5. StepsFrom(pc[c], call[c].attempts) \in Nat
    BY <1>1, StagesOrdered, ToolGateAssumption DEF TypeOK, EnvTypeOK, LongestCall
  <1> QED
    BY <1>2, <1>4, <1>5 DEF Nearer

LEMMA ToolStepNearer ==
  ASSUME TypeOK, AttemptsInv, NEW c \in Callers, ToolStep(c)
  PROVE  Nearer(c)
  <1> USE ToolGateAssumption
  <1>t. /\ pc \in [Callers -> Points] /\ call \in [Callers -> Calls]
        /\ call[c].attempts \in Nat /\ AttemptsAt(pc[c], call[c].attempts)
    BY DEF TypeOK, EnvTypeOK, ToolTypeOK, Calls, AttemptsInv
  <1>0. StepsFrom(pc[c], call[c].attempts) \in Nat
    BY <1>t, StagesOrdered DEF LongestCall
  <1>e. ASSUME pc'[c] \in {"idle", "over", "lost"}, pc[c] \in ToolPoints PROVE Nearer(c)
    <2>1. StepsFrom(pc'[c], call'[c].attempts) = 0 /\ AttemptsAt(pc'[c], call'[c].attempts)
      BY <1>e DEF StepsFrom, Stage, Attempting, Executing, AttemptsAt, ClosingPoints
    <2> QED
      BY <1>0, <1>e, <1>t, <2>1, StagesOrdered DEF Nearer
  <1>1. CASE Block(c) \/ DegradeFails(c) \/ SchemaRejects(c) \/ CacheHit(c) \/ RateRejects(c)
    BY <1>1, <1>e, <1>t DEF Block, DegradeFails, ToDegrade, SchemaRejects, CacheHit,
       RateRejects, AtGates, Return, Goto, ToolPoints, PreEvent
  <1>2. CASE DegradeWithoutCredential(c) \/ FallbackRaises(c) \/ AdmitWithoutCredential(c)
             \/ AssertionRaised(c) \/ TrackToolCall(c)
    BY <1>2, <1>e, <1>t DEF DegradeWithoutCredential, ToDegrade, FallbackRaises,
       AdmitWithoutCredential, StampTool, AssertionRaised, Escape, TrackToolCall, Charge, Goto,
       ToolPoints, PreEvent
  <1>3. CASE Degrade(c)
    <2>1. pc[c] = "decided" /\ pc'[c] = "fallback"
      BY <1>3, <1>t DEF Degrade, ToDegrade, Goto
    <2>2. StepsFrom(pc'[c], call'[c].attempts) = 3 /\ AttemptsAt(pc'[c], call'[c].attempts)
      BY <2>1 DEF StepsFrom, Stage, Attempting, Executing, AttemptsAt, ClosingPoints
    <2>3. StepsFrom(pc[c], call[c].attempts) > 3
      BY <1>t, <2>1, StagesOrdered DEF Attempting
    <2> QED
      BY <1>0, <2>2, <2>3 DEF Nearer
  <1>4. CASE FallbackReturns(c) \/ PutResult(c) \/ RecordEvent(c)
    <2>1. \/ pc[c] \in {"fallback", "executed"} /\ pc'[c] = "emit"
          \/ pc[c] = "emit" /\ pc'[c] = "track"
      BY <1>4, <1>t DEF FallbackReturns, PutResult, RecordEvent, Goto
    <2> QED
      BY <2>1 DEF Nearer, StepsFrom, Stage, Attempting, Executing, AttemptsAt, ClosingPoints
  <1>5. CASE CacheMiss(c) \/ Admit(c)
    <2>1. /\ \/ pc[c] = "decided" /\ pc'[c] = "missed"
             \/ pc[c] = "missed" /\ pc'[c] = "ready"
          /\ call'[c].attempts = call[c].attempts
      BY <1>5, <1>t DEF CacheMiss, AtGates, Admit, StampTool, Goto, Calls
    <2> QED
      BY <1>t, <2>1 DEF Nearer, StepsFrom, Stage, Attempting, Executing, AttemptsAt, ClosingPoints
  <1>6. CASE Attempt(c)
    <2>1. /\ pc[c] \in {"ready", "sleeping"} /\ pc'[c] = "running"
          /\ call'[c].attempts = call[c].attempts + 1
      BY <1>6, <1>t DEF Attempt, NextAttempt, Goto, Calls
    <2> QED
      BY <1>t, <2>1 DEF Nearer, StepsFrom, Stage, Attempting, Executing, AttemptsAt, ClosingPoints
  <1>7. CASE BackOff(c)
    <2>1. /\ pc[c] = "running" /\ pc'[c] = "sleeping" /\ call'[c].attempts = call[c].attempts
          /\ call[c].attempts <= MaxRetries
      BY <1>7, <1>t DEF BackOff, RetriesLeft, Goto, toolVars
    <2> QED
      BY <1>t, <2>1 DEF Nearer, StepsFrom, Stage, Attempting, Executing, AttemptsAt, ClosingPoints
  <1>8. CASE AttemptReturns(c) \/ RetriesExhausted(c) \/ AttemptFails(c)
    <2>1. \E d \in BOOLEAN : Conclude(c, d)
      BY <1>8, <1>t DEF AttemptReturns, RetriesExhausted, AttemptFails, Calls
    <2> QED
      BY <2>1, <1>8, ConcludeNearer DEF AttemptReturns, RetriesExhausted, AttemptFails
  <1> QED
    BY <1>1, <1>2, <1>3, <1>4, <1>5, <1>6, <1>7, <1>8 DEF ToolStep

LEMMA ModelStepNearer ==
  ASSUME TypeOK, AttemptsInv, NEW c \in Callers, ModelStep(c), UNCHANGED toolVars
  PROVE  Nearer(c)
  <1> USE DEF Nearer, StepsFrom, Stage, Attempting, Executing, AttemptsAt, ClosingPoints
  <1>t. pc \in [Callers -> Points]
    BY DEF TypeOK, EnvTypeOK
  <1>1. CASE CountModelCall(c) \/ EmitModelCalled(c)
    <2>1. \/ pc[c] = "querying" /\ pc'[c] = "counted"
          \/ pc[c] = "s_querying" /\ pc'[c] = "s_counted"
          \/ pc[c] = "counted" /\ pc'[c] = "emitted"
          \/ pc[c] = "s_counted" /\ pc'[c] = "s_emitted"
      BY <1>1, <1>t DEF CountModelCall, EmitModelCalled, Goto
    <2> QED
      BY <2>1
  <1>2. CASE ModelRaises(c) \/ FallBackToQuery(c)
    <2>1. \/ pc[c] = "querying" /\ pc'[c] = "failed"
          \/ pc[c] \in {"s_querying", "streaming"} /\ pc'[c] = "closing_failed"
          \/ pc[c] = "streaming" /\ pc'[c] = "s_querying"
      BY <1>2, <1>t DEF ModelRaises, FallBackToQuery, Goto
    <2> QED
      BY <2>1
  <1>3. CASE TrackLlm(c) \/ FinishStream(c) \/ LeaveStream(c)
    <2>1. \/ pc[c] = "emitted" /\ pc'[c] \in {"idle", "over"}
          \/ pc[c] = "s_emitted" /\ pc'[c] \in {"s_yielded", "closing_over"}
          \/ pc[c] \in {"streaming", "s_yielded"} /\ pc'[c] \in {"closing", "closing_over"}
      BY <1>3, <1>t DEF TrackLlm, FinishStream, LeaveStream, Charge, Goto
    <2> QED
      BY <2>1
  <1>4. CASE CloseStream(c)
    <2>1. pc[c] \in ClosingPoints /\ pc'[c] \in {"idle", "over", "failed"}
      BY <1>4, <1>t DEF CloseStream, AfterClose, Goto
    <2> QED
      BY <2>1
  <1> QED
    BY <1>1, <1>2, <1>3, <1>4 DEF ModelStep

(* Nobody but its caller moves a call, a timer apart, which ends it.         *)
LEMMA OthersStay ==
  ASSUME TypeOK, AttemptsInv, [Next]_vars, NEW x \in Callers
  PROVE  \/ Nearer(x)
         \/ pc'[x] = pc[x] /\ call'[x].attempts = call[x].attempts
         \/ ~InCall(x) /\ AttemptsAt(pc'[x], call'[x].attempts)
  <1>t. pc \in [Callers -> Points] /\ call \in [Callers -> Calls]
    BY DEF TypeOK, EnvTypeOK, ToolTypeOK
  <1>1. ASSUME NEW c \in Callers, BeginCall(c)
        PROVE  \/ pc'[x] = pc[x] /\ call'[x] = call[x]
               \/ ~InCall(x) /\ AttemptsAt(pc'[x], call'[x].attempts)
    <2>1. PICK t, k, e : call' = [call EXCEPT ![c] = [NoCall EXCEPT !.tool = t, !.key = k, !.effect = e]]
      BY <1>1 DEF BeginCall
    <2>2. pc[c] = "idle" /\ pc' = [pc EXCEPT ![c] = "decided"]
      BY <1>1 DEF BeginCall, Goto
    <2>3. call'[c].attempts = 0
      BY <1>t, <2>1 DEF NoCall
    <2>4. CASE x = c
      BY <1>t, <2>2, <2>3, <2>4 DEF InCall, ToolPoints, PreEvent, ModelPoints, QueryPoints,
         StreamPoints, ClosingPoints, AttemptsAt
    <2>5. CASE x # c
      BY <1>t, <2>1, <2>2, <2>5
    <2> QED
      BY <2>4, <2>5
  <1>2. ASSUME NEW c \in Callers, ToolStep(c), x # c PROVE pc'[x] = pc[x] /\ call'[x] = call[x]
    <2>1. pc' = [pc EXCEPT ![c] = pc'[c]] /\ call' = [call EXCEPT ![c] = call'[c]]
      <3> USE DEF Goto
      <3>1. CASE Block(c) \/ DegradeFails(c) \/ SchemaRejects(c) \/ CacheHit(c) \/ RateRejects(c)
        BY <1>t, <3>1 DEF Block, DegradeFails, SchemaRejects, CacheHit, RateRejects, Return
      <3>2. CASE Degrade(c) \/ DegradeWithoutCredential(c) \/ FallbackReturns(c) \/ FallbackRaises(c)
        BY <1>t, <3>2 DEF Degrade, DegradeWithoutCredential, FallbackReturns, FallbackRaises,
           Escape, toolVars
      <3>3. CASE CacheMiss(c) \/ Admit(c) \/ AdmitWithoutCredential(c) \/ Attempt(c)
        BY <1>t, <3>3 DEF CacheMiss, Admit, AdmitWithoutCredential, Attempt, Escape
      <3>4. CASE BackOff(c) \/ AssertionRaised(c) \/ PutResult(c) \/ RecordEvent(c) \/ TrackToolCall(c)
        BY <1>t, <3>4 DEF BackOff, AssertionRaised, PutResult, RecordEvent, TrackToolCall,
           Charge, Escape, toolVars
      <3>5. CASE AttemptReturns(c) \/ RetriesExhausted(c) \/ AttemptFails(c)
        BY <1>t, <3>5 DEF AttemptReturns, RetriesExhausted, AttemptFails, Conclude
      <3> QED
        BY <1>2, <3>1, <3>2, <3>3, <3>4, <3>5 DEF ToolStep
    <2> QED
      BY <1>2, <1>t, <2>1
  <1>3. ASSUME NEW c \in Callers, SyncTimeout(c)
        PROVE  pc'[x] = pc[x] /\ call'[x].attempts = call[x].attempts
    BY <1>3, <1>t DEF SyncTimeout, Calls
  <1>4. ASSUME NEW c \in Callers, AsyncTimeout(c)
        PROVE  Nearer(x) \/ (pc'[x] = pc[x] /\ call'[x] = call[x])
    <2>1. CASE x = c
      BY <1>4, <2>1, ConcludeNearer DEF AsyncTimeout
    <2>2. CASE x # c
      BY <1>4, <1>t, <2>2 DEF AsyncTimeout, Conclude, Goto
    <2> QED
      BY <2>1, <2>2
  <1>5. ASSUME \/ UNCHANGED vars \/ \E k \in Keys : KeyExpires(k)
               \/ \E t \in LimitedTools : WindowSlides(t)
        PROVE  pc'[x] = pc[x] /\ call'[x] = call[x]
    BY <1>5 DEF vars, envVars, toolVars, KeyExpires, WindowSlides
  <1>6. ASSUME NEW c \in Callers, AskModel(c) \/ OpenStream(c) \/ ModelStep(c), UNCHANGED toolVars
        PROVE  \/ Nearer(x)
               \/ pc'[x] = pc[x] /\ call'[x] = call[x]
               \/ ~InCall(x) /\ AttemptsAt(pc'[x], call'[x].attempts)
    <2>1. ASSUME x # c PROVE pc'[x] = pc[x] /\ call'[x] = call[x]
      <3>1. ModelMove(c)
        BY <1>6, ModelStepShape
      <3> QED
        BY <1>6, <1>t, <2>1, <3>1 DEF ModelMove, Goto, toolVars
    <2>2. CASE x = c /\ ModelStep(c)
      BY <1>6, <2>2, ModelStepNearer
    <2>3. CASE x = c /\ (AskModel(c) \/ OpenStream(c))
      <3>1. pc[c] = "idle" /\ pc'[c] \in {"querying", "over", "streaming"}
        BY <1>t, <2>3 DEF AskModel, OpenStream, Goto
      <3> QED
        BY <2>3, <3>1 DEF InCall, ToolPoints, PreEvent, ModelPoints, QueryPoints,
           StreamPoints, ClosingPoints, AttemptsAt
    <2> QED
      BY <1>6, <2>1, <2>2, <2>3
  <1>7. ASSUME NEW c \in Callers, ToolStep(c)
        PROVE  Nearer(x) \/ (pc'[x] = pc[x] /\ call'[x] = call[x])
    BY <1>2, <1>7, ToolStepNearer
  <1> QED
    BY <1>1, <1>3, <1>4, <1>5, <1>6, <1>7 DEF Next, ToolNext, ModelNext, Finished

LEMMA AttemptsNext == TypeOK /\ AttemptsInv /\ [Next]_vars => AttemptsInv'
  BY OthersStay DEF AttemptsInv, Nearer

(* However many callers there are and however often an attempt may be        *)
(* retried, a call is over after at most LongestCall steps of its own        *)
(* caller; nobody else can lengthen it.                                      *)
THEOREM CallsAreShort == Spec => []StepsBounded /\ CallsShorten
  <1>1. TypeOK /\ AttemptsInv /\ [Next]_vars => TypeOK' /\ AttemptsInv'
    BY TypeNext, AttemptsNext
  <1>2. TypeOK /\ AttemptsInv => StepsBounded
    <2> SUFFICES ASSUME TypeOK, AttemptsInv, NEW c \in Callers
                 PROVE  /\ StepsLeft(c) \in 0 .. LongestCall
                        /\ InCall(c) <=> StepsLeft(c) > 0
      BY DEF StepsBounded
    <2>1. pc[c] \in Points /\ call[c].attempts \in Nat /\ AttemptsAt(pc[c], call[c].attempts)
      BY DEF TypeOK, EnvTypeOK, ToolTypeOK, Calls, AttemptsInv
    <2> QED
      BY <2>1, StagesOrdered DEF StepsLeft, InCall
  <1>3. (TypeOK /\ AttemptsInv => StepsBounded)'
    BY <1>2, PTL
  <1>4. TypeOK /\ AttemptsInv /\ TypeOK' /\ AttemptsInv' /\ [Next]_vars =>
          [\A c \in Callers : /\ CallerStep(c) => StepsLeft(c)' < StepsLeft(c)
                              /\ InCall(c) => StepsLeft(c)' <= StepsLeft(c)]_vars
    <2> SUFFICES ASSUME TypeOK, AttemptsInv, TypeOK', AttemptsInv', [Next]_vars, NEW c \in Callers
                 PROVE  /\ CallerStep(c) => StepsLeft(c)' < StepsLeft(c)
                        /\ InCall(c) => StepsLeft(c)' <= StepsLeft(c)
      OBVIOUS
    <2>1. Nearer(c) => StepsLeft(c)' < StepsLeft(c)
      BY DEF Nearer, StepsLeft
    <2>2. CallerStep(c) => Nearer(c)
      BY ToolStepNearer, ModelStepNearer DEF CallerStep
    <2>3. StepsLeft(c) \in Int /\ StepsLeft(c)' \in Int
      <3>1. StepsBounded /\ StepsBounded'
        BY <1>2, <1>3
      <3> QED
        BY <3>1 DEF StepsBounded
    <2>4. pc'[c] = pc[c] /\ call'[c].attempts = call[c].attempts => StepsLeft(c)' = StepsLeft(c)
      BY DEF StepsLeft
    <2> QED
      BY <2>1, <2>2, <2>3, <2>4, OthersStay
  <1> QED
    BY <1>1, <1>2, <1>4, TypeInit, AttemptsInit, PTL DEF Spec, CallsShorten

-----------------------------------------------------------------------------
(* The window of a limited tool as an abstract window.                       *)
LEMMA WindowOfStart ==
  ASSUME NEW t \in LimitedTools, Init
  PROVE  WindowOf(t)!Init
  BY DEF Init, ToolInit, WindowOf!Init

LEMMA StampAdmits ==
  ASSUME TypeOK, NEW t \in LimitedTools, NEW c \in Callers, StampTool(c)
  PROVE  WindowOf(t)!Admit \/ UNCHANGED window[t]
  <1>1. window[t] \in 0 .. RateLimit /\ window[t] \in Nat
    BY ToolGateAssumption DEF TypeOK, ToolTypeOK
  <1>2. CASE t = call[c].tool
    <2>1. window[t] < RateLimit /\ window'[t] = window[t] + 1
      BY <1>2 DEF StampTool, Room
    <2> QED
      BY <1>1, <2>1 DEF WindowOf!Admit
  <1>3. CASE t # call[c].tool
    BY <1>3 DEF StampTool
  <1> QED
    BY <1>2, <1>3

LEMMA WindowOfStep ==
  ASSUME TypeOK, NEW t \in LimitedTools, [Next]_vars
  PROVE  [WindowOf(t)!Next]_(window[t])
  <1>1. ASSUME NEW c \in Callers, ToolStep(c)
        PROVE  WindowOf(t)!Admit \/ UNCHANGED window[t]
    <2>1. CASE Block(c) \/ DegradeFails(c) \/ SchemaRejects(c) \/ CacheHit(c)
               \/ CacheMiss(c) \/ RateRejects(c)
      BY <2>1 DEF Block, DegradeFails, SchemaRejects, CacheHit, CacheMiss, RateRejects,
                  gateVars
    <2>2. CASE Degrade(c) \/ DegradeWithoutCredential(c)
      BY <2>2 DEF Degrade, DegradeWithoutCredential, gateVars
    <2>3. CASE FallbackReturns(c) \/ FallbackRaises(c)
      BY <2>3 DEF FallbackReturns, FallbackRaises, toolVars, gateVars
    <2>4. CASE Admit(c) \/ AdmitWithoutCredential(c)
      BY <2>4, StampAdmits DEF Admit, AdmitWithoutCredential
    <2>5. CASE Attempt(c) \/ BackOff(c) \/ AssertionRaised(c)
      BY <2>5 DEF Attempt, BackOff, AssertionRaised, toolVars, gateVars
    <2>6. CASE AttemptReturns(c) \/ RetriesExhausted(c) \/ AttemptFails(c)
      BY <2>6 DEF AttemptReturns, RetriesExhausted, AttemptFails, Conclude
    <2>7. CASE PutResult(c) \/ RecordEvent(c) \/ TrackToolCall(c)
      BY <2>7 DEF PutResult, RecordEvent, TrackToolCall, toolVars, gateVars
    <2> QED
      BY <1>1, <2>1, <2>2, <2>3, <2>4, <2>5, <2>6, <2>7 DEF ToolStep
  <1>2. ASSUME NEW s \in LimitedTools, WindowSlides(s)
        PROVE  WindowOf(t)!Drop
    <2>1. /\ window[t] \in Nat /\ window[s] > 0
          /\ window'[t] = IF t = s THEN window[t] - 1 ELSE window[t]
      BY <1>2 DEF TypeOK, ToolTypeOK, WindowSlides
    <2> QED
      BY <2>1 DEF WindowOf!Drop
  <1>3. ASSUME NEW c \in Callers, BeginCall(c) PROVE UNCHANGED window[t]
    BY <1>3 DEF BeginCall
  <1>4. ASSUME NEW c \in Callers, SyncTimeout(c) \/ AsyncTimeout(c)
        PROVE  UNCHANGED window[t]
    BY <1>4 DEF SyncTimeout, AsyncTimeout, Conclude, gateVars
  <1>5. ASSUME NEW k \in Keys, KeyExpires(k) PROVE UNCHANGED window[t]
    BY <1>5 DEF KeyExpires
  <1>6. CASE UNCHANGED vars \/ UNCHANGED toolVars \/ Finished
    BY <1>6 DEF Finished, vars, toolVars, gateVars
  <1> QED
    BY <1>1, <1>2, <1>3, <1>4, <1>5, <1>6 DEF Next, ToolNext, WindowOf!Next

(* The window that the gate keeps of each limited tool implements the same   *)
(* abstract window as the limiter does, so the chokepoint relies on nothing  *)
(* of the limiter's but what the limiter is proved to promise.               *)
(* (Gate 3 of _prepare_execution.)                                           *)
THEOREM ImplementsWindow ==
  ASSUME NEW t \in LimitedTools
  PROVE  Spec => WindowOf(t)!Spec
  <1>1. Init => WindowOf(t)!Init
    BY WindowOfStart
  <1>2. TypeOK /\ [Next]_vars => [WindowOf(t)!Next]_(window[t])
    BY WindowOfStep
  <1> QED
    BY <1>1, <1>2, TypeCorrect, PTL DEF Spec, WindowOf!Spec

=============================================================================
