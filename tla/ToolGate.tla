----------------------------- MODULE ToolGate -----------------------------
(***************************************************************************)
(* RuntimeEnvironment.call and call_async: permission, schema, idempotency *)
(* and rate gates, credential injection, execution under retry and timeout *)
(* (reliability/retry.py, reliability/timeout.py), and the record.         *)
(*                                                                         *)
(* The policy, the tools and the secret provider are the embedder's: their *)
(* answers are nondeterministic.  A call's argument dict is abstracted to  *)
(* its _idempotency_key.                                                   *)
(***************************************************************************)
EXTENDS EnvironmentState

CONSTANTS
  AsyncCallers,   \* callers that use call_async, each on an event loop of its own
  Tools,          \* names of registered tools
  UnknownTool,    \* a name no registered tool has
  KeyedTools,     \* tools with supports_idempotency_key
  LimitedTools,   \* tools with a rate_limit
  RetryTools,     \* idempotent tools with a retry_policy
  CredTools,      \* tools with requires_credentials, a broker being configured
  Keys, NoKey,    \* idempotency keys; an args dict without one
  RateLimit,      \* RateLimitPolicy.max_calls
  MaxRetries,     \* RetryPolicy.max_retries
  HasTimeout,     \* whether timeout_policy is set
  HasApprovalStore

ASSUME ToolGateAssumption ==
  /\ AsyncCallers \subseteq Callers
  /\ UnknownTool \notin Tools
  /\ KeyedTools \subseteq Tools
  /\ LimitedTools \subseteq Tools
  /\ RetryTools \subseteq Tools
  /\ CredTools \subseteq Tools
  /\ NoKey \notin Keys
  /\ RateLimit \in Nat
  /\ MaxRetries \in Nat
  /\ HasTimeout \in BOOLEAN
  /\ HasApprovalStore \in BOOLEAN

VARIABLES
  call,           \* call[c]: the tool call caller c is in, or NoCall
  cached,         \* keys with a live entry in the IdempotencyStore
  window,         \* window[t]: stamps of t inside the rate limiter's window
  requests,       \* requests the ApprovalStore has created
  keyRuns         \* keyRuns[c][k]: calls of c that ran a tool under key k to a
                  \* result, since the key's last entry expired (history)

gateVars == <<cached, window, requests, keyRuns>>
toolVars == <<call, gateVars>>

-----------------------------------------------------------------------------
(* DecisionEffect; "DENY_NO_STORE" is the DENY that the gate makes of a      *)
(* REQUIRE_APPROVAL when there is no approval store.                         *)
PolicyEffects == {"ALLOW", "DENY", "REQUIRE_APPROVAL", "PARTIAL_ALLOW", "MASK", "DEGRADE"}
Effects == PolicyEffects \union {"DENY_NO_STORE"}
Proceeds == {"ALLOW", "PARTIAL_ALLOW", "MASK"}

Calls == [tool : Tools \union {UnknownTool}, key : Keys \union {NoKey},
          effect : Effects, attempts : Nat, late : BOOLEAN]
NoCall == [tool |-> UnknownTool, key |-> NoKey, effect |-> "DENY",
           attempts |-> 0, late |-> FALSE]

(* Keys that matter for a tool: the code reads the key of keyed tools only.  *)
KeysOf(t) == IF t \in KeyedTools THEN Keys \union {NoKey} ELSE {NoKey}

(* The call returns to its caller with no exception.                         *)
Return(c) == Goto(c, "idle") /\ call' = [call EXCEPT ![c] = NoCall]

(* The call raises something other than BudgetExceeded.                      *)
Escape(c) == Goto(c, "lost") /\ call' = [call EXCEPT ![c] = NoCall]

-----------------------------------------------------------------------------
(* PermissionGate.evaluate's outcome for a policy decision.                  *)
Resolved(e) ==
  IF e = "REQUIRE_APPROVAL" /\ ~HasApprovalStore THEN "DENY_NO_STORE" ELSE e

(* InMemoryApprovalStore.create: each such decision makes a request.         *)
CreateRequest(e) == IF e = "REQUIRE_APPROVAL" THEN requests + 1 ELSE requests

(* _prepare_tool_call: find the tool and evaluate the policy, for an unknown *)
(* tool too.                                                                 *)
BeginCall(c) ==
  /\ pc[c] = "idle"
  /\ toolsBegun < ToolCallBound
  /\ \E t \in Tools \union {UnknownTool}, e \in PolicyEffects : \E k \in KeysOf(t) :
       /\ call' = [call EXCEPT ![c] = [NoCall EXCEPT !.tool = t, !.key = k,
                                                     !.effect = Resolved(e)]]
       /\ requests' = CreateRequest(Resolved(e))
  /\ toolsBegun' = toolsBegun + 1
  /\ Goto(c, "decided")
  /\ UNCHANGED <<events, meters, modelsBegun, cached, window, keyRuns>>

(* The event of a blocked call.  call replaces the effect of an unknown tool *)
(* by DENY; call_async keeps the policy's effect.  A DENY for want of an     *)
(* approval store is reported as approval_required (deny_block).             *)
BlockKind(c) ==
  LET e == call[c].effect IN
  IF call[c].tool = UnknownTool
    THEN IF c \in AsyncCallers /\ e = "REQUIRE_APPROVAL" THEN "approval" ELSE "refused"
    ELSE IF e = "DENY" THEN "refused" ELSE "approval"

(* _block_tool: the tool does not run, the call is not charged.              *)
Block(c) ==
  /\ pc[c] = "decided"
  /\ \/ call[c].tool = UnknownTool
     \/ call[c].effect \in {"DENY", "DENY_NO_STORE", "REQUIRE_APPROVAL"}
  /\ Emit(BlockKind(c))
  /\ Return(c)
  /\ UNCHANGED <<meters, begun, gateVars>>

-----------------------------------------------------------------------------
ToDegrade(c) ==
  /\ pc[c] = "decided"
  /\ call[c].tool \in Tools
  /\ call[c].effect = "DEGRADE"

(* _handle_degrade: no fallback in the decision, or one that is not found.   *)
DegradeFails(c) ==
  /\ ToDegrade(c)
  /\ Emit("refused")
  /\ Return(c)
  /\ UNCHANGED <<meters, begun, gateVars>>

(* _handle_degrade: the fallback gets a credential if it needs one; no gate  *)
(* applies to it.                                                            *)
Degrade(c) ==
  /\ ToDegrade(c)
  /\ \E fallback \in Tools :
       call' = [call EXCEPT ![c] = [NoCall EXCEPT !.tool = fallback, !.effect = "DEGRADE"]]
  /\ Goto(c, "fallback")
  /\ UNCHANGED <<events, meters, begun, gateVars>>

(* The broker does not hold the fallback's credential: issue_token's         *)
(* KeyError leaves the call.                                                 *)
DegradeWithoutCredential(c) ==
  /\ ToDegrade(c)
  /\ CredTools # {}
  /\ Escape(c)
  /\ UNCHANGED <<events, meters, begun, gateVars>>

FallbackReturns(c) ==
  /\ pc[c] = "fallback"
  /\ Goto(c, "emit")
  /\ UNCHANGED <<events, meters, begun, toolVars>>

(* The fallback runs outside any try: its exception leaves the call.         *)
FallbackRaises(c) ==
  /\ pc[c] = "fallback"
  /\ Escape(c)
  /\ UNCHANGED <<events, meters, begun, gateVars>>

-----------------------------------------------------------------------------
AtGates(c) ==
  /\ pc[c] = "decided"
  /\ call[c].tool \in Tools
  /\ call[c].effect \in Proceeds

(* Gate 1: the schema validator finds violations.                            *)
SchemaRejects(c) ==
  /\ AtGates(c)
  /\ Emit("refused")
  /\ Return(c)
  /\ UNCHANGED <<meters, begun, gateVars>>

(* The key after PARTIAL_ALLOW's filter, which may drop it with the fields   *)
(* the decision does not list.                                               *)
KeyAfterFilter(c) ==
  IF call[c].effect = "PARTIAL_ALLOW" THEN {call[c].key, NoKey} ELSE {call[c].key}

(* Gate 2, hit: the stored result is returned; nothing runs.                 *)
CacheHit(c) ==
  /\ AtGates(c)
  /\ call[c].key \in cached
  /\ Emit("refused")
  /\ Return(c)
  /\ UNCHANGED <<meters, begun, gateVars>>

(* Gate 2, miss or no key.  The store is not locked from here to the put.    *)
CacheMiss(c) ==
  /\ AtGates(c)
  /\ \E k \in KeyAfterFilter(c) :
       /\ k \notin cached
       /\ call' = [call EXCEPT ![c].key = k]
  /\ Goto(c, "missed")
  /\ UNCHANGED <<events, meters, begun, gateVars>>

(* RateLimiter.check's comparison; a tool without a rate_limit has room.     *)
Room(t) == t \in LimitedTools => window[t] < RateLimit

(* Gate 3: the window is full.                                               *)
RateRejects(c) ==
  /\ pc[c] = "missed"
  /\ ~Room(call[c].tool)
  /\ Emit("refused")
  /\ Return(c)
  /\ UNCHANGED <<meters, begun, gateVars>>

(* Gate 3 passed: RateLimiter.check has stamped the call.                    *)
StampTool(c) ==
  /\ pc[c] = "missed"
  /\ Room(call[c].tool)
  /\ window' = [t \in LimitedTools |-> IF t = call[c].tool THEN window[t] + 1 ELSE window[t]]

(* Then the input mask (of payload fields, never of the key) and, if the     *)
(* tool needs one, a credential.                                             *)
Admit(c) ==
  /\ StampTool(c)
  /\ Goto(c, "ready")
  /\ UNCHANGED <<events, meters, begun, call, cached, requests, keyRuns>>

(* The broker does not hold the credential: issue_token's KeyError leaves    *)
(* the call, whose stamp stays.                                              *)
AdmitWithoutCredential(c) ==
  /\ StampTool(c)
  /\ call[c].tool \in CredTools
  /\ Escape(c)
  /\ UNCHANGED <<events, meters, begun, cached, requests, keyRuns>>

-----------------------------------------------------------------------------
(* Mutant: the loop variable does not advance.                               *)
SameAttempt(n) == n

(* with_retry's `for attempt in range(...)`.                                 *)
NextAttempt(n) == n + 1

(* An attempt starts: the first one, or one after a retry's backoff.         *)
Attempt(c) ==
  /\ pc[c] \in {"ready", "sleeping"}
  /\ call' = [call EXCEPT ![c].attempts = NextAttempt(@)]
  /\ Goto(c, "running")
  /\ UNCHANGED <<events, meters, begun, gateVars>>

(* The execution ends with a result, the tool's own or one made of an error. *)
Conclude(c, diagnosed) ==
  /\ Goto(c, "executed")
  /\ call' = [call EXCEPT ![c].attempts = 0, ![c].late = FALSE]
  /\ IF diagnosed THEN Emit("diagnostic") ELSE UNCHANGED events
  /\ keyRuns' = [keyRuns EXCEPT ![c] = [k \in Keys |->
                   IF k = call[c].key THEN @[k] + 1 ELSE @[k]]]
  /\ UNCHANGED <<meters, begun, cached, window, requests>>

(* execute returns a ToolResult.  If the timer has fired, with_timeout still *)
(* waits for the worker and then raises OperationTimedOut.                   *)
AttemptReturns(c) ==
  /\ pc[c] = "running"
  /\ Conclude(c, call[c].late)

(* with_retry: another attempt is due when attempt (0-based) < max_retries.  *)
RetriesLeft(c) == call[c].tool \in RetryTools /\ call[c].attempts <= MaxRetries

(* execute raises a retryable exception and with_retry backs off.            *)
BackOff(c) ==
  /\ pc[c] = "running"
  /\ RetriesLeft(c)
  /\ Goto(c, "sleeping")
  /\ UNCHANGED <<events, meters, begun, toolVars>>

(* The last attempt raises one: RetryableError, then tool.retry_exhausted.   *)
RetriesExhausted(c) ==
  /\ pc[c] = "running"
  /\ call[c].tool \in RetryTools
  /\ ~RetriesLeft(c)
  /\ Conclude(c, TRUE)

(* execute raises what is not retried, translated into a result.  A tool's   *)
(* own timeout error is reported as a timeout of the call.                   *)
AttemptFails(c) ==
  /\ pc[c] = "running"
  /\ \E diagnosed \in {call[c].late, TRUE} : Conclude(c, diagnosed)

(* execute raises an AssertionError that is not retried: _execute re-raises  *)
(* it, unless a timeout has taken its place.                                 *)
AssertionRaised(c) ==
  /\ pc[c] = "running"
  /\ ~call[c].late
  /\ Escape(c)
  /\ UNCHANGED <<events, meters, begun, gateVars>>

(* with_timeout's timer fires: the worker, and its retries, run on.          *)
SyncTimeout(c) ==
  /\ HasTimeout
  /\ c \notin AsyncCallers
  /\ pc[c] \in {"running", "sleeping"}
  /\ ~call[c].late
  /\ call' = [call EXCEPT ![c].late = TRUE]
  /\ UNCHANGED <<pc, events, meters, begun, gateVars>>

(* asyncio.wait_for cancels at a suspension point: only the backoff sleep.   *)
AsyncTimeout(c) ==
  /\ HasTimeout
  /\ c \in AsyncCallers
  /\ pc[c] = "sleeping"
  /\ Conclude(c, TRUE)

-----------------------------------------------------------------------------
(* Mutant: the result is not stored.                                         *)
StoreNothing(c) == cached

(* IdempotencyStore.put, for any result: errors and timeouts too.            *)
Stored(c) == cached \union ({call[c].key} \ {NoKey})

(* _finalize_execution up to the output mask.                                *)
PutResult(c) ==
  /\ pc[c] = "executed"
  /\ cached' = Stored(c)
  /\ Goto(c, "emit")
  /\ UNCHANGED <<events, meters, begun, call, window, requests, keyRuns>>

(* Mutant: the execution event of a degraded call is left out.               *)
EmitUnlessDegraded(c) ==
  IF call[c].effect = "DEGRADE" THEN UNCHANGED events ELSE Emit("executed")

(* The terminal event of an executed call.                                   *)
EmitExecuted(c) == Emit("executed")

(* _record_tool_call and _handle_degrade: the event, outside _state_lock.    *)
RecordEvent(c) ==
  /\ pc[c] = "emit"
  /\ EmitExecuted(c)
  /\ Goto(c, "track")
  /\ UNCHANGED <<meters, begun, toolVars>>

(* track_tool_call under _state_lock; BudgetExceeded is raised after the run.*)
TrackToolCall(c) ==
  /\ pc[c] = "track"
  /\ Charge(c, 1, 0, "idle", "over")
  /\ call' = [call EXCEPT ![c] = NoCall]
  /\ UNCHANGED <<events, begun, gateVars>>

-----------------------------------------------------------------------------
(* An entry leaves the store: it outlives its TTL, and get, has or           *)
(* cleanup_expired drops it, or clear does.  The history of runs under the   *)
(* key restarts with it.                                                     *)
KeyExpires(k) ==
  /\ k \in cached
  /\ cached' = cached \ {k}
  /\ keyRuns' = [c \in Callers |-> [keyRuns[c] EXCEPT ![k] = 0]]
  /\ UNCHANGED <<envVars, call, window, requests>>

(* Time passes: the oldest stamp of a tool leaves the sliding window.        *)
WindowSlides(t) ==
  /\ window[t] > 0
  /\ window' = [window EXCEPT ![t] = @ - 1]
  /\ UNCHANGED <<envVars, call, cached, requests, keyRuns>>

-----------------------------------------------------------------------------
ToolInit ==
  /\ call = [c \in Callers |-> NoCall]
  /\ cached = {}
  /\ window = [t \in LimitedTools |-> 0]
  /\ requests = 0
  /\ keyRuns = [c \in Callers |-> [k \in Keys |-> 0]]

(* The steps of a call that has begun, the timer apart: what the scheduler   *)
(* and the tools owe it.                                                     *)
ToolStep(c) ==
  \/ Block(c) \/ DegradeFails(c) \/ Degrade(c) \/ DegradeWithoutCredential(c)
  \/ FallbackReturns(c) \/ FallbackRaises(c)
  \/ SchemaRejects(c) \/ CacheHit(c) \/ CacheMiss(c) \/ RateRejects(c)
  \/ Admit(c) \/ AdmitWithoutCredential(c)
  \/ Attempt(c) \/ AttemptReturns(c) \/ BackOff(c) \/ RetriesExhausted(c)
  \/ AttemptFails(c) \/ AssertionRaised(c)
  \/ PutResult(c) \/ RecordEvent(c) \/ TrackToolCall(c)

ToolNext ==
  \/ \E c \in Callers : BeginCall(c) \/ ToolStep(c) \/ SyncTimeout(c) \/ AsyncTimeout(c)
  \/ \E k \in Keys : KeyExpires(k)
  \/ \E t \in LimitedTools : WindowSlides(t)

ToolTypeOK ==
  /\ call \in [Callers -> Calls]
  /\ cached \subseteq Keys
  /\ window \in [LimitedTools -> 0..RateLimit]
  /\ requests \in Nat
  /\ keyRuns \in [Callers -> [Keys -> Nat]]
=============================================================================
