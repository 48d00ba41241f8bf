--------------------------- MODULE CircuitBreaker ---------------------------
(***************************************************************************)
(* reliability/circuit_breaker.py, between the threads that share one      *)
(* breaker.  A caller asks allow, makes its call outside the lock and      *)
(* records the outcome, so outcomes arrive in any order and may be older   *)
(* than the state they meet.  Nothing in src/ calls the breaker: the       *)
(* callers follow its docstring.                                           *)
(***************************************************************************)
EXTENDS Naturals, FiniteSets

CONSTANTS
  Callers,           \* threads that share the breaker
  FailureThreshold,  \* failure_threshold
  FailureBound       \* bound: _failure_count

ASSUME BreakerAssumption ==
  /\ FailureThreshold \in Nat \ {0}
  /\ FailureBound \in Nat

VARIABLES
  state,         \* _state
  failureCount,  \* _failure_count
  elapsed,       \* recovery_timeout_s have passed since _last_failure_time
  pc             \* pc[c]: "idle", in a "call", or in a "trial": a call that
                 \* allow let through although the circuit was not closed

vars == <<state, failureCount, elapsed, pc>>

States == {"closed", "open", "half_open"}

-----------------------------------------------------------------------------
(* Mutant: half-open lets nobody else through.                               *)
AllowsOneTrial == state = "closed" \/ (state = "open" /\ elapsed)

(* allow's answer.                                                           *)
Allows == state \in {"closed", "half_open"} \/ (state = "open" /\ elapsed)

(* allow, answering True; an open circuit becomes half-open.  The answer     *)
(* False changes nothing.                                                    *)
Allow(c) ==
  /\ pc[c] = "idle"
  /\ Allows
  /\ state' = IF state = "open" THEN "half_open" ELSE state
  /\ pc' = [pc EXCEPT ![c] = IF state = "closed" THEN "call" ELSE "trial"]
  /\ UNCHANGED <<failureCount, elapsed>>

CountAfterSuccess == 0

RecordSuccess(c) ==
  /\ pc[c] # "idle"
  /\ failureCount' = CountAfterSuccess
  /\ state' = "closed"
  /\ pc' = [pc EXCEPT ![c] = "idle"]
  /\ UNCHANGED elapsed

RecordFailure(c) ==
  /\ pc[c] # "idle"
  /\ failureCount < FailureBound
  /\ failureCount' = failureCount + 1
  /\ elapsed' = FALSE
  /\ state' = IF state = "half_open" \/ failureCount + 1 >= FailureThreshold
                THEN "open" ELSE state
  /\ pc' = [pc EXCEPT ![c] = "idle"]

(* The call ends with no outcome recorded: what was raised is not the        *)
(* service's failure.                                                        *)
Abandon(c) ==
  /\ pc[c] # "idle"
  /\ pc' = [pc EXCEPT ![c] = "idle"]
  /\ UNCHANGED <<state, failureCount, elapsed>>

Elapse ==
  /\ ~elapsed
  /\ elapsed' = TRUE
  /\ UNCHANGED <<state, failureCount, pc>>

(* reset; time.monotonic is past any timeout counted from 0.0.               *)
Reset ==
  /\ state' = "closed"
  /\ failureCount' = 0
  /\ elapsed' = TRUE
  /\ UNCHANGED pc

-----------------------------------------------------------------------------
Init ==
  /\ state = "closed"
  /\ failureCount = 0
  /\ elapsed = TRUE
  /\ pc = [c \in Callers |-> "idle"]

Next ==
  \/ \E c \in Callers : Allow(c) \/ RecordSuccess(c) \/ RecordFailure(c) \/ Abandon(c)
  \/ Elapse
  \/ Reset

Spec == Init /\ [][Next]_vars

(* Callers keep asking, time passes, and the service is not down for good:   *)
(* a caller that is let through again and again succeeds in the end.         *)
BreakerFair ==
  /\ WF_vars(Elapse)
  /\ \A c \in Callers : WF_vars(Allow(c)) /\ SF_vars(RecordSuccess(c))

FairSpec == Spec /\ BreakerFair

-----------------------------------------------------------------------------
TypeOK ==
  /\ state \in States
  /\ failureCount \in Nat
  /\ elapsed \in BOOLEAN
  /\ pc \in [Callers -> {"idle", "call", "trial"}]

(* The circuit is closed exactly while fewer than failure_threshold failures *)
(* have been recorded in a row, also when results of old calls arrive in a   *)
(* state that is no longer theirs.  (record_success, record_failure.)        *)
ClosedBelowThreshold == (state = "closed") <=> (failureCount < FailureThreshold)

(* A breaker that tripped closes again, although trials fail or end with     *)
(* nothing recorded.  (allow in OPEN and HALF_OPEN.)                         *)
Recovers == []<>(state = "closed")

=============================================================================
