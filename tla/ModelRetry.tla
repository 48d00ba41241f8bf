---------------------------- MODULE ModelRetry ----------------------------
(***************************************************************************)
(* RetryModelAdapter (reliability/retry.py): the statistics of the last    *)
(* query, kept on an adapter that every session of an agent shares.  A     *)
(* query that overlaps another reads and writes the other's.               *)
(*                                                                         *)
(* The delays take no part.  query_async differs in that its coroutine may *)
(* run long after the call that resets the statistics.                     *)
(***************************************************************************)
EXTENDS Naturals, FiniteSets

CONSTANTS
  Queriers,   \* threads or tasks that query the adapter
  MaxRetries  \* policy.max_retries

ASSUME RetryAssumption == MaxRetries \in Nat

VARIABLES
  retryCount, \* retry_count
  lastError,  \* whether last_error holds an exception
  querying,   \* the queries under way
  attempts,   \* attempts[u]: len of the log of u's query
  overlapped, \* observed: queries under way that another has overlapped
  report      \* observed: how the last query ended, while nothing has begun since

retryVars == <<retryCount, lastError, querying, attempts, overlapped, report>>

NoReport == [outcome |-> "none", attempts |-> 0, alone |-> FALSE]

-----------------------------------------------------------------------------
(* Mutant: the count is left from the query before.                          *)
CountLeft == retryCount

CountAtStart == 0

(* query, or the call of query_async.                                        *)
BeginQuery(u) ==
  /\ u \notin querying
  /\ retryCount' = CountAtStart
  /\ lastError' = FALSE
  /\ querying' = querying \cup {u}
  /\ attempts' = [attempts EXCEPT ![u] = 0]
  /\ overlapped' = IF querying = {} THEN {} ELSE querying \cup {u}
  /\ report' = NoReport

(* A retryable exception with retries left: it is logged, and again.         *)
Retry(u) ==
  /\ u \in querying /\ attempts[u] < MaxRetries
  /\ attempts' = [attempts EXCEPT ![u] = @ + 1]
  /\ UNCHANGED <<retryCount, lastError, querying, overlapped, report>>

EndQuery(u, outcome) ==
  /\ u \in querying
  /\ querying' = querying \ {u}
  /\ overlapped' = overlapped \ {u}
  /\ report' = [outcome |-> outcome, attempts |-> attempts[u], alone |-> u \notin overlapped]
  /\ UNCHANGED attempts

AnswerQuery(u) ==
  /\ EndQuery(u, "answered")
  /\ retryCount' = attempts[u]
  /\ lastError' = (lastError \/ attempts[u] > 0)

(* RetryableError: one retryable exception more than there are retries.      *)
ExhaustRetries(u) ==
  /\ attempts[u] = MaxRetries
  /\ EndQuery(u, "exhausted")
  /\ retryCount' = MaxRetries
  /\ lastError' = TRUE

(* An exception that is not retryable passes through query untouched.        *)
QueryRaises(u) ==
  /\ EndQuery(u, "raised")
  /\ UNCHANGED <<retryCount, lastError>>

ResetStats ==
  /\ retryCount' = 0 /\ lastError' = FALSE
  /\ report' = NoReport
  /\ UNCHANGED <<querying, attempts, overlapped>>

RetryInit ==
  /\ retryCount = 0 /\ lastError = FALSE
  /\ querying = {} /\ attempts = [u \in Queriers |-> 0] /\ overlapped = {}
  /\ report = NoReport

RetryNext ==
  \/ \E u \in Queriers :
       BeginQuery(u) \/ Retry(u) \/ AnswerQuery(u) \/ ExhaustRetries(u) \/ QueryRaises(u)
  \/ ResetStats

RetrySpec == RetryInit /\ [][RetryNext]_retryVars

-----------------------------------------------------------------------------
RetryTypeOK ==
  /\ retryCount \in 0 .. MaxRetries /\ lastError \in BOOLEAN
  /\ querying \subseteq Queriers /\ overlapped \subseteq querying
  /\ attempts \in [Queriers -> 0 .. MaxRetries]

(* After a query that no other overlapped the statistics are its own: the    *)
(* retries it made, and an error if and only if one was retried or was the   *)
(* last; none after an exception that was not retryable, however many        *)
(* retries came before it.  (query, query_async.)                            *)
StatsBelong ==
  report.alone =>
    /\ retryCount = IF report.outcome = "raised" THEN 0 ELSE report.attempts
    /\ lastError = (\/ report.outcome = "exhausted"
                    \/ report.outcome = "answered" /\ report.attempts > 0)
=============================================================================
