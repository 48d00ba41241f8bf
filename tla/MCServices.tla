----------------------------- MODULE MCServices -----------------------------
(***************************************************************************)
(* Model checking of the services that share nothing with one another: a   *)
(* behaviour exercises the one that focus names and leaves the others in   *)
(* their initial state, so that their state spaces add up.                 *)
(***************************************************************************)
EXTENDS RateLimiter, EventLog, ApprovalStore, CircuitBreaker, ModelRetry, VaultCache,
        McpClient

CONSTANTS c1, c2, c3, t1, t2, r1, r2

VARIABLE focus

breakerVars == vars

services == <<rateVars, eventVars, approvalVars, breakerVars, retryVars, vaultVars,
             mcpVars, focus>>

MCCallers == {c1, c2, c3}
MCThreads == {t1, t2}
MCEmitters == {t1, t2}
MCQueriers == {t1, t2}
MCReaders == {t1, t2}
MCClients == {t1, t2}
MCRequests == {r1, r2}

MCInit ==
  /\ RateInit /\ EventInit /\ ApprovalInit /\ Init /\ RetryInit /\ VaultInit /\ McpInit
  /\ focus \in {"rate", "events", "approvals", "breaker", "retry", "vault", "mcp"}

(* The threads of the MCP client come to their end, or wait for ever.        *)
MCNext ==
  /\ UNCHANGED focus
  /\ \/ /\ focus = "rate" /\ RateNext
        /\ UNCHANGED <<eventVars, approvalVars, breakerVars, retryVars, vaultVars, mcpVars>>
     \/ /\ focus = "events" /\ EventNext
        /\ UNCHANGED <<rateVars, approvalVars, breakerVars, retryVars, vaultVars, mcpVars>>
     \/ /\ focus = "approvals" /\ ApprovalNext
        /\ UNCHANGED <<rateVars, eventVars, breakerVars, retryVars, vaultVars, mcpVars>>
     \/ /\ focus = "breaker" /\ Next
        /\ UNCHANGED <<rateVars, eventVars, approvalVars, retryVars, vaultVars, mcpVars>>
     \/ /\ focus = "retry" /\ RetryNext
        /\ UNCHANGED <<rateVars, eventVars, approvalVars, breakerVars, vaultVars, mcpVars>>
     \/ /\ focus = "vault" /\ VaultNext
        /\ UNCHANGED <<rateVars, eventVars, approvalVars, breakerVars, retryVars, mcpVars>>
     \/ /\ focus = "mcp" /\ (McpNext \/ UNCHANGED mcpVars)
        /\ UNCHANGED <<rateVars, eventVars, approvalVars, breakerVars, retryVars, vaultVars>>

(* BreakerFair, of the behaviours that exercise the breaker: in the others   *)
(* its actions are enabled and never taken.                                  *)
FocusedBreakerFair ==
  /\ WF_vars(focus = "breaker" /\ Elapse)
  /\ \A c \in Callers : /\ WF_vars(focus = "breaker" /\ Allow(c))
                        /\ SF_vars(focus = "breaker" /\ RecordSuccess(c))

MCSpec == MCInit /\ [][MCNext]_services /\ FocusedBreakerFair /\ McpFair
=============================================================================
