------------------------------ MODULE Sessions ------------------------------
(***************************************************************************)
(* core/session.py: sessions of one agent, each run by a thread of its own *)
(* (server/app.py), that share a credential broker and one conversation.   *)
(* A strategy is any sequence of tool calls that ends in an answer or an   *)
(* exception; a call is what it does with credentials.                     *)
(***************************************************************************)
EXTENDS Credentials, FiniteSetsExt

CONSTANTS
  ToolsOf,     \* ToolsOf[s]: the names in session.tools, in their order
  MaxRetries,  \* RetryPolicy.max_retries of a tool
  CallBound,   \* bound: credentialed tool calls of a session
  ClearBound   \* bound: clears of the conversation

ASSUME SessionsAssumption ==
  /\ ToolsOf \in [Sessions -> Seq(Tools)]
  /\ MaxRetries \in Nat /\ CallBound \in Nat /\ ClearBound \in Nat
  /\ "cleared" \notin Sessions   \* told from a turn in log

VARIABLES
  pc,            \* pc[s]: the point of run at which session s stands
  calls,         \* calls[s]: calls begun
  ruleToken,     \* "_credential_token" of the rule's fallback_args, 0: none
  arg,           \* arg[s]: "_credential_token" of the call's own args, 0: the
                 \* call has the rule's dict
  using,         \* using[s]: the token that the tool took from its arguments
  read,          \* read[s]: _uses as use read it
  attempts,      \* attempts[s]: retries of the call
  conversation,  \* stored history: the turns, named by their sessions
  previous,      \* previous[s]: history as _save_conversation_history loaded it
  stage,         \* stage[s]: 0 for cleanup_expired, i for the i-th tool
  seen,          \* seen[s]: keys of the dict when the iteration began
  hits,          \* hits[s]: those of them to be removed
  doomed,        \* doomed[s]: the collected ids not yet deleted
  answered,      \* history: sessions whose strategy returned
  log,           \* history: saves and clears of the conversation, in order
  loadedAt,      \* history: length of log when previous[s] was loaded
  disturbed      \* history: sessions that others' changes of the dict met
                 \* during their cleanup

callVars == <<calls, ruleToken, arg, using, read, attempts>>
historyVars == <<conversation, previous, log, loadedAt>>
cleanupVars == <<stage, seen, hits, doomed>>
vars == <<credentialVars, pc, callVars, historyVars, cleanupVars, answered, disturbed>>

Cleared == "cleared"
CleanupPoints == {"collect", "collecting", "deleting"}
Points == {"running", "called", "holding", "used", "checking", "attempted",
           "answered", "loaded", "ended", "raised"} \union CleanupPoints

Step(s, from, to) == pc[s] = from /\ pc' = [pc EXCEPT ![s] = to]

(* The sessions whose iteration or deletion another one's change meets.      *)
Disturb(s) ==
  disturbed' = disturbed \union {u \in Sessions \ {s} : pc[u] \in CleanupPoints}

-----------------------------------------------------------------------------
(* _maybe_inject_credential, into the call's own arguments.                  *)
Inject(s) ==
  /\ Step(s, "running", "called")
  /\ calls[s] < CallBound
  /\ \E i \in DOMAIN ToolsOf[s] : Issue(s, ToolsOf[s][i], FALSE)
  /\ arg' = [arg EXCEPT ![s] = Len(tokens) + 1]
  /\ calls' = [calls EXCEPT ![s] = @ + 1]
  /\ Disturb(s)
  /\ UNCHANGED <<ruleToken, using, read, attempts, historyVars, cleanupVars, answered>>

(* The same for a fallback tool whose rule has fallback_args: the dict is    *)
(* the rule's, one for all calls that the rule degrades.                     *)
InjectIntoRule(s) ==
  /\ Step(s, "running", "called")
  /\ calls[s] < CallBound
  /\ \E i \in DOMAIN ToolsOf[s] : Issue(s, ToolsOf[s][i], TRUE)
  /\ ruleToken' = Len(tokens) + 1
  /\ arg' = [arg EXCEPT ![s] = 0]
  /\ calls' = [calls EXCEPT ![s] = @ + 1]
  /\ Disturb(s)
  /\ UNCHANGED <<using, read, attempts, historyVars, cleanupVars, answered>>

(* The tool takes the token from its arguments.                              *)
TakeToken(s) ==
  /\ Step(s, "called", "holding")
  /\ using' = [using EXCEPT ![s] = IF arg[s] = 0 THEN ruleToken ELSE arg[s]]
  /\ UNCHANGED <<credentialVars, calls, ruleToken, arg, read, attempts, historyVars,
                 cleanupVars, answered, disturbed>>

(* get_secret of a token that has not expired; validate_token asks besides   *)
(* that it is active.  Both go on with use, whose first step is the read.    *)
BeginUse(s) ==
  /\ Step(s, "holding", "used")
  /\ IsValid(using[s])
  /\ read' = [read EXCEPT ![s] = tokens[using[s]].uses]
  /\ UNCHANGED <<credentialVars, calls, ruleToken, arg, using, attempts, historyVars,
                 cleanupVars, answered, disturbed>>

(* The tool does not ask, or is refused by get_secret or validate_token.     *)
NoUse(s) ==
  /\ Step(s, "holding", "attempted")
  /\ using' = [using EXCEPT ![s] = 0]
  /\ UNCHANGED <<credentialVars, calls, ruleToken, arg, read, attempts, historyVars, cleanupVars, answered, disturbed>>

CountUse(s) ==
  /\ Step(s, "used", "checking")
  /\ WriteUses(using[s], read[s] + 1)
  /\ read' = [read EXCEPT ![s] = 0]
  /\ UNCHANGED <<calls, ruleToken, arg, using, attempts, historyVars, cleanupVars, answered, disturbed>>

EndUse(s) ==
  /\ Step(s, "checking", "attempted")
  /\ CheckUses(s, using[s])
  /\ using' = [using EXCEPT ![s] = 0]
  /\ UNCHANGED <<calls, ruleToken, arg, read, attempts, historyVars, cleanupVars, answered, disturbed>>

(* with_retry executes the tool again with the same arguments; a fallback    *)
(* is not retried.                                                           *)
Retry(s) ==
  /\ Step(s, "attempted", "called")
  /\ arg[s] # 0
  /\ attempts[s] < MaxRetries
  /\ attempts' = [attempts EXCEPT ![s] = @ + 1]
  /\ UNCHANGED <<credentialVars, calls, ruleToken, arg, using, read, historyVars,
                 cleanupVars, answered, disturbed>>

(* The call's own variables are gone with it.                                *)
Forget(s) ==
  /\ arg' = [arg EXCEPT ![s] = 0]
  /\ using' = [using EXCEPT ![s] = 0]
  /\ read' = [read EXCEPT ![s] = 0]
  /\ attempts' = [attempts EXCEPT ![s] = 0]

CallReturns(s) ==
  /\ Step(s, "attempted", "running")
  /\ Forget(s)
  /\ UNCHANGED <<credentialVars, calls, ruleToken, historyVars, cleanupVars, answered, disturbed>>

(* The call, the budget or the strategy raises: run raises too, and skips    *)
(* _finalize_run.                                                            *)
StrategyRaises(s) ==
  /\ Step(s, "running", "raised") \/ Step(s, "attempted", "raised")
  /\ Forget(s)
  /\ UNCHANGED <<credentialVars, calls, ruleToken, historyVars, cleanupVars, answered, disturbed>>

StrategyReturns(s) ==
  /\ Step(s, "running", "answered")
  /\ answered' = answered \union {s}
  /\ UNCHANGED <<credentialVars, callVars, historyVars, cleanupVars, disturbed>>

-----------------------------------------------------------------------------
(* _save_conversation_history loads the history again ...                    *)
LoadPrevious(s) ==
  /\ Step(s, "answered", "loaded")
  /\ previous' = [previous EXCEPT ![s] = conversation]
  /\ loadedAt' = [loadedAt EXCEPT ![s] = Len(log)]
  /\ UNCHANGED <<credentialVars, callVars, conversation, log, cleanupVars, answered, disturbed>>

(* Mutant: the current turn only is saved.                                   *)
NewMessagesOnly(s) == <<s>>

NewMessages(s) == Append(previous[s], s)

(* ... and replaces the stored one by it and the current turn.               *)
SaveTurn(s) ==
  /\ Step(s, "loaded", "collect")
  /\ conversation' = NewMessages(s)
  /\ log' = Append(log, s)
  /\ previous' = [previous EXCEPT ![s] = <<>>]
  /\ UNCHANGED <<credentialVars, callVars, loadedAt, cleanupVars, answered, disturbed>>

(* Mutant: clear does not find the conversation.                             *)
AfterClearKept == conversation

AfterClear == <<>>

(* InMemoryConversationStore.clear, by the embedder; clearing an empty       *)
(* conversation changes nothing.                                             *)
ClearConversation ==
  /\ conversation # <<>>
  /\ Cardinality({i \in DOMAIN log : log[i] = Cleared}) < ClearBound
  /\ conversation' = AfterClear
  /\ log' = Append(log, Cleared)
  /\ UNCHANGED <<credentialVars, pc, callVars, previous, loadedAt, cleanupVars, answered,
                 disturbed>>

-----------------------------------------------------------------------------
(* Mutant: the last tool is left out.                                        *)
LastStageEarly(s) == IF ToolsOf[s] = <<>> THEN 0 ELSE Len(ToolsOf[s]) - 1

LastStage(s) == Len(ToolsOf[s])

(* cleanup_expired or the next revoke_all_for_tool begins; after the last    *)
(* one the session emits session.end and run returns.                        *)
NextStage(s) ==
  IF stage[s] = LastStage(s)
    THEN pc' = [pc EXCEPT ![s] = "ended"] /\ UNCHANGED stage
    ELSE pc' = [pc EXCEPT ![s] = "collect"] /\ stage' = [stage EXCEPT ![s] = @ + 1]

(* What the list comprehension of this stage collects.                       *)
Collects(s, t) ==
  IF stage[s] = 0 THEN ~IsValid(t) ELSE tokens[t].tool = ToolsOf[s][stage[s]]

(* The iteration over the dict begins; over an empty one it is over at once. *)
BeginCollect(s) ==
  /\ pc[s] = "collect"
  /\ IF active = {}
       THEN NextStage(s) /\ UNCHANGED <<seen, hits>>
       ELSE /\ pc' = [pc EXCEPT ![s] = "collecting"]
            /\ seen' = [seen EXCEPT ![s] = active]
            /\ hits' = [hits EXCEPT ![s] = {t \in active : Collects(s, t)}]
            /\ UNCHANGED stage
  /\ UNCHANGED <<credentialVars, callVars, historyVars, doomed, answered, disturbed>>

(* Mutant: the tokens are deleted while the dict is iterated.                *)
SizeChangedByDeleting(s, found) == found # {}

(* "dictionary changed size during iteration".                               *)
SizeChanged(s, found) == Cardinality(active) # Cardinality(seen[s])

(* What the iteration may have collected: what was there throughout, and any *)
(* token that came, went or expired meanwhile.                               *)
Collected(s) ==
  {found \in SUBSET (seen[s] \union active) :
     /\ hits[s] \intersect active \subseteq found
     /\ \A t \in found : Collects(s, t)}

EndCollect(s) ==
  /\ Step(s, "collecting", "deleting")
  /\ \E found \in Collected(s) :
       /\ ~SizeChanged(s, found)
       /\ doomed' = [doomed EXCEPT ![s] = found]
  /\ seen' = [seen EXCEPT ![s] = {}]
  /\ hits' = [hits EXCEPT ![s] = {}]
  /\ UNCHANGED <<credentialVars, callVars, historyVars, stage, answered, disturbed>>

(* RuntimeError out of the iteration, also when the size has changed twice.  *)
IterationRaises(s) ==
  /\ Step(s, "collecting", "raised")
  /\ active # seen[s] \/ \E found \in Collected(s) : SizeChanged(s, found)
  /\ seen' = [seen EXCEPT ![s] = {}]
  /\ hits' = [hits EXCEPT ![s] = {}]
  /\ UNCHANGED <<credentialVars, callVars, historyVars, stage, doomed, answered, disturbed>>

(* del of the next collected id.                                             *)
DeleteToken(s) ==
  /\ pc[s] = "deleting"
  /\ doomed[s] # {}
  /\ LET t == Min(doomed[s]) IN
       /\ t \in active
       /\ active' = active \ {t}
       /\ doomed' = [doomed EXCEPT ![s] = @ \ {t}]
  /\ Disturb(s)
  /\ UNCHANGED <<tokens, expired, grants, pc, callVars, historyVars, stage, seen, hits, answered>>

(* KeyError: another session deleted it first.                               *)
DeleteRaises(s) ==
  /\ Step(s, "deleting", "raised")
  /\ doomed[s] # {} /\ Min(doomed[s]) \notin active
  /\ doomed' = [doomed EXCEPT ![s] = {}]
  /\ UNCHANGED <<credentialVars, callVars, historyVars, stage, seen, hits, answered, disturbed>>

EndStage(s) ==
  /\ pc[s] = "deleting"
  /\ doomed[s] = {}
  /\ NextStage(s)
  /\ UNCHANGED <<credentialVars, callVars, historyVars, seen, hits, doomed, answered, disturbed>>

-----------------------------------------------------------------------------
(* An operator revokes; the clock expires a token.                           *)
Operator ==
  /\ RevokeAll \/ \E t \in Issued : RevokeToken(t)
  /\ disturbed' = disturbed \union {u \in Sessions : pc[u] \in CleanupPoints}
  /\ UNCHANGED <<pc, callVars, historyVars, cleanupVars, answered>>

Clock ==
  /\ \E t \in Issued : Expire(t)
  /\ UNCHANGED <<pc, callVars, historyVars, cleanupVars, answered, disturbed>>

Finished == (\A s \in Sessions : pc[s] \in {"ended", "raised"}) /\ UNCHANGED vars

Init ==
  /\ CredentialsInit
  /\ pc = [s \in Sessions |-> "running"]
  /\ calls = [s \in Sessions |-> 0]
  /\ ruleToken = 0
  /\ arg = [s \in Sessions |-> 0]
  /\ using = [s \in Sessions |-> 0]
  /\ read = [s \in Sessions |-> 0]
  /\ attempts = [s \in Sessions |-> 0]
  /\ conversation = <<>>
  /\ previous = [s \in Sessions |-> <<>>]
  /\ stage = [s \in Sessions |-> 0]
  /\ seen = [s \in Sessions |-> {}]
  /\ hits = [s \in Sessions |-> {}]
  /\ doomed = [s \in Sessions |-> {}]
  /\ answered = {}
  /\ log = <<>>
  /\ loadedAt = [s \in Sessions |-> 0]
  /\ disturbed = {}

Run(s) ==
  \/ Inject(s) \/ InjectIntoRule(s) \/ TakeToken(s) \/ BeginUse(s)
  \/ NoUse(s) \/ CountUse(s) \/ EndUse(s) \/ Retry(s) \/ CallReturns(s)
  \/ StrategyRaises(s) \/ StrategyReturns(s)

Finalize(s) ==
  \/ LoadPrevious(s) \/ SaveTurn(s) \/ BeginCollect(s) \/ EndCollect(s)
  \/ IterationRaises(s) \/ DeleteToken(s) \/ DeleteRaises(s) \/ EndStage(s)

Next ==
  \/ \E s \in Sessions : Run(s) \/ Finalize(s)
  \/ ClearConversation \/ Operator \/ Clock \/ Finished

Spec == Init /\ [][Next]_vars

-----------------------------------------------------------------------------
TypeOK ==
  /\ CredentialsTypeOK
  /\ pc \in [Sessions -> Points]
  /\ calls \in [Sessions -> Nat] /\ attempts \in [Sessions -> 0..MaxRetries]
  /\ ruleToken \in Issued \union {0}
  /\ arg \in [Sessions -> Issued \union {0}]
  /\ using \in [Sessions -> Issued \union {0}]
  /\ read \in [Sessions -> Nat]
  /\ conversation \in Seq(Sessions)
  /\ previous \in [Sessions -> Seq(Sessions)]
  /\ stage \in [Sessions -> Nat] /\ \A s \in Sessions : stage[s] <= Len(ToolsOf[s])
  /\ seen \in [Sessions -> SUBSET Issued] /\ hits \in [Sessions -> SUBSET Issued]
  /\ doomed \in [Sessions -> SUBSET Issued]
  /\ answered \subseteq Sessions /\ disturbed \subseteq Sessions
  /\ log \in Seq(Sessions \union {Cleared})
  /\ loadedAt \in [Sessions -> Nat]

(* One use per token: a session is never allowed to use a token twice, by a  *)
(* retry or otherwise, and only a token in a rule's dict reaches another     *)
(* session than its own.  (ScopedToken.use, max_uses=1.)                     *)
UsedOnce ==
  \A t \in Issued, s \in Sessions :
    /\ grants[t][s] <= 1
    /\ grants[t][s] > 0 => s = tokens[t].issuer \/ tokens[t].inRule

(* A session that ended leaves none of its tokens behind.                    *)
(* (_cleanup_credentials.)                                                   *)
EndedLeaveNoTokens ==
  \A t \in active : pc[tokens[t].issuer] # "ended"

(* Only what other threads do to the broker during the cleanup can take an   *)
(* answer from its caller.  (cleanup_expired, revoke_all_for_tool.)          *)
AnswerLostOnlyByRace ==
  \A s \in answered : pc[s] = "raised" => s \in disturbed

(* After the event at i: a clear, or a save of what was loaded before i.     *)
Overwritten(i) ==
  \E j \in DOMAIN log : j > i /\ (log[j] = Cleared \/ loadedAt[log[j]] < i)

(* A turn that was saved is in the conversation, unless it was cleared or a  *)
(* session saved over it that had loaded before.  (_save_conversation_history.) *)
TurnsKept ==
  \A i \in DOMAIN log :
    log[i] = Cleared \/ Overwritten(i) \/ \E k \in DOMAIN conversation : conversation[k] = log[i]

(* A cleared turn comes back only with a session that loaded before the      *)
(* clear and saved after it.                                                 *)
ClearedStayCleared ==
  \A i, j \in DOMAIN log :
    /\ i < j /\ log[j] = Cleared
    /\ \E k \in DOMAIN conversation : conversation[k] = log[i]
    => \E n \in DOMAIN log : n > j /\ log[n] # Cleared /\ loadedAt[log[n]] < j

-----------------------------------------------------------------------------
=============================================================================
