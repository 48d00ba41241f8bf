--------------------------- MODULE SessionsProofs ---------------------------
(***************************************************************************)
(* For any number of sessions, tools, retries and clears: a token of one    *)
(* use is used once by whoever holds it; a saved turn is lost to an         *)
(* overlapping save or a clear only, and a cleared one comes back with an   *)
(* overlapping save only; a session that ended leaves no token behind, and  *)
(* loses its answer only to what others do to the broker in its cleanup.    *)
(***************************************************************************)
EXTENDS Sessions, OrderLemmas, SequenceTheorems, TLAPS

InCall == {"called", "holding", "used", "checking", "attempted"}
Holding == {"holding", "used", "checking"}

(* A token in a call's own arguments is its session's alone: nobody else     *)
(* writes the counter between a read and the write that follows.             *)
OwnCall(s) ==
  pc[s] \in InCall /\ arg[s] # 0 =>
    /\ arg[s] \in Issued /\ tokens[arg[s]].issuer = s /\ ~tokens[arg[s]].inRule
    /\ pc[s] \in Holding => using[s] = arg[s]
    /\ pc[s] = "used" => read[s] = tokens[arg[s]].uses
    /\ pc[s] = "checking" =>
         /\ tokens[arg[s]].uses > 0
         /\ grants[arg[s]][s] > 0 => tokens[arg[s]].uses > 1

(* A token in a rule's dict is taken by a session once: its next call that   *)
(* the rule degrades finds a later one there.                                *)
RuleCall(s) ==
  pc[s] \in InCall /\ arg[s] = 0 =>
    /\ pc[s] = "called" => ruleToken # 0 /\ grants[ruleToken][s] = 0
    /\ pc[s] \in Holding =>
         using[s] \in Issued /\ tokens[using[s]].inRule /\ grants[using[s]][s] = 0

UseInv ==
  /\ \A t \in TokenIds \ Issued, s \in Sessions : grants[t][s] = 0
  /\ ruleToken # 0 => tokens[ruleToken].inRule
  /\ \A t \in Issued, s \in Sessions :
       grants[t][s] > 0 /\ ~tokens[t].inRule => tokens[t].uses > 0
  /\ \A s \in Sessions : OwnCall(s) /\ RuleCall(s)
  /\ UsedOnce

SavedPoints == CleanupPoints \union {"ended", "raised"}

(* Where the earlier turns are: overwritten, in what a session has loaded,   *)
(* or in the conversation.                                                   *)
TurnsInv ==
  /\ \A i \in DOMAIN log : log[i] # Cleared => pc[log[i]] \in SavedPoints
  /\ \A s \in Sessions : pc[s] = "loaded" =>
       /\ loadedAt[s] <= Len(log)
       /\ \A i \in 1..loadedAt[s] :
            log[i] = Cleared \/ Overwritten(i)
              \/ \E k \in DOMAIN previous[s] : previous[s][k] = log[i]
  /\ TurnsKept

-----------------------------------------------------------------------------
LEMMA TokensTyped ==
  ASSUME CredentialsTypeOK
  PROVE  /\ Len(tokens) \in Nat /\ Issued = 1..Len(tokens) /\ Issued \subseteq TokenIds
         /\ \A t \in Issued : tokens[t] \in TokenType
  BY CredentialsAssumption DEF CredentialsTypeOK, Issued, TokenIds

(* A new token follows the others and leaves them as they are.               *)
LEMMA IssueEffect ==
  ASSUME CredentialsTypeOK, NEW s \in Sessions, NEW tool \in Tools, NEW b \in BOOLEAN,
         Issue(s, tool, b)
  PROVE  /\ CredentialsTypeOK'
         /\ Len(tokens) + 1 \in TokenIds \ Issued
         /\ Issued' = Issued \union {Len(tokens) + 1}
         /\ \A t \in Issued : tokens'[t] = tokens[t]
         /\ tokens'[Len(tokens) + 1] = [tool |-> tool, uses |-> 0, issuer |-> s, inRule |-> b]
<1> DEFINE new == [tool |-> tool, uses |-> 0, issuer |-> s, inRule |-> b]
<1>1. new \in TokenType
  BY DEF TokenType
<1>2. /\ tokens \in Seq(TokenType) /\ tokens' = Append(tokens, new) /\ Len(tokens) < TokenBound
      /\ active \subseteq Issued /\ expired \subseteq Issued
      /\ active' = active \union {Len(tokens) + 1}
      /\ UNCHANGED <<expired, grants>>
      /\ grants \in [TokenIds -> [Sessions -> Nat]]
  BY DEF Issue, CredentialsTypeOK
<1> HIDE DEF new
<1>3. /\ tokens' \in Seq(TokenType) /\ Len(tokens') = Len(tokens) + 1 /\ Len(tokens) \in Nat
      /\ \A t \in 1..Len(tokens) : tokens'[t] = tokens[t]
      /\ tokens'[Len(tokens) + 1] = new
  BY <1>1, <1>2, AppendProperties, LenProperties
<1>4. Issued = 1..Len(tokens) /\ Issued' = 1..(Len(tokens) + 1)
  BY <1>2, <1>3, LenProperties DEF Issued
<1>5. Len(tokens) + 1 \in TokenIds \ Issued /\ Issued' = Issued \union {Len(tokens) + 1}
  BY <1>2, <1>3, <1>4, CredentialsAssumption DEF TokenIds
<1>6. CredentialsTypeOK'
  <2>1. Len(tokens') <= TokenBound
    BY <1>2, <1>3, CredentialsAssumption
  <2>2. active' \subseteq Issued' /\ expired' \subseteq Issued'
    BY <1>2, <1>5
  <2> QED
    BY <1>2, <1>3, <2>1, <2>2 DEF CredentialsTypeOK
<1> QED
  BY <1>3, <1>4, <1>5, <1>6 DEF new

(* Writing a counter changes no more than it.                                *)
LEMMA WriteEffect ==
  ASSUME CredentialsTypeOK, NEW t, NEW n \in Nat, WriteUses(t, n)
  PROVE  /\ CredentialsTypeOK'
         /\ Issued' = Issued
         /\ \A u \in Issued : u # t => tokens'[u] = tokens[u]
         /\ t \in Issued => /\ tokens'[t].uses = n
                            /\ tokens'[t].issuer = tokens[t].issuer
                            /\ tokens'[t].inRule = tokens[t].inRule
                            /\ tokens'[t].tool = tokens[t].tool
<1>1. /\ Len(tokens) \in Nat /\ Issued = 1..Len(tokens)
      /\ \A u \in Issued : tokens[u] \in TokenType
  BY TokensTyped
<1>2. tokens' = [tokens EXCEPT ![t].uses = n] /\ UNCHANGED <<active, expired, grants>>
  BY DEF WriteUses
<1>3. tokens \in [1..Len(tokens) -> TokenType]
  BY <1>1 DEF CredentialsTypeOK, Issued
<1>4. ASSUME t \in Issued
      PROVE  [tokens[t] EXCEPT !.uses = n] \in TokenType
  BY <1>1, <1>4 DEF TokenType
<1>5. tokens' \in [1..Len(tokens) -> TokenType]
  BY <1>1, <1>2, <1>3, <1>4
<1>6. tokens' \in Seq(TokenType) /\ Len(tokens') = Len(tokens) /\ DOMAIN tokens' = DOMAIN tokens
  BY <1>1, <1>3, <1>5
<1>7. /\ \A u \in Issued : u # t => tokens'[u] = tokens[u]
      /\ t \in Issued => tokens'[t] = [tokens[t] EXCEPT !.uses = n]
  BY <1>1, <1>2, <1>3
<1>8. CredentialsTypeOK' /\ Issued' = Issued
  BY <1>2, <1>6 DEF CredentialsTypeOK, Issued
<1>9. t \in Issued => /\ tokens'[t].uses = n
                     /\ tokens'[t].issuer = tokens[t].issuer
                     /\ tokens'[t].inRule = tokens[t].inRule
                     /\ tokens'[t].tool = tokens[t].tool
  BY <1>1, <1>7 DEF TokenType
<1> QED
  BY <1>7, <1>8, <1>9

(* The operators of the broker that do not issue or count.                   *)
LEMMA BrokerEffect ==
  ASSUME CredentialsTypeOK,
         \/ UNCHANGED credentialVars
         \/ \E s \in Sessions, t \in Issued : CheckUses(s, t)
         \/ \E t \in Issued : Expire(t) \/ RevokeToken(t)
         \/ RevokeAll
         \/ UNCHANGED <<tokens, expired, grants>> /\ active' \subseteq active
  PROVE  CredentialsTypeOK' /\ Issued' = Issued
<1>1. CASE UNCHANGED credentialVars
  BY <1>1 DEF credentialVars, CredentialsTypeOK, Issued
<1>2. ASSUME NEW s \in Sessions, NEW t \in Issued, CheckUses(s, t)
      PROVE  CredentialsTypeOK' /\ Issued' = Issued
  <2>1. t \in TokenIds
    BY TokensTyped
  <2>2. grants' \in [TokenIds -> [Sessions -> Nat]]
    BY <1>2, <2>1 DEF CheckUses, CredentialsTypeOK
  <2> QED
    BY <1>2, <2>2 DEF CheckUses, CredentialsTypeOK, Issued
<1>3. ASSUME NEW t \in Issued, Expire(t) \/ RevokeToken(t)
      PROVE  CredentialsTypeOK' /\ Issued' = Issued
  BY <1>3 DEF Expire, RevokeToken, CredentialsTypeOK, Issued
<1>4. CASE RevokeAll \/ (UNCHANGED <<tokens, expired, grants>> /\ active' \subseteq active)
  BY <1>4 DEF RevokeAll, CredentialsTypeOK, Issued
<1> QED
  BY <1>1, <1>2, <1>3, <1>4

(* The types of a session's own variables.                                   *)
OwnTypeOK ==
  /\ pc \in [Sessions -> Points]
  /\ calls \in [Sessions -> Nat] /\ attempts \in [Sessions -> 0..MaxRetries]
  /\ read \in [Sessions -> Nat]
  /\ stage \in [Sessions -> Nat] /\ \A s \in Sessions : stage[s] <= Len(ToolsOf[s])
  /\ answered \subseteq Sessions /\ disturbed \subseteq Sessions

TokenTypeOK ==
  /\ CredentialsTypeOK
  /\ ruleToken \in Issued \union {0}
  /\ arg \in [Sessions -> Issued \union {0}]
  /\ using \in [Sessions -> Issued \union {0}]
  /\ seen \in [Sessions -> SUBSET Issued] /\ hits \in [Sessions -> SUBSET Issued]
  /\ doomed \in [Sessions -> SUBSET Issued]

HistoryTypeOK ==
  /\ conversation \in Seq(Sessions)
  /\ previous \in [Sessions -> Seq(Sessions)]
  /\ log \in Seq(Sessions \union {Cleared})
  /\ loadedAt \in [Sessions -> Nat]

LEMMA TypeParts == TypeOK <=> TokenTypeOK /\ OwnTypeOK /\ HistoryTypeOK
  BY DEF TypeOK, TokenTypeOK, OwnTypeOK, HistoryTypeOK

LEMMA HistoryStep == HistoryTypeOK /\ [Next]_vars => HistoryTypeOK'
<1> SUFFICES ASSUME HistoryTypeOK, [Next]_vars PROVE HistoryTypeOK'
  OBVIOUS
<1>1. CASE UNCHANGED historyVars
  BY <1>1 DEF HistoryTypeOK, historyVars
<1>2. ASSUME NEW s \in Sessions, LoadPrevious(s) PROVE HistoryTypeOK'
  <2>1. Len(log) \in Nat
    BY LenProperties DEF HistoryTypeOK
  <2> QED
    BY <1>2, <2>1 DEF LoadPrevious, HistoryTypeOK
<1>3. ASSUME NEW s \in Sessions, SaveTurn(s) PROVE HistoryTypeOK'
  <2>1. Append(previous[s], s) \in Seq(Sessions) /\ <<>> \in Seq(Sessions)
    BY AppendProperties, EmptySeq DEF HistoryTypeOK
  <2>2. Append(log, s) \in Seq(Sessions \union {Cleared})
    BY AppendProperties DEF HistoryTypeOK
  <2> QED
    BY <1>3, <2>1, <2>2 DEF SaveTurn, NewMessages, HistoryTypeOK
<1>4. CASE ClearConversation
  <2>1. <<>> \in Seq(Sessions) /\ Append(log, Cleared) \in Seq(Sessions \union {Cleared})
    BY AppendProperties, EmptySeq DEF HistoryTypeOK
  <2> QED
    BY <1>4, <2>1 DEF ClearConversation, AfterClear, HistoryTypeOK
<1> QED
  BY <1>1, <1>2, <1>3, <1>4
  DEF Next, Run, Finalize, Inject, InjectIntoRule, TakeToken, BeginUse, NoUse, CountUse, EndUse,
      Retry, CallReturns, StrategyRaises, StrategyReturns, BeginCollect, EndCollect,
      IterationRaises, DeleteToken, DeleteRaises, EndStage, Operator, Clock, Finished, vars

(* What a tool holds was issued.                                             *)
LEMMA UsingIssued ==
  ASSUME TokenTypeOK, OwnTypeOK, UseInv, NEW s \in Sessions, pc[s] \in Holding
  PROVE  using[s] \in Issued
<1>1. pc[s] \in InCall /\ OwnCall(s) /\ RuleCall(s)
  BY DEF UseInv, InCall, Holding
<1> QED
  BY <1>1 DEF OwnCall, RuleCall

LEMMA NextStageTyped ==
  ASSUME OwnTypeOK, NEW s \in Sessions, NextStage(s)
  PROVE  /\ pc' \in [Sessions -> Points]
         /\ stage' \in [Sessions -> Nat] /\ \A u \in Sessions : stage'[u] <= Len(ToolsOf[u])
<1>1. Len(ToolsOf[s]) \in Nat
  BY SessionsAssumption, LenProperties
<1>2. CASE stage[s] = LastStage(s)
  BY <1>2 DEF NextStage, OwnTypeOK, Points
<1>3. CASE stage[s] # LastStage(s)
  <2>1. pc' = [pc EXCEPT ![s] = "collect"] /\ stage' = [stage EXCEPT ![s] = @ + 1]
    BY <1>3 DEF NextStage
  <2>2. stage[s] \in Nat /\ stage[s] + 1 <= Len(ToolsOf[s])
    BY <1>1, <1>3 DEF OwnTypeOK, LastStage
  <2>3. pc' \in [Sessions -> Points] /\ stage' \in [Sessions -> Nat]
    BY <2>1 DEF OwnTypeOK, Points, CleanupPoints
  <2>4. ASSUME NEW u \in Sessions PROVE stage'[u] <= Len(ToolsOf[u])
    BY <2>1, <2>2 DEF OwnTypeOK
  <2> QED
    BY <2>3, <2>4
<1> QED
  BY <1>2, <1>3

LEMMA OwnStep ==
  TokenTypeOK /\ OwnTypeOK /\ UseInv /\ [Next]_vars => OwnTypeOK'
<1> SUFFICES ASSUME TokenTypeOK, OwnTypeOK, UseInv, [Next]_vars PROVE OwnTypeOK'
  OBVIOUS
<1>1. ASSUME NEW s \in Sessions, Inject(s) PROVE OwnTypeOK'
  BY <1>1 DEF Inject, Step, Disturb, OwnTypeOK, Points, cleanupVars
<1>2. ASSUME NEW s \in Sessions, InjectIntoRule(s) PROVE OwnTypeOK'
  BY <1>2 DEF InjectIntoRule, Step, Disturb, OwnTypeOK, Points, cleanupVars
<1>3. ASSUME NEW s \in Sessions, TakeToken(s) PROVE OwnTypeOK'
  BY <1>3 DEF TakeToken, Step, OwnTypeOK, Points, cleanupVars
<1>4. ASSUME NEW s \in Sessions, BeginUse(s) PROVE OwnTypeOK'
  <2>1. using[s] \in Issued
    BY <1>4, UsingIssued DEF BeginUse, Step, Holding
  <2>2. tokens[using[s]].uses \in Nat
    BY <2>1, TokensTyped DEF TokenTypeOK, TokenType
  <2> QED
    BY <1>4, <2>2 DEF BeginUse, Step, OwnTypeOK, Points, cleanupVars
<1>5. ASSUME NEW s \in Sessions, NoUse(s) \/ EndUse(s) PROVE OwnTypeOK'
  BY <1>5 DEF NoUse, EndUse, Step, OwnTypeOK, Points, cleanupVars
<1>6. ASSUME NEW s \in Sessions, CountUse(s) PROVE OwnTypeOK'
  BY <1>6 DEF CountUse, Step, OwnTypeOK, Points, cleanupVars
<1>7. ASSUME NEW s \in Sessions, Retry(s) PROVE OwnTypeOK'
  <2>1. attempts[s] + 1 \in 0..MaxRetries
    BY <1>7, SessionsAssumption DEF Retry, OwnTypeOK
  <2> QED
    BY <1>7, <2>1 DEF Retry, Step, OwnTypeOK, Points, cleanupVars
<1>8. ASSUME NEW s \in Sessions, CallReturns(s) \/ StrategyRaises(s) PROVE OwnTypeOK'
  <2>1. 0 \in 0..MaxRetries
    BY SessionsAssumption
  <2> QED
    <3>1. \E p \in Points : pc' = [pc EXCEPT ![s] = p]
      BY <1>8 DEF CallReturns, StrategyRaises, Step, Points
    <3>2. /\ attempts' = [attempts EXCEPT ![s] = 0] /\ read' = [read EXCEPT ![s] = 0]
          /\ UNCHANGED <<calls, stage, answered, disturbed>>
      BY <1>8 DEF CallReturns, StrategyRaises, Forget, cleanupVars
    <3> QED
      BY <2>1, <3>1, <3>2 DEF OwnTypeOK
<1>9. ASSUME NEW s \in Sessions, StrategyReturns(s) \/ LoadPrevious(s) \/ SaveTurn(s) PROVE OwnTypeOK'
  BY <1>9 DEF StrategyReturns, LoadPrevious, SaveTurn, Step, OwnTypeOK, Points, CleanupPoints,
              callVars, cleanupVars
<1>10. ASSUME NEW s \in Sessions, BeginCollect(s) PROVE OwnTypeOK'
  <2>1. CASE active = {}
    BY <1>10, <2>1, NextStageTyped DEF BeginCollect, OwnTypeOK, callVars
  <2>2. CASE active # {}
    BY <1>10, <2>2 DEF BeginCollect, OwnTypeOK, Points, CleanupPoints, callVars
  <2> QED
    BY <2>1, <2>2
<1>11. ASSUME NEW s \in Sessions, EndCollect(s) \/ IterationRaises(s) \/ DeleteRaises(s)
       PROVE  OwnTypeOK'
  BY <1>11 DEF EndCollect, IterationRaises, DeleteRaises, Step, OwnTypeOK, Points,
               CleanupPoints, callVars
<1>12. ASSUME NEW s \in Sessions, DeleteToken(s) PROVE OwnTypeOK'
  BY <1>12 DEF DeleteToken, Disturb, OwnTypeOK, callVars
<1>13. ASSUME NEW s \in Sessions, EndStage(s) PROVE OwnTypeOK'
  BY <1>13, NextStageTyped DEF EndStage, OwnTypeOK, callVars
<1>14. CASE ClearConversation \/ Operator \/ Clock \/ UNCHANGED vars
  BY <1>14 DEF ClearConversation, Operator, Clock, vars, callVars, cleanupVars, OwnTypeOK
<1> QED
  BY <1>1, <1>2, <1>3, <1>4, <1>5, <1>6, <1>7, <1>8, <1>9, <1>10, <1>11, <1>12, <1>13, <1>14
  DEF Next, Run, Finalize, Finished

LEMMA TokenStep ==
  TokenTypeOK /\ OwnTypeOK /\ UseInv /\ [Next]_vars => TokenTypeOK'
<1> SUFFICES ASSUME TokenTypeOK, OwnTypeOK, UseInv, [Next]_vars PROVE TokenTypeOK'
  OBVIOUS
<1> DEFINE Slots == <<ruleToken, arg, using, seen, hits, doomed>>
<1>1. ASSUME NEW s \in Sessions, Inject(s) \/ InjectIntoRule(s) PROVE TokenTypeOK'
  <2>1. PICK i \in DOMAIN ToolsOf[s], b \in BOOLEAN : Issue(s, ToolsOf[s][i], b)
    BY <1>1 DEF Inject, InjectIntoRule
  <2>2. ToolsOf[s][i] \in Tools
    BY SessionsAssumption, ElementOfSeq
  <2>3. CredentialsTypeOK' /\ Issued' = Issued \union {Len(tokens) + 1}
    BY <2>1, <2>2, IssueEffect DEF TokenTypeOK
  <2>4. /\ UNCHANGED <<using, seen, hits, doomed>>
        /\ ruleToken' \in {ruleToken, Len(tokens) + 1}
        /\ arg' = [arg EXCEPT ![s] = 0] \/ arg' = [arg EXCEPT ![s] = Len(tokens) + 1]
    BY <1>1 DEF Inject, InjectIntoRule, cleanupVars
  <2>5. ruleToken' \in Issued' \union {0} /\ arg' \in [Sessions -> Issued' \union {0}]
    BY <2>3, <2>4 DEF TokenTypeOK
  <2>6. using' \in [Sessions -> Issued' \union {0}]
    BY <2>3, <2>4 DEF TokenTypeOK
  <2>7. /\ seen' \in [Sessions -> SUBSET Issued'] /\ hits' \in [Sessions -> SUBSET Issued']
        /\ doomed' \in [Sessions -> SUBSET Issued']
    BY <2>3, <2>4 DEF TokenTypeOK
  <2> QED
    BY <2>3, <2>5, <2>6, <2>7 DEF TokenTypeOK
<1>2. ASSUME CredentialsTypeOK', Issued' = Issued, UNCHANGED Slots PROVE TokenTypeOK'
  BY <1>2 DEF TokenTypeOK
<1>3. ASSUME UNCHANGED credentialVars, UNCHANGED <<seen, hits, doomed, ruleToken>>,
             arg' \in [Sessions -> Issued \union {0}], using' \in [Sessions -> Issued \union {0}]
      PROVE  TokenTypeOK'
  BY <1>3, BrokerEffect DEF TokenTypeOK
<1>4. ASSUME NEW s \in Sessions, TakeToken(s) \/ BeginUse(s) \/ NoUse(s) \/ Retry(s)
                                \/ CallReturns(s) \/ StrategyRaises(s)
      PROVE  TokenTypeOK'
  <2>1. /\ arg' \in [Sessions -> Issued \union {0}]
        /\ using' \in [Sessions -> Issued \union {0}]
        /\ UNCHANGED <<credentialVars, seen, hits, doomed, ruleToken>>
    BY <1>4 DEF TakeToken, BeginUse, NoUse, Retry, CallReturns, StrategyRaises, Forget,
                cleanupVars, TokenTypeOK
  <2> QED
    BY <1>3, <2>1
<1>5. ASSUME NEW s \in Sessions, CountUse(s) PROVE TokenTypeOK'
  <2>1. read[s] + 1 \in Nat
    BY DEF OwnTypeOK
  <2>2. CredentialsTypeOK' /\ Issued' = Issued
    BY <1>5, <2>1, WriteEffect DEF CountUse, TokenTypeOK
  <2> QED
    BY <1>2, <1>5, <2>2 DEF CountUse, cleanupVars
<1>6. ASSUME NEW s \in Sessions, EndUse(s) PROVE TokenTypeOK'
  <2>1. using[s] \in Issued
    BY <1>6, UsingIssued DEF EndUse, Step, Holding
  <2>2. CredentialsTypeOK' /\ Issued' = Issued
    BY <1>6, <2>1, BrokerEffect DEF EndUse, TokenTypeOK
  <2>3. using' \in [Sessions -> Issued' \union {0}]
    BY <1>6, <2>2 DEF EndUse, TokenTypeOK
  <2> QED
    BY <1>6, <2>2, <2>3 DEF EndUse, cleanupVars, TokenTypeOK
<1>7. ASSUME NEW s \in Sessions, StrategyReturns(s) \/ LoadPrevious(s) \/ SaveTurn(s) \/ EndStage(s)
      PROVE  TokenTypeOK'
  <2>1. UNCHANGED credentialVars /\ UNCHANGED Slots
    BY <1>7 DEF StrategyReturns, LoadPrevious, SaveTurn, EndStage, callVars, cleanupVars
  <2> QED
    BY <1>2, <2>1, BrokerEffect DEF TokenTypeOK
<1>8. ASSUME NEW s \in Sessions, BeginCollect(s) \/ EndCollect(s) \/ IterationRaises(s) \/ DeleteRaises(s)
      PROVE  TokenTypeOK'
  <2>1. UNCHANGED credentialVars /\ UNCHANGED <<ruleToken, arg, using>>
    BY <1>8 DEF BeginCollect, EndCollect, IterationRaises, DeleteRaises, callVars
  <2>2. CredentialsTypeOK' /\ Issued' = Issued /\ active \subseteq Issued
    BY <2>1, BrokerEffect DEF TokenTypeOK, CredentialsTypeOK
  <2>3. /\ seen' \in [Sessions -> SUBSET Issued] /\ hits' \in [Sessions -> SUBSET Issued]
        /\ doomed' \in [Sessions -> SUBSET Issued]
    <3>1. CASE BeginCollect(s)
      BY <2>2, <3>1 DEF BeginCollect, TokenTypeOK
    <3>2. CASE EndCollect(s)
      <4>1. PICK found \in Collected(s) : doomed' = [doomed EXCEPT ![s] = found]
        BY <3>2 DEF EndCollect
      <4>2. found \subseteq Issued
        BY <2>2 DEF Collected, TokenTypeOK
      <4> QED
        BY <3>2, <4>1, <4>2 DEF EndCollect, TokenTypeOK
    <3>3. CASE IterationRaises(s)
      BY <3>3 DEF IterationRaises, TokenTypeOK
    <3>4. CASE DeleteRaises(s)
      BY <3>4 DEF DeleteRaises, TokenTypeOK
    <3> QED
      BY <1>8, <3>1, <3>2, <3>3, <3>4
  <2> QED
    BY <2>1, <2>2, <2>3 DEF TokenTypeOK
<1>9. ASSUME NEW s \in Sessions, DeleteToken(s) PROVE TokenTypeOK'
  <2>1. UNCHANGED <<tokens, expired, grants, ruleToken, arg, using, seen, hits>> /\ active' \subseteq active
    BY <1>9 DEF DeleteToken, callVars
  <2>2. CredentialsTypeOK' /\ Issued' = Issued
    BY <2>1, BrokerEffect DEF TokenTypeOK
  <2>3. doomed' \in [Sessions -> SUBSET Issued]
    BY <1>9 DEF DeleteToken, TokenTypeOK
  <2> QED
    BY <2>1, <2>2, <2>3 DEF TokenTypeOK
<1>10. CASE ClearConversation \/ Operator \/ Clock \/ UNCHANGED vars
  <2>1. CredentialsTypeOK' /\ Issued' = Issued
    BY <1>10, BrokerEffect DEF ClearConversation, Operator, Clock, vars, TokenTypeOK
  <2>2. UNCHANGED Slots
    BY <1>10 DEF ClearConversation, Operator, Clock, vars, callVars, cleanupVars
  <2> QED
    BY <1>2, <2>1, <2>2
<1> QED
  BY <1>1, <1>4, <1>5, <1>6, <1>7, <1>8, <1>9, <1>10 DEF Next, Run, Finalize, Finished

-----------------------------------------------------------------------------
(* A step that leaves tokens, grants and the rule's dict alone.              *)
LEMMA UseFrame ==
  ASSUME UseInv, UNCHANGED <<tokens, grants, ruleToken>>,
         \A u \in Sessions :
           \/ pc'[u] \notin InCall
           \/ /\ pc'[u] = pc[u] /\ arg'[u] = arg[u]
              /\ using'[u] = using[u] /\ read'[u] = read[u]
           \/ OwnCall(u)' /\ RuleCall(u)'
  PROVE  UseInv'
<1>1. Issued' = Issued
  BY DEF Issued
<1>2. ASSUME NEW u \in Sessions PROVE OwnCall(u)' /\ RuleCall(u)'
  <2>1. OwnCall(u) /\ RuleCall(u)
    BY DEF UseInv
  <2> QED
    BY <1>1, <2>1 DEF OwnCall, RuleCall, Holding
<1> QED
  BY <1>1, <1>2 DEF UseInv, UsedOnce

LEMMA TakeStep ==
  ASSUME TokenTypeOK, OwnTypeOK, UseInv, NEW s \in Sessions,
         TakeToken(s) \/ BeginUse(s) \/ NoUse(s) \/ Retry(s)
  PROVE  UseInv'
<1>1. OwnCall(s) /\ RuleCall(s)
  BY DEF UseInv
<1>2. UNCHANGED <<tokens, grants, ruleToken, arg>>
  BY DEF TakeToken, BeginUse, NoUse, Retry, credentialVars
<1>3. Issued' = Issued
  BY <1>2 DEF Issued
<1>4. \A u \in Sessions \ {s} : pc'[u] = pc[u] /\ using'[u] = using[u] /\ read'[u] = read[u]
  BY DEF TakeToken, BeginUse, NoUse, Retry, Step, OwnTypeOK, TokenTypeOK
<1>5. CASE TakeToken(s)
  <2>1. /\ pc[s] = "called" /\ pc'[s] = "holding"
        /\ using'[s] = IF arg[s] = 0 THEN ruleToken ELSE arg[s]
    BY <1>5 DEF TakeToken, Step, OwnTypeOK, TokenTypeOK
  <2>2. OwnCall(s)'
    BY <1>1, <1>2, <1>3, <2>1 DEF OwnCall, InCall, Holding
  <2>3. ruleToken \in Issued \union {0} /\ (ruleToken # 0 => tokens[ruleToken].inRule)
    BY DEF UseInv, TokenTypeOK
  <2>4. RuleCall(s)'
    BY <1>1, <1>2, <1>3, <2>1, <2>3 DEF RuleCall, InCall, Holding
  <2> QED
    BY <1>2, <1>4, <2>2, <2>4, UseFrame
<1>6. CASE BeginUse(s)
  <2>1. /\ pc[s] = "holding" /\ pc'[s] = "used" /\ using' = using
        /\ read'[s] = tokens[using[s]].uses
    BY <1>6 DEF BeginUse, Step, OwnTypeOK
  <2>2. OwnCall(s)' /\ RuleCall(s)'
    BY <1>1, <1>2, <1>3, <2>1 DEF OwnCall, RuleCall, InCall, Holding
  <2> QED
    BY <1>2, <1>4, <2>2, UseFrame
<1>7. CASE NoUse(s)
  <2>1. pc[s] = "holding" /\ pc'[s] = "attempted"
    BY <1>7 DEF NoUse, Step, OwnTypeOK
  <2>2. OwnCall(s)' /\ RuleCall(s)'
    BY <1>1, <1>2, <1>3, <2>1 DEF OwnCall, RuleCall, InCall, Holding
  <2> QED
    BY <1>2, <1>4, <2>2, UseFrame
<1>8. CASE Retry(s)
  <2>1. pc[s] = "attempted" /\ pc'[s] = "called" /\ arg[s] # 0
    BY <1>8 DEF Retry, Step, OwnTypeOK
  <2>2. OwnCall(s)' /\ RuleCall(s)'
    BY <1>1, <1>2, <1>3, <2>1 DEF OwnCall, RuleCall, InCall, Holding
  <2> QED
    BY <1>2, <1>4, <2>2, UseFrame
<1> QED
  BY <1>5, <1>6, <1>7, <1>8

LEMMA InjectStep ==
  ASSUME TokenTypeOK, OwnTypeOK, UseInv, NEW s \in Sessions, NEW b \in BOOLEAN,
         NEW tool \in Tools, Issue(s, tool, b), Step(s, "running", "called"),
         arg' = [arg EXCEPT ![s] = IF b THEN 0 ELSE Len(tokens) + 1],
         ruleToken' = IF b THEN Len(tokens) + 1 ELSE ruleToken,
         UNCHANGED <<using, read>>
  PROVE  UseInv'
<1> DEFINE n == Len(tokens) + 1
<1>1. /\ n \in TokenIds \ Issued /\ Issued' = Issued \union {n} /\ n # 0
      /\ \A t \in Issued : tokens'[t] = tokens[t]
      /\ tokens'[n] = [tool |-> tool, uses |-> 0, issuer |-> s, inRule |-> b]
  <2>1. CredentialsTypeOK
    BY DEF TokenTypeOK
  <2> QED
    BY <2>1, IssueEffect DEF TokenIds
<1>2. grants' = grants /\ \A u \in Sessions : grants[n][u] = 0
  BY <1>1 DEF Issue, UseInv
<1> HIDE DEF n
<1>3. \A t \in TokenIds \ Issued', u \in Sessions : grants'[t][u] = 0
  BY <1>1, <1>2 DEF UseInv
<1>4. ruleToken' # 0 => tokens'[ruleToken'].inRule
  BY <1>1 DEF UseInv, TokenTypeOK, n
<1>5. \A t \in Issued', u \in Sessions :
        grants'[t][u] > 0 /\ ~tokens'[t].inRule => tokens'[t].uses > 0
  BY <1>1, <1>2 DEF UseInv
<1>6. UsedOnce'
  BY <1>1, <1>2 DEF UseInv, UsedOnce
<1>7. /\ pc[s] = "running" /\ pc'[s] = "called" /\ arg'[s] = IF b THEN 0 ELSE n
      /\ \A u \in Sessions \ {s} : pc'[u] = pc[u] /\ arg'[u] = arg[u]
  BY DEF Step, OwnTypeOK, TokenTypeOK, n
<1>8. OwnCall(s)' /\ RuleCall(s)'
  <2>1. CASE b
    BY <1>1, <1>2, <1>7, <2>1 DEF OwnCall, RuleCall, Holding, n
  <2>2. CASE ~b
    BY <1>1, <1>2, <1>7, <2>2 DEF OwnCall, RuleCall, Holding, n
  <2> QED
    BY <2>1, <2>2
<1>9. ASSUME NEW u \in Sessions \ {s} PROVE OwnCall(u)' /\ RuleCall(u)'
  <2>1. OwnCall(u) /\ RuleCall(u)
    BY DEF UseInv
  <2>2. OwnCall(u)'
    BY <1>1, <1>2, <1>7, <2>1 DEF OwnCall
  <2>3. ruleToken' = ruleToken \/ (ruleToken' = n /\ grants[n][u] = 0)
    BY <1>2 DEF n
  <2>4. RuleCall(u)'
    BY <1>1, <1>2, <1>7, <2>1, <2>3 DEF RuleCall
  <2> QED
    BY <2>2, <2>4
<1> QED
  BY <1>3, <1>4, <1>5, <1>6, <1>8, <1>9 DEF UseInv

(* The counter that a use writes is nobody else's, unless it is in a rule.   *)
LEMMA CountStep ==
  ASSUME TokenTypeOK, OwnTypeOK, UseInv, NEW s \in Sessions, CountUse(s)
  PROVE  UseInv'
<1> DEFINE t == using[s]
<1>1. /\ pc[s] = "used" /\ pc'[s] = "checking" /\ read[s] + 1 \in Nat /\ read[s] + 1 > 0
      /\ WriteUses(t, read[s] + 1)
      /\ UNCHANGED <<ruleToken, arg, using>>
      /\ \A u \in Sessions \ {s} : pc'[u] = pc[u] /\ read'[u] = read[u]
  BY DEF CountUse, Step, OwnTypeOK
<1>2. t \in Issued
  BY <1>1, UsingIssued DEF Holding
<1>3. /\ Issued' = Issued
      /\ \A u \in Issued : u # t => tokens'[u] = tokens[u]
      /\ tokens'[t].uses = read[s] + 1
      /\ \A u \in Issued : tokens'[u].issuer = tokens[u].issuer
                           /\ tokens'[u].inRule = tokens[u].inRule
  BY <1>1, <1>2, WriteEffect DEF TokenTypeOK
<1>4. grants' = grants
  BY <1>1 DEF WriteUses
<1>5. OwnCall(s) /\ RuleCall(s)
  BY DEF UseInv
<1> HIDE DEF t
<1>6. OwnCall(s)'
  <2>1. SUFFICES ASSUME arg[s] # 0 PROVE OwnCall(s)'
    BY <1>1 DEF OwnCall
  <2>2. /\ arg[s] = t /\ arg[s] \in Issued /\ tokens[t].issuer = s /\ ~tokens[t].inRule
        /\ read[s] = tokens[t].uses
    BY <1>1, <1>5, <2>1 DEF OwnCall, InCall, Holding, t
  <2>3. grants[t][s] > 0 => tokens[t].uses > 0
    BY <2>2 DEF UseInv
  <2>4. grants[t][s] > 0 => read[s] + 1 > 1
    BY <2>2, <2>3 DEF OwnTypeOK
  <2> QED
    BY <1>1, <1>2, <1>3, <1>4, <2>2, <2>4 DEF OwnCall, t
<1>7. RuleCall(s)'
  BY <1>1, <1>3, <1>4, <1>5 DEF RuleCall, InCall, Holding, t
<1>8. ASSUME NEW u \in Sessions \ {s} PROVE OwnCall(u)' /\ RuleCall(u)'
  <2>1. OwnCall(u) /\ RuleCall(u)
    BY DEF UseInv
  <2>2. pc[u] \in InCall /\ arg[u] # 0 => arg[u] # t
    BY <1>1, <1>5, <2>1 DEF OwnCall, RuleCall, InCall, Holding, t
  <2>3. OwnCall(u)'
    BY <1>1, <1>3, <1>4, <2>1, <2>2 DEF OwnCall
  <2>4. RuleCall(u)'
    BY <1>1, <1>3, <1>4, <2>1 DEF RuleCall
  <2> QED
    BY <2>3, <2>4
<1>9. \A v \in Issued', u \in Sessions :
        grants'[v][u] > 0 /\ ~tokens'[v].inRule => tokens'[v].uses > 0
  <2>1. ASSUME NEW v \in Issued, NEW u \in Sessions, grants[v][u] > 0, ~tokens[v].inRule
        PROVE  tokens'[v].uses > 0
    <3>1. tokens[v].uses > 0
      BY <2>1 DEF UseInv
    <3> QED
      BY <1>1, <1>3, <3>1
  <2> QED
    BY <1>3, <1>4, <2>1
<1>10. UsedOnce'
  BY <1>3, <1>4 DEF UseInv, UsedOnce
<1>11. ruleToken' # 0 => tokens'[ruleToken'].inRule
  BY <1>1, <1>3 DEF UseInv, TokenTypeOK
<1> QED
  BY <1>3, <1>4, <1>6, <1>7, <1>8, <1>9, <1>10, <1>11 DEF UseInv

(* A token is granted to a session that has not been granted it before.      *)
LEMMA EndUseStep ==
  ASSUME TokenTypeOK, OwnTypeOK, UseInv, NEW s \in Sessions, EndUse(s)
  PROVE  UseInv'
<1> DEFINE t == using[s]
<1>1. /\ pc[s] = "checking" /\ pc'[s] = "attempted"
      /\ CheckUses(s, t)
      /\ UNCHANGED <<ruleToken, arg, read>>
      /\ \A u \in Sessions \ {s} : pc'[u] = pc[u] /\ using'[u] = using[u]
  BY DEF EndUse, Step, OwnTypeOK, TokenTypeOK
<1>2. t \in Issued /\ t \in TokenIds
  BY <1>1, UsingIssued, TokensTyped DEF Holding, TokenTypeOK
<1>3. UNCHANGED tokens /\ Issued' = Issued
  BY <1>1 DEF CheckUses, Issued
<1>4. OwnCall(s) /\ RuleCall(s) /\ tokens[t].uses \in Nat /\ grants[t][s] \in Nat
  BY <1>2, TokensTyped DEF UseInv, TokenTypeOK, TokenType, CredentialsTypeOK
<1> HIDE DEF t
<1>5. /\ \A v \in TokenIds, u \in Sessions : v # t \/ u # s => grants'[v][u] = grants[v][u]
      /\ grants'[t][s] = IF tokens[t].uses <= 1 THEN grants[t][s] + 1 ELSE grants[t][s]
  BY <1>1, <1>2 DEF CheckUses, WithinUses, MaxUses, TokenTypeOK, CredentialsTypeOK
<1>6. Issued \subseteq TokenIds
  BY TokensTyped DEF TokenTypeOK
<1>7. grants'[t][s] # grants[t][s] =>
        grants[t][s] = 0 /\ ((s = tokens[t].issuer /\ tokens[t].uses > 0) \/ tokens[t].inRule)
  <2>1. CASE arg[s] # 0
    BY <1>1, <1>4, <1>5, <2>1 DEF OwnCall, InCall, Holding, t
  <2>2. CASE arg[s] = 0
    BY <1>1, <1>4, <2>2 DEF RuleCall, InCall, Holding, t
  <2> QED
    BY <2>1, <2>2
<1>8. UsedOnce'
  <2>1. ASSUME NEW v \in Issued, NEW u \in Sessions
        PROVE  /\ grants'[v][u] <= 1
               /\ grants'[v][u] > 0 => u = tokens[v].issuer \/ tokens[v].inRule
    <3>1. /\ grants[v][u] <= 1
          /\ grants[v][u] > 0 => u = tokens[v].issuer \/ tokens[v].inRule
      BY DEF UseInv, UsedOnce
    <3>2. CASE grants'[v][u] = grants[v][u]
      BY <3>1, <3>2
    <3>3. CASE grants'[v][u] # grants[v][u]
      <4>1. v = t /\ u = s
        BY <1>5, <1>6, <3>3
      <4> QED
        BY <1>5, <1>7, <3>3, <4>1
    <3> QED
      BY <3>2, <3>3
  <2> QED
    BY <1>3, <2>1 DEF UsedOnce
<1>9. \A v \in Issued', u \in Sessions :
        grants'[v][u] > 0 /\ ~tokens'[v].inRule => tokens'[v].uses > 0
  <2>1. ASSUME NEW v \in Issued, NEW u \in Sessions, grants'[v][u] > 0, ~tokens[v].inRule
        PROVE  tokens[v].uses > 0
    <3>1. CASE grants'[v][u] = grants[v][u]
      BY <2>1, <3>1 DEF UseInv
    <3>2. CASE grants'[v][u] # grants[v][u]
      BY <1>5, <1>6, <1>7, <2>1, <3>2
    <3> QED
      BY <3>1, <3>2
  <2> QED
    BY <1>3, <2>1
<1>10. \A v \in TokenIds \ Issued', u \in Sessions : grants'[v][u] = 0
  BY <1>2, <1>3, <1>5 DEF UseInv
<1>11. OwnCall(s)' /\ RuleCall(s)'
  BY <1>1, <1>3, <1>4 DEF OwnCall, RuleCall, InCall, Holding
<1>12. ASSUME NEW u \in Sessions \ {s} PROVE OwnCall(u)' /\ RuleCall(u)'
  <2>1. OwnCall(u) /\ RuleCall(u)
    BY DEF UseInv
  <2>2. \A v \in TokenIds : grants'[v][u] = grants[v][u]
    BY <1>5
  <2>3. OwnCall(u)'
    BY <1>1, <1>3, <1>6, <2>1, <2>2 DEF OwnCall
  <2>4. RuleCall(u)'
    BY <1>1, <1>3, <1>6, <2>1, <2>2 DEF RuleCall, TokenTypeOK
  <2> QED
    BY <2>3, <2>4
<1>13. ruleToken' # 0 => tokens'[ruleToken'].inRule
  BY <1>1, <1>3 DEF UseInv
<1> QED
  BY <1>3, <1>8, <1>9, <1>10, <1>11, <1>12, <1>13 DEF UseInv

LEMMA UseStep ==
  TokenTypeOK /\ OwnTypeOK /\ UseInv /\ [Next]_vars => UseInv'
<1> SUFFICES ASSUME TokenTypeOK, OwnTypeOK, UseInv, [Next]_vars PROVE UseInv'
  OBVIOUS
<1>1. ASSUME NEW s \in Sessions, Inject(s) PROVE UseInv'
  <2>1. PICK i \in DOMAIN ToolsOf[s] : Issue(s, ToolsOf[s][i], FALSE)
    BY <1>1 DEF Inject
  <2>2. ToolsOf[s][i] \in Tools
    BY SessionsAssumption, ElementOfSeq
  <2> QED
    BY <1>1, <2>1, <2>2, InjectStep DEF Inject
<1>2. ASSUME NEW s \in Sessions, InjectIntoRule(s) PROVE UseInv'
  <2>1. PICK i \in DOMAIN ToolsOf[s] : Issue(s, ToolsOf[s][i], TRUE)
    BY <1>2 DEF InjectIntoRule
  <2>2. ToolsOf[s][i] \in Tools
    BY SessionsAssumption, ElementOfSeq
  <2> QED
    BY <1>2, <2>1, <2>2, InjectStep DEF InjectIntoRule
<1>3. ASSUME NEW s \in Sessions, Step(s, "attempted", "running")
                                 \/ Step(s, "running", "raised") \/ Step(s, "attempted", "raised"),
             Forget(s), UNCHANGED <<credentialVars, ruleToken>>
      PROVE  UseInv'
  <2>1. \A u \in Sessions \ {s} :
          pc'[u] = pc[u] /\ arg'[u] = arg[u] /\ using'[u] = using[u] /\ read'[u] = read[u]
    BY <1>3 DEF Step, Forget, OwnTypeOK, TokenTypeOK
  <2>2. pc'[s] \notin InCall
    BY <1>3 DEF Step, OwnTypeOK, InCall
  <2> QED
    BY <1>3, <2>1, <2>2, UseFrame DEF credentialVars
<1>4. ASSUME NEW s \in Sessions, pc' = pc \/ \E p \in Points \ InCall : pc' = [pc EXCEPT ![s] = p],
             UNCHANGED <<tokens, grants, callVars>>
      PROVE  UseInv'
  <2>1. \A u \in Sessions : pc'[u] = pc[u] \/ pc'[u] \notin InCall
    BY <1>4 DEF OwnTypeOK
  <2> QED
    BY <1>4, <2>1, UseFrame DEF callVars
<1>5. ASSUME NEW s \in Sessions, StrategyReturns(s) \/ Finalize(s) PROVE UseInv'
  <2>1. UNCHANGED <<tokens, grants, callVars>>
    BY <1>5 DEF StrategyReturns, Finalize, LoadPrevious, SaveTurn, BeginCollect, EndCollect,
                IterationRaises, DeleteToken, DeleteRaises, EndStage, credentialVars
  <2>2. pc' = pc \/ \E p \in {"answered", "loaded", "collect", "collecting", "deleting",
                              "ended", "raised"} : pc' = [pc EXCEPT ![s] = p]
    BY <1>5 DEF StrategyReturns, Finalize, LoadPrevious, SaveTurn, BeginCollect, EndCollect,
                IterationRaises, DeleteToken, DeleteRaises, EndStage, NextStage, Step
  <2> QED
    BY <1>4, <2>1, <2>2 DEF Points, CleanupPoints, InCall
<1>6. CASE ClearConversation \/ Operator \/ Clock \/ UNCHANGED vars
  <2>1. UNCHANGED <<tokens, grants, pc, callVars>>
    BY <1>6 DEF ClearConversation, Operator, Clock, RevokeAll, RevokeToken, Expire, vars,
                credentialVars
  <2> QED
    BY <2>1, UseFrame DEF callVars
<1> QED
  BY <1>1, <1>2, <1>3, <1>5, <1>6, TakeStep, CountStep, EndUseStep
  DEF Next, Run, Finished, CallReturns, StrategyRaises

LEMMA InitInv == Init => TypeOK /\ UseInv
<1> SUFFICES ASSUME Init PROVE TypeOK /\ UseInv
  OBVIOUS
<1>1. TokenTypeOK /\ Issued = {}
  BY CredentialsAssumption, EmptySeq
  DEF Init, CredentialsInit, TokenTypeOK, CredentialsTypeOK, Issued
<1>2. OwnTypeOK
  BY SessionsAssumption, LenProperties DEF Init, OwnTypeOK, Points
<1>3. HistoryTypeOK
  BY EmptySeq DEF Init, HistoryTypeOK
<1>4. UseInv
  BY <1>1 DEF Init, CredentialsInit, UseInv, OwnCall, RuleCall, InCall, UsedOnce
<1> QED
  BY <1>1, <1>2, <1>3, <1>4, TypeParts

LEMMA InvStep == TypeOK /\ UseInv /\ [Next]_vars => TypeOK' /\ UseInv'
<1> SUFFICES ASSUME TypeOK, UseInv, [Next]_vars PROVE TypeOK' /\ UseInv'
  OBVIOUS
<1>1. TokenTypeOK /\ OwnTypeOK /\ HistoryTypeOK
  BY TypeParts
<1>2. TokenTypeOK' /\ OwnTypeOK' /\ HistoryTypeOK' /\ UseInv'
  BY <1>1, TokenStep, OwnStep, HistoryStep, UseStep
<1> QED
  BY <1>2 DEF TypeOK, TokenTypeOK, OwnTypeOK, HistoryTypeOK

LEMMA Invariant == Spec => [](TypeOK /\ UseInv)
  BY InitInv, InvStep, PTL DEF Spec

(* Every variable keeps its type, whatever the sessions, tools and bounds.   *)
THEOREM TypeCorrect == Spec => []TypeOK
  BY Invariant, PTL

(* A token of one use is used at most once by a session, and by another than *)
(* its issuer only out of a rule's fallback_args.  (ScopedToken.use,         *)
(* _maybe_inject_credential.)                                                *)
THEOREM UsedOnceHolds == Spec => []UsedOnce
<1>1. UseInv => UsedOnce
  BY DEF UseInv
<1> QED
  BY <1>1, Invariant, PTL

-----------------------------------------------------------------------------
LEMMA LogTyped ==
  ASSUME HistoryTypeOK
  PROVE  /\ Len(log) \in Nat /\ DOMAIN log = 1..Len(log)
         /\ \A i \in DOMAIN log : log[i] \in Sessions \union {Cleared}
         /\ \A s \in Sessions : loadedAt[s] \in Nat
  BY LenProperties, ElementOfSeq DEF HistoryTypeOK

(* What was overwritten stays so: the log grows, and the sessions in it load *)
(* no more.                                                                  *)
LEMMA OverwrittenStays ==
  ASSUME DOMAIN log \subseteq DOMAIN log', \A j \in DOMAIN log : log'[j] = log[j],
         \A j \in DOMAIN log : log[j] # Cleared => loadedAt'[log[j]] = loadedAt[log[j]],
         NEW i, Overwritten(i)
  PROVE  Overwritten(i)'
<1>1. PICK j \in DOMAIN log : j > i /\ (log[j] = Cleared \/ loadedAt[log[j]] < i)
  BY DEF Overwritten
<1>2. j \in DOMAIN log' /\ log'[j] = log[j]
  BY <1>1
<1>3. log'[j] = Cleared \/ loadedAt'[log'[j]] < i
  BY <1>1, <1>2
<1> QED
  BY <1>1, <1>2, <1>3 DEF Overwritten

LEMMA TurnsFrame ==
  ASSUME HistoryTypeOK, TurnsInv, UNCHANGED historyVars,
         \A u \in Sessions : /\ pc[u] \in SavedPoints => pc'[u] \in SavedPoints
                             /\ pc'[u] = "loaded" => pc[u] = "loaded"
  PROVE  TurnsInv'
<1>1. UNCHANGED <<conversation, previous, log, loadedAt>>
  BY DEF historyVars
<1>2. \A i : Overwritten(i)' <=> Overwritten(i)
  BY <1>1 DEF Overwritten
<1> QED
  BY <1>1, <1>2, LogTyped DEF TurnsInv, TurnsKept

LEMMA LoadStep ==
  ASSUME HistoryTypeOK, OwnTypeOK, TurnsInv, NEW s \in Sessions, LoadPrevious(s)
  PROVE  TurnsInv'
<1>1. /\ pc[s] = "answered" /\ pc'[s] = "loaded"
      /\ previous'[s] = conversation /\ loadedAt'[s] = Len(log)
      /\ UNCHANGED <<log, conversation>>
      /\ \A u \in Sessions \ {s} :
           pc'[u] = pc[u] /\ previous'[u] = previous[u] /\ loadedAt'[u] = loadedAt[u]
  BY DEF LoadPrevious, Step, OwnTypeOK, HistoryTypeOK
<1>2. ASSUME NEW i \in DOMAIN log, log[i] # Cleared
      PROVE  log[i] \in Sessions \ {s} /\ pc[log[i]] \in SavedPoints
  BY <1>1, <1>2, LogTyped DEF TurnsInv, SavedPoints, CleanupPoints
<1>3. ASSUME NEW i, Overwritten(i) PROVE Overwritten(i)'
  BY <1>1, <1>2, <1>3, OverwrittenStays
<1>4. \A i \in DOMAIN log' : log'[i] # Cleared => pc'[log'[i]] \in SavedPoints
  BY <1>1, <1>2
<1>5. TurnsKept'
  BY <1>1, <1>3 DEF TurnsInv, TurnsKept
<1>6. ASSUME NEW u \in Sessions, pc'[u] = "loaded"
      PROVE  /\ loadedAt'[u] <= Len(log')
             /\ \A i \in 1..loadedAt'[u] :
                  log'[i] = Cleared \/ Overwritten(i)'
                    \/ \E k \in DOMAIN previous'[u] : previous'[u][k] = log'[i]
  <2>1. CASE u = s
    BY <1>1, <1>3, <2>1, LogTyped DEF TurnsInv, TurnsKept
  <2>2. CASE u # s
    BY <1>1, <1>3, <1>6, <2>2 DEF TurnsInv
  <2> QED
    BY <2>1, <2>2
<1> QED
  BY <1>4, <1>5, <1>6 DEF TurnsInv

(* A save or a clear: the log grows by e.                                    *)
LEMMA AppendStep ==
  ASSUME HistoryTypeOK, TurnsInv, NEW e \in Sessions \union {Cleared},
         log' = Append(log, e), UNCHANGED loadedAt,
         \A u \in Sessions : /\ pc[u] \in SavedPoints \/ u = e => pc'[u] \in SavedPoints
                             /\ pc'[u] = "loaded" =>
                                  pc[u] = "loaded" /\ previous'[u] = previous[u],
         TurnsKept'
  PROVE  TurnsInv'
<1>1. /\ Len(log) \in Nat /\ DOMAIN log = 1..Len(log) /\ DOMAIN log' = 1..(Len(log) + 1)
      /\ Len(log') = Len(log) + 1 /\ log'[Len(log) + 1] = e
      /\ \A i \in DOMAIN log : log'[i] = log[i]
  BY AppendProperties, LogTyped DEF HistoryTypeOK
<1>2. ASSUME NEW i, Overwritten(i) PROVE Overwritten(i)'
  BY <1>1, <1>2, OverwrittenStays
<1>3. ASSUME NEW i \in DOMAIN log', log'[i] # Cleared PROVE pc'[log'[i]] \in SavedPoints
  <2>1. CASE i \in DOMAIN log
    BY <1>1, <1>3, <2>1, LogTyped DEF TurnsInv
  <2>2. CASE i = Len(log) + 1
    BY <1>1, <1>3, <2>2
  <2> QED
    BY <1>1, <2>1, <2>2
<1>4. ASSUME NEW u \in Sessions, pc'[u] = "loaded"
      PROVE  /\ loadedAt'[u] <= Len(log')
             /\ \A i \in 1..loadedAt'[u] :
                  log'[i] = Cleared \/ Overwritten(i)'
                    \/ \E k \in DOMAIN previous'[u] : previous'[u][k] = log'[i]
  <2>1. /\ pc[u] = "loaded" /\ previous'[u] = previous[u] /\ loadedAt' = loadedAt
        /\ loadedAt[u] <= Len(log) /\ loadedAt[u] \in Nat
    BY <1>4, LogTyped DEF TurnsInv
  <2>2. \A i \in 1..loadedAt[u] : i \in DOMAIN log
    BY <1>1, <2>1
  <2> QED
    BY <1>1, <1>2, <2>1, <2>2 DEF TurnsInv
<1> QED
  BY <1>3, <1>4 DEF TurnsInv

LEMMA SaveStep ==
  ASSUME HistoryTypeOK, OwnTypeOK, TurnsInv, NEW s \in Sessions, SaveTurn(s)
  PROVE  TurnsInv'
<1>1. /\ pc[s] = "loaded" /\ pc'[s] = "collect"
      /\ conversation' = Append(previous[s], s) /\ log' = Append(log, s)
      /\ UNCHANGED loadedAt
      /\ \A u \in Sessions \ {s} : pc'[u] = pc[u] /\ previous'[u] = previous[u]
  BY DEF SaveTurn, NewMessages, Step, OwnTypeOK, HistoryTypeOK
<1>2. /\ Len(log) \in Nat /\ DOMAIN log = 1..Len(log) /\ DOMAIN log' = 1..(Len(log) + 1)
      /\ log'[Len(log) + 1] = s
      /\ \A i \in DOMAIN log : log'[i] = log[i]
  BY <1>1, AppendProperties, LogTyped DEF HistoryTypeOK
<1>3. /\ Len(previous[s]) \in Nat /\ DOMAIN previous[s] = 1..Len(previous[s])
      /\ DOMAIN conversation' = 1..(Len(previous[s]) + 1)
      /\ conversation'[Len(previous[s]) + 1] = s
      /\ \A k \in DOMAIN previous[s] : conversation'[k] = previous[s][k]
  BY <1>1, AppendProperties, LenProperties DEF HistoryTypeOK
<1>4. ASSUME NEW i, Overwritten(i) PROVE Overwritten(i)'
  BY <1>1, <1>2, <1>4, OverwrittenStays
<1>5. loadedAt[s] \in Nat
  BY LogTyped
<1>6. ASSUME NEW i \in DOMAIN log'
      PROVE  log'[i] = Cleared \/ Overwritten(i)'
               \/ \E k \in DOMAIN conversation' : conversation'[k] = log'[i]
  <2>1. CASE i = Len(log) + 1
    BY <1>2, <1>3, <2>1
  <2>2. CASE i \in DOMAIN log /\ i <= loadedAt[s]
    <3>1. log[i] = Cleared \/ Overwritten(i) \/ \E k \in DOMAIN previous[s] : previous[s][k] = log[i]
      BY <1>1, <1>2, <1>5, <2>2 DEF TurnsInv
    <3> QED
      BY <1>2, <1>3, <1>4, <2>2, <3>1
  <2>3. CASE i \in DOMAIN log /\ loadedAt[s] < i
    <3>1. Len(log) + 1 \in DOMAIN log' /\ Len(log) + 1 > i
      BY <1>2, <2>3
    <3>2. loadedAt'[log'[Len(log) + 1]] < i
      BY <1>1, <1>2, <2>3
    <3>3. Overwritten(i)'
      BY <3>1, <3>2 DEF Overwritten
    <3> QED
      BY <3>3
  <2> QED
    BY <1>2, <1>5, <2>1, <2>2, <2>3
<1>7. TurnsKept'
  BY <1>6 DEF TurnsKept
<1> QED
  BY <1>1, <1>7, AppendStep DEF SavedPoints, CleanupPoints

LEMMA ClearStep ==
  ASSUME HistoryTypeOK, TurnsInv, ClearConversation
  PROVE  TurnsInv'
<1>1. log' = Append(log, Cleared) /\ UNCHANGED <<loadedAt, pc, previous>>
  BY DEF ClearConversation
<1>2. /\ Len(log) \in Nat /\ DOMAIN log' = 1..(Len(log) + 1) /\ log'[Len(log) + 1] = Cleared
  BY <1>1, AppendProperties, LogTyped DEF HistoryTypeOK
<1>3. TurnsKept'
  BY <1>2 DEF TurnsKept, Overwritten
<1>4. \A u \in Sessions : u # Cleared
  BY SessionsAssumption DEF Cleared
<1> QED
  BY <1>1, <1>3, <1>4, AppendStep

LEMMA TurnsStep ==
  HistoryTypeOK /\ OwnTypeOK /\ TurnsInv /\ [Next]_vars => TurnsInv'
<1> SUFFICES ASSUME HistoryTypeOK, OwnTypeOK, TurnsInv, [Next]_vars PROVE TurnsInv'
  OBVIOUS
<1>1. ASSUME NEW s \in Sessions, LoadPrevious(s) \/ SaveTurn(s) PROVE TurnsInv'
  BY <1>1, LoadStep, SaveStep
<1>2. CASE ClearConversation
  BY <1>2, ClearStep
<1>3. ASSUME NEW s \in Sessions, Run(s) PROVE TurnsInv'
  <2>1. UNCHANGED historyVars
    BY <1>3 DEF Run, Inject, InjectIntoRule, TakeToken, BeginUse, NoUse, CountUse, EndUse, Retry,
                CallReturns, StrategyRaises, StrategyReturns
  <2>2. pc[s] \in {"running", "called", "holding", "used", "checking", "attempted"}
    BY <1>3 DEF Run, Inject, InjectIntoRule, TakeToken, BeginUse, NoUse, CountUse, EndUse, Retry,
                CallReturns, StrategyRaises, StrategyReturns, Step
  <2>3. \E p \in {"running", "called", "holding", "used", "checking", "attempted", "raised",
                  "answered"} : pc' = [pc EXCEPT ![s] = p]
    BY <1>3 DEF Run, Inject, InjectIntoRule, TakeToken, BeginUse, NoUse, CountUse, EndUse, Retry,
                CallReturns, StrategyRaises, StrategyReturns, Step
  <2> QED
    BY <2>1, <2>2, <2>3, TurnsFrame DEF OwnTypeOK, SavedPoints, CleanupPoints
<1>4. ASSUME NEW s \in Sessions,
             \/ BeginCollect(s) \/ EndCollect(s) \/ IterationRaises(s) \/ DeleteToken(s)
             \/ DeleteRaises(s) \/ EndStage(s)
      PROVE  TurnsInv'
  <2>1. UNCHANGED historyVars
    BY <1>4 DEF BeginCollect, EndCollect, IterationRaises, DeleteToken, DeleteRaises, EndStage
  <2>2. pc' = pc \/ \E p \in SavedPoints : pc' = [pc EXCEPT ![s] = p]
    BY <1>4 DEF BeginCollect, EndCollect, IterationRaises, DeleteToken, DeleteRaises, EndStage,
                NextStage, Step, SavedPoints, CleanupPoints
  <2> QED
    BY <2>1, <2>2, TurnsFrame DEF OwnTypeOK, SavedPoints, CleanupPoints
<1>5. CASE Operator \/ Clock \/ UNCHANGED vars
  <2>1. UNCHANGED <<historyVars, pc>>
    BY <1>5 DEF Operator, Clock, vars
  <2> QED
    BY <2>1, TurnsFrame
<1> QED
  BY <1>1, <1>2, <1>3, <1>4, <1>5 DEF Next, Finalize, Finished

LEMMA TurnsInvariant == Spec => []TurnsInv
<1>1. Init => TurnsInv
  BY DEF Init, TurnsInv, TurnsKept
<1>2. TypeOK /\ TurnsInv /\ [Next]_vars => TurnsInv'
  BY TurnsStep, TypeParts
<1> QED
  BY <1>1, <1>2, TypeCorrect, PTL DEF Spec

(* A turn that was saved is in the conversation until a clear, or a save of  *)
(* what was loaded before it.  (_save_conversation_history.)                 *)
THEOREM TurnsKeptHolds == Spec => []TurnsKept
<1>1. TurnsInv => TurnsKept
  BY DEF TurnsInv
<1> QED
  BY <1>1, TurnsInvariant, PTL

-----------------------------------------------------------------------------
(* In a history as it was when the log had end entries a turn from before a  *)
(* clear is back only by a save of what had been loaded before the clear.    *)
ClearedIn(history, end) ==
  \A i, j \in 1..end :
    /\ i < j /\ log[j] = Cleared
    /\ \E k \in DOMAIN history : history[k] = log[i]
    => \E n \in 1..end : n > j /\ log[n] # Cleared /\ loadedAt[log[n]] < j

ClearedInv ==
  /\ ClearedIn(conversation, Len(log))
  /\ \A s \in Sessions : pc[s] = "loaded" => ClearedIn(previous[s], loadedAt[s])

(* What a history says of the log stays true while the log grows and the     *)
(* sessions in it load no more.                                              *)
LEMMA ClearedInStays ==
  ASSUME DOMAIN log \subseteq DOMAIN log', \A j \in DOMAIN log : log'[j] = log[j],
         \A j \in DOMAIN log : log[j] # Cleared => loadedAt'[log[j]] = loadedAt[log[j]],
         NEW history, NEW end, 1..end \subseteq DOMAIN log, ClearedIn(history, end)
  PROVE  \A h, e : h = history /\ e = end => ClearedIn(h, e)'
  BY DEF ClearedIn

LEMMA ClearedFrame ==
  ASSUME ClearedInv, UNCHANGED historyVars,
         \A u \in Sessions : pc'[u] = "loaded" => pc[u] = "loaded"
  PROVE  ClearedInv'
<1>1. UNCHANGED <<conversation, previous, log, loadedAt>>
  BY DEF historyVars
<1>2. \A h, e : ClearedIn(h, e)' <=> ClearedIn(h, e)
  BY <1>1 DEF ClearedIn
<1> QED
  BY <1>1, <1>2 DEF ClearedInv

LEMMA ClearedLoad ==
  ASSUME HistoryTypeOK, OwnTypeOK, TurnsInv, ClearedInv, NEW s \in Sessions, LoadPrevious(s)
  PROVE  ClearedInv'
<1>1. /\ pc[s] = "answered" /\ pc'[s] = "loaded"
      /\ previous'[s] = conversation /\ loadedAt'[s] = Len(log)
      /\ UNCHANGED <<log, conversation>>
      /\ \A u \in Sessions \ {s} :
           pc'[u] = pc[u] /\ previous'[u] = previous[u] /\ loadedAt'[u] = loadedAt[u]
  BY DEF LoadPrevious, Step, OwnTypeOK, HistoryTypeOK
<1>2. \A j \in DOMAIN log : log[j] # Cleared => loadedAt'[log[j]] = loadedAt[log[j]]
  BY <1>1, LogTyped DEF TurnsInv, SavedPoints, CleanupPoints
<1>3. ASSUME NEW h, NEW e, 1..e \subseteq DOMAIN log, ClearedIn(h, e)
      PROVE  ClearedIn(h, e)'
  BY <1>1, <1>2, <1>3, ClearedInStays
<1>4. 1..Len(log) \subseteq DOMAIN log
  BY LogTyped
<1>5. ClearedIn(conversation, Len(log))'
  BY <1>1, <1>3, <1>4 DEF ClearedInv
<1>6. ASSUME NEW u \in Sessions, pc'[u] = "loaded" PROVE ClearedIn(previous[u], loadedAt[u])'
  <2>1. CASE u = s
    BY <1>1, <1>5, <2>1
  <2>2. CASE u # s
    <3>1. pc[u] = "loaded" /\ 1..loadedAt[u] \subseteq DOMAIN log
      BY <1>1, <1>6, <2>2, LogTyped DEF TurnsInv
    <3>2. ClearedIn(previous[u], loadedAt[u])
      BY <3>1 DEF ClearedInv
    <3> QED
      BY <1>1, <1>3, <2>2, <3>1, <3>2
  <2> QED
    BY <2>1, <2>2
<1> QED
  BY <1>5, <1>6 DEF ClearedInv

LEMMA ClearedSave ==
  ASSUME HistoryTypeOK, OwnTypeOK, TurnsInv, ClearedInv, NEW s \in Sessions, SaveTurn(s)
  PROVE  ClearedIn(conversation, Len(log))'
<1>1. /\ pc[s] = "loaded" /\ conversation' = Append(previous[s], s) /\ log' = Append(log, s)
      /\ UNCHANGED loadedAt
  BY DEF SaveTurn, NewMessages, Step
<1>2. /\ Len(log) \in Nat /\ DOMAIN log = 1..Len(log) /\ Len(log') = Len(log) + 1
      /\ log'[Len(log) + 1] = s /\ s # Cleared
      /\ \A i \in DOMAIN log : log'[i] = log[i]
  BY <1>1, AppendProperties, LogTyped, SessionsAssumption DEF HistoryTypeOK, Cleared
<1>3. /\ Len(previous[s]) \in Nat /\ DOMAIN previous[s] = 1..Len(previous[s])
      /\ DOMAIN conversation' = 1..(Len(previous[s]) + 1)
      /\ conversation'[Len(previous[s]) + 1] = s
      /\ \A k \in DOMAIN previous[s] : conversation'[k] = previous[s][k]
  BY <1>1, AppendProperties, LenProperties DEF HistoryTypeOK
<1>4. ClearedIn(previous[s], loadedAt[s]) /\ loadedAt[s] \in Nat /\ loadedAt[s] <= Len(log)
  BY <1>1, LogTyped DEF ClearedInv, TurnsInv
<1>5. ASSUME NEW i \in 1..Len(log'), NEW j \in 1..Len(log'), i < j, log'[j] = Cleared,
             NEW k \in DOMAIN conversation', conversation'[k] = log'[i]
      PROVE  \E n \in 1..Len(log') : n > j /\ log'[n] # Cleared /\ loadedAt'[log'[n]] < j
  <2>1. /\ j \in DOMAIN log /\ log[j] = Cleared
        /\ i \in DOMAIN log /\ conversation'[k] = log[i]
    BY <1>2, <1>5
  <2>2. CASE loadedAt[s] < j
    BY <1>1, <1>2, <2>1, <2>2
  <2>3. CASE j <= loadedAt[s]
    <3>1. i \in 1..loadedAt[s] /\ j \in 1..loadedAt[s]
      BY <1>2, <1>4, <1>5, <2>1, <2>3
    <3>2. log[i] # s
      BY <1>1, <1>2, <2>1 DEF TurnsInv, SavedPoints, CleanupPoints
    <3>3. k \in DOMAIN previous[s] /\ previous[s][k] = log[i]
      BY <1>3, <2>1, <3>2
    <3>4. PICK n \in 1..loadedAt[s] : n > j /\ log[n] # Cleared /\ loadedAt[log[n]] < j
      BY <1>4, <1>5, <2>1, <3>1, <3>3 DEF ClearedIn
    <3>5. n \in DOMAIN log /\ n \in 1..Len(log')
      BY <1>2, <1>4, <3>4
    <3> QED
      BY <1>1, <1>2, <3>4, <3>5
  <2> QED
    BY <1>2, <1>4, <2>1, <2>2, <2>3
<1> QED
  BY <1>5 DEF ClearedIn

LEMMA ClearedStep ==
  HistoryTypeOK /\ OwnTypeOK /\ TurnsInv /\ ClearedInv /\ [Next]_vars => ClearedInv'
<1> SUFFICES ASSUME HistoryTypeOK, OwnTypeOK, TurnsInv, ClearedInv, [Next]_vars
             PROVE  ClearedInv'
  OBVIOUS
<1>1. ASSUME NEW s \in Sessions, LoadPrevious(s) PROVE ClearedInv'
  BY <1>1, ClearedLoad
<1>2. ASSUME NEW e \in Sessions \union {Cleared}, log' = Append(log, e), UNCHANGED loadedAt,
             \A u \in Sessions : pc'[u] = "loaded" => pc[u] = "loaded" /\ previous'[u] = previous[u],
             ClearedIn(conversation, Len(log))'
      PROVE  ClearedInv'
  <2>1. /\ DOMAIN log \subseteq DOMAIN log' /\ \A j \in DOMAIN log : log'[j] = log[j]
    BY <1>2, AppendProperties, LogTyped DEF HistoryTypeOK
  <2>2. ASSUME NEW u \in Sessions, pc'[u] = "loaded" PROVE ClearedIn(previous[u], loadedAt[u])'
    <3>1. pc[u] = "loaded" /\ previous'[u] = previous[u] /\ loadedAt' = loadedAt
      BY <1>2, <2>2
    <3>2. 1..loadedAt[u] \subseteq DOMAIN log /\ ClearedIn(previous[u], loadedAt[u])
      BY <3>1, LogTyped DEF TurnsInv, ClearedInv
    <3> QED
      BY <2>1, <3>1, <3>2, ClearedInStays
  <2> QED
    BY <1>2, <2>2 DEF ClearedInv
<1>3. ASSUME NEW s \in Sessions, SaveTurn(s) PROVE ClearedInv'
  <2>1. \A u \in Sessions : pc'[u] = "loaded" => pc[u] = "loaded" /\ previous'[u] = previous[u]
    BY <1>3 DEF SaveTurn, Step, OwnTypeOK, HistoryTypeOK
  <2> QED
    BY <1>2, <1>3, <2>1, ClearedSave DEF SaveTurn
<1>4. CASE ClearConversation
  <2>1. conversation' = <<>> /\ log' = Append(log, Cleared) /\ UNCHANGED <<loadedAt, pc, previous>>
    BY <1>4 DEF ClearConversation, AfterClear
  <2>2. ClearedIn(conversation, Len(log))'
    BY <2>1 DEF ClearedIn
  <2> QED
    BY <1>2, <2>1, <2>2
<1>5. ASSUME NEW s \in Sessions, Run(s) PROVE ClearedInv'
  <2>1. UNCHANGED historyVars
    BY <1>5 DEF Run, Inject, InjectIntoRule, TakeToken, BeginUse, NoUse, CountUse, EndUse, Retry,
                CallReturns, StrategyRaises, StrategyReturns
  <2>2. \E p \in Points \ {"loaded"} : pc' = [pc EXCEPT ![s] = p]
    BY <1>5 DEF Run, Inject, InjectIntoRule, TakeToken, BeginUse, NoUse, CountUse, EndUse, Retry,
                CallReturns, StrategyRaises, StrategyReturns, Step, Points
  <2> QED
    BY <2>1, <2>2, ClearedFrame DEF OwnTypeOK
<1>6. ASSUME NEW s \in Sessions,
             \/ BeginCollect(s) \/ EndCollect(s) \/ IterationRaises(s) \/ DeleteToken(s)
             \/ DeleteRaises(s) \/ EndStage(s)
      PROVE  ClearedInv'
  <2>1. UNCHANGED historyVars
    BY <1>6 DEF BeginCollect, EndCollect, IterationRaises, DeleteToken, DeleteRaises, EndStage
  <2>2. pc' = pc \/ \E p \in SavedPoints : pc' = [pc EXCEPT ![s] = p]
    BY <1>6 DEF BeginCollect, EndCollect, IterationRaises, DeleteToken, DeleteRaises, EndStage,
                NextStage, Step, SavedPoints, CleanupPoints
  <2> QED
    BY <2>1, <2>2, ClearedFrame DEF OwnTypeOK, SavedPoints, CleanupPoints
<1>7. CASE Operator \/ Clock \/ UNCHANGED vars
  <2>1. UNCHANGED <<historyVars, pc>>
    BY <1>7 DEF Operator, Clock, vars
  <2> QED
    BY <2>1, ClearedFrame
<1> QED
  BY <1>1, <1>3, <1>4, <1>5, <1>6, <1>7 DEF Next, Finalize, Finished

(* A cleared turn comes back only with a session that had loaded it before   *)
(* the clear and saved after it, for any number of sessions and clears.      *)
THEOREM ClearedStayClearedHolds == Spec => []ClearedStayCleared
<1>1. Init => ClearedInv
  BY DEF Init, ClearedInv, ClearedIn
<1>2. TypeOK /\ TurnsInv /\ ClearedInv /\ [Next]_vars => ClearedInv'
  BY ClearedStep, TypeParts
<1>3. TypeOK /\ ClearedInv => ClearedStayCleared
  BY LogTyped, TypeParts DEF ClearedInv, ClearedIn, ClearedStayCleared
<1> QED
  BY <1>1, <1>2, <1>3, TypeCorrect, TurnsInvariant, PTL DEF Spec

-----------------------------------------------------------------------------
(* A session that nobody has disturbed finds the dict as it left it: the     *)
(* keys it iterates over are there, and the ids it has collected.            *)
StrategyPoints == {"running"} \union InCall

Undisturbed(s) ==
  s \notin disturbed =>
    /\ pc[s] = "collecting" => active = seen[s]
    /\ pc[s] = "deleting" => doomed[s] \subseteq active

RaceInv ==
  /\ \A s \in Sessions : pc[s] \in StrategyPoints => s \notin answered
  /\ \A s \in Sessions : Undisturbed(s)
  /\ AnswerLostOnlyByRace

(* A step of s: the others see no change of the dict, or are disturbed.      *)
LEMMA RaceFrame ==
  ASSUME OwnTypeOK, RaceInv, NEW s \in Sessions,
         answered' \subseteq answered \union {s}, disturbed \subseteq disturbed',
         \A u \in Sessions \ {s} :
           /\ pc'[u] = pc[u] /\ seen'[u] = seen[u] /\ doomed'[u] = doomed[u]
           /\ active' = active \/ (pc[u] \in CleanupPoints => u \in disturbed'),
         s \in answered' => pc'[s] \notin StrategyPoints /\ (pc'[s] = "raised" => s \in disturbed'),
         Undisturbed(s)'
  PROVE  RaceInv'
<1>1. ASSUME NEW u \in Sessions \ {s}
      PROVE  /\ pc'[u] \in StrategyPoints => u \notin answered'
             /\ Undisturbed(u)'
             /\ u \in answered' /\ pc'[u] = "raised" => u \in disturbed'
  BY <1>1 DEF RaceInv, Undisturbed, CleanupPoints, AnswerLostOnlyByRace
<1>2. answered' \subseteq Sessions
  BY DEF OwnTypeOK
<1> QED
  BY <1>1, <1>2 DEF RaceInv, AnswerLostOnlyByRace

LEMMA RaceOutside ==
  ASSUME OwnTypeOK, RaceInv, UNCHANGED <<pc, seen, doomed, answered>>, disturbed \subseteq disturbed',
         \A u \in Sessions :
           active' = active \/ (pc[u] \in CleanupPoints => u \in disturbed')
  PROVE  RaceInv'
  BY DEF RaceInv, Undisturbed, CleanupPoints, AnswerLostOnlyByRace, OwnTypeOK

LEMMA RaceStep ==
  TokenTypeOK /\ OwnTypeOK /\ RaceInv /\ [Next]_vars => RaceInv'
<1> SUFFICES ASSUME TokenTypeOK, OwnTypeOK, RaceInv, [Next]_vars PROVE RaceInv'
  OBVIOUS
<1> USE DEF OwnTypeOK, TokenTypeOK
<1>1. ASSUME NEW s \in Sessions, Inject(s) \/ InjectIntoRule(s) PROVE RaceInv'
  <2>1. /\ pc[s] = "running" /\ pc' = [pc EXCEPT ![s] = "called"]
        /\ UNCHANGED <<seen, doomed, answered>>
        /\ disturbed' = disturbed \union {u \in Sessions \ {s} : pc[u] \in CleanupPoints}
    BY <1>1 DEF Inject, InjectIntoRule, Step, Disturb, cleanupVars
  <2>2. s \notin answered /\ pc'[s] = "called"
    BY <2>1 DEF RaceInv, StrategyPoints
  <2> QED
    BY <2>1, <2>2, RaceFrame DEF Undisturbed
<1>2. ASSUME NEW s \in Sessions, pc[s] \in StrategyPoints, UNCHANGED <<seen, doomed, active, disturbed>>,
             \/ UNCHANGED answered
                /\ \E p \in StrategyPoints \union {"raised"} : pc' = [pc EXCEPT ![s] = p]
             \/ answered' = answered \union {s} /\ pc' = [pc EXCEPT ![s] = "answered"]
      PROVE  RaceInv'
  <2>1. s \notin answered
    BY <1>2 DEF RaceInv
  <2>2. pc'[s] \notin {"collecting", "deleting"} /\ (s \in answered' => pc'[s] = "answered")
    BY <1>2, <2>1 DEF StrategyPoints, InCall
  <2> QED
    BY <1>2, <2>1, <2>2, RaceFrame DEF Undisturbed, StrategyPoints, InCall
<1>3. ASSUME NEW s \in Sessions,
             \/ TakeToken(s) \/ BeginUse(s) \/ NoUse(s) \/ CountUse(s) \/ EndUse(s) \/ Retry(s)
             \/ CallReturns(s) \/ StrategyRaises(s) \/ StrategyReturns(s)
      PROVE  RaceInv'
  <2>1. UNCHANGED <<seen, doomed, active, disturbed>>
    BY <1>3 DEF TakeToken, BeginUse, NoUse, CountUse, EndUse, Retry, CallReturns, StrategyRaises,
                StrategyReturns, WriteUses, CheckUses, credentialVars, cleanupVars
  <2>2. pc[s] \in StrategyPoints
    BY <1>3 DEF TakeToken, BeginUse, NoUse, CountUse, EndUse, Retry, CallReturns, StrategyRaises,
                StrategyReturns, Step, StrategyPoints, InCall
  <2>3. \/ UNCHANGED answered
           /\ \E p \in StrategyPoints \union {"raised"} : pc' = [pc EXCEPT ![s] = p]
        \/ answered' = answered \union {s} /\ pc' = [pc EXCEPT ![s] = "answered"]
    BY <1>3 DEF TakeToken, BeginUse, NoUse, CountUse, EndUse, Retry, CallReturns, StrategyRaises,
                StrategyReturns, Step, StrategyPoints, InCall
  <2> QED
    BY <1>2, <2>1, <2>2, <2>3
<1>4. ASSUME NEW s \in Sessions, LoadPrevious(s) \/ SaveTurn(s) PROVE RaceInv'
  <2>1. /\ pc' = [pc EXCEPT ![s] = "loaded"] \/ pc' = [pc EXCEPT ![s] = "collect"]
        /\ UNCHANGED <<seen, doomed, active, answered, disturbed>>
    BY <1>4 DEF LoadPrevious, SaveTurn, Step, credentialVars, cleanupVars
  <2> QED
    BY <2>1, RaceFrame DEF Undisturbed, StrategyPoints, InCall
<1>5. ASSUME NEW s \in Sessions, NextStage(s), UNCHANGED <<seen, doomed, active, answered, disturbed>>
      PROVE  RaceInv'
  <2>1. pc' = [pc EXCEPT ![s] = "ended"] \/ pc' = [pc EXCEPT ![s] = "collect"]
    BY <1>5 DEF NextStage
  <2> QED
    BY <1>5, <2>1, RaceFrame DEF Undisturbed, StrategyPoints, InCall
<1>6. ASSUME NEW s \in Sessions, BeginCollect(s) PROVE RaceInv'
  <2>1. CASE active = {}
    BY <1>5, <1>6, <2>1 DEF BeginCollect, credentialVars
  <2>2. CASE active # {}
    <3>1. /\ pc' = [pc EXCEPT ![s] = "collecting"] /\ seen' = [seen EXCEPT ![s] = active]
          /\ UNCHANGED <<active, doomed, answered, disturbed>>
      BY <1>6, <2>2 DEF BeginCollect, credentialVars
    <3>2. seen'[s] = active' /\ pc'[s] = "collecting"
      BY <3>1
    <3> QED
      BY <3>1, <3>2, RaceFrame DEF Undisturbed, StrategyPoints, InCall
  <2> QED
    BY <2>1, <2>2
<1>7. ASSUME NEW s \in Sessions, EndCollect(s) PROVE RaceInv'
  <2>1. PICK found \in Collected(s) : doomed' = [doomed EXCEPT ![s] = found]
    BY <1>7 DEF EndCollect
  <2>2. /\ pc[s] = "collecting" /\ pc' = [pc EXCEPT ![s] = "deleting"]
        /\ seen' = [seen EXCEPT ![s] = {}]
        /\ UNCHANGED <<active, answered, disturbed>>
    BY <1>7 DEF EndCollect, Step, credentialVars
  <2>3. s \notin disturbed => found \subseteq active
    BY <2>2 DEF Collected, RaceInv, Undisturbed
  <2>4. doomed'[s] = found /\ pc'[s] = "deleting"
    BY <2>1, <2>2
  <2> QED
    BY <2>1, <2>2, <2>3, <2>4, RaceFrame DEF Undisturbed, StrategyPoints, InCall
<1>8. ASSUME NEW s \in Sessions, s \in disturbed, pc' = [pc EXCEPT ![s] = "raised"],
             UNCHANGED <<active, answered, disturbed>>,
             \A u \in Sessions \ {s} : seen'[u] = seen[u] /\ doomed'[u] = doomed[u]
      PROVE  RaceInv'
  BY <1>8, RaceFrame DEF Undisturbed, StrategyPoints, InCall
<1>9. ASSUME NEW s \in Sessions, IterationRaises(s) PROVE RaceInv'
  <2>1. pc[s] = "collecting" /\ active # seen[s]
    BY <1>9 DEF IterationRaises, Step, SizeChanged
  <2>2. s \in disturbed
    BY <2>1 DEF RaceInv, Undisturbed
  <2> QED
    BY <1>8, <1>9, <2>2 DEF IterationRaises, Step, credentialVars
<1>10. ASSUME NEW s \in Sessions, DeleteRaises(s) PROVE RaceInv'
  <2>1. pc[s] = "deleting" /\ doomed[s] # {} /\ Min(doomed[s]) \notin active
    BY <1>10 DEF DeleteRaises, Step
  <2>2. doomed[s] \in SUBSET Nat
    BY TokensTyped
  <2>3. Min(doomed[s]) \in doomed[s]
    BY <2>1, <2>2, LeastIsOne
  <2>4. s \in disturbed
    BY <2>1, <2>3 DEF RaceInv, Undisturbed
  <2> QED
    BY <1>8, <1>10, <2>4 DEF DeleteRaises, Step, credentialVars
<1>11. ASSUME NEW s \in Sessions, DeleteToken(s) PROVE RaceInv'
  <2>1. PICK t : active' = active \ {t} /\ doomed' = [doomed EXCEPT ![s] = @ \ {t}]
    BY <1>11 DEF DeleteToken
  <2>2. /\ pc[s] = "deleting" /\ UNCHANGED <<pc, seen, answered>>
        /\ disturbed' = disturbed \union {u \in Sessions \ {s} : pc[u] \in CleanupPoints}
    BY <1>11 DEF DeleteToken, Disturb
  <2>3. Undisturbed(s)'
    BY <2>1, <2>2 DEF RaceInv, Undisturbed
  <2> QED
    BY <2>1, <2>2, <2>3, RaceFrame DEF StrategyPoints, InCall
<1>12. ASSUME NEW s \in Sessions, EndStage(s) PROVE RaceInv'
  BY <1>5, <1>12 DEF EndStage, credentialVars
<1>13. CASE Operator
  <2>1. /\ UNCHANGED <<pc, seen, doomed, answered>>
        /\ disturbed' = disturbed \union {u \in Sessions : pc[u] \in CleanupPoints}
    BY <1>13 DEF Operator, cleanupVars
  <2> QED
    BY <2>1, RaceOutside
<1>14. CASE ClearConversation \/ Clock \/ UNCHANGED vars
  <2>1. UNCHANGED <<pc, seen, doomed, active, answered, disturbed>>
    BY <1>14 DEF ClearConversation, Clock, Expire, vars, credentialVars, cleanupVars
  <2> QED
    BY <2>1, RaceOutside
<1> QED
  BY <1>1, <1>3, <1>4, <1>6, <1>7, <1>9, <1>10, <1>11, <1>12, <1>13, <1>14
  DEF Next, Run, Finalize, Finished

(* An answer is lost in the cleanup only to somebody's change of the dict    *)
(* meanwhile: a session alone with its broker always returns its answer.     *)
THEOREM AnswerLostOnlyByRaceHolds == Spec => []AnswerLostOnlyByRace
<1>1. Init => RaceInv
  BY DEF Init, RaceInv, Undisturbed, AnswerLostOnlyByRace
<1>2. TypeOK /\ RaceInv /\ [Next]_vars => RaceInv'
  BY RaceStep, TypeParts
<1>3. RaceInv => AnswerLostOnlyByRace
  BY DEF RaceInv
<1> QED
  BY <1>1, <1>2, <1>3, TypeCorrect, PTL DEF Spec

-----------------------------------------------------------------------------
(* A token that its session's cleanup has still to remove: its tool is none  *)
(* whose turn is over, and in its tool's turn it is found and collected.     *)
AwaitsCleanup(t, s) ==
  /\ pc[s] # "ended"
  /\ \E i \in DOMAIN ToolsOf[s] : ToolsOf[s][i] = tokens[t].tool
  /\ \A i \in 1..(stage[s] - 1) : ToolsOf[s][i] # tokens[t].tool
  /\ stage[s] > 0 /\ ToolsOf[s][stage[s]] = tokens[t].tool =>
       /\ pc[s] = "collecting" => t \in hits[s]
       /\ pc[s] = "deleting" => t \in doomed[s]

BeforeCleanup(s) == pc[s] \notin CleanupPoints \union {"ended", "raised"}

CleanupInv ==
  /\ \A s \in Sessions : BeforeCleanup(s) => stage[s] = 0
  /\ \A t \in active :
       pc[tokens[t].issuer] # "raised" => AwaitsCleanup(t, tokens[t].issuer)

(* A step of s, which may issue a token, leaves the others' tokens to them.  *)
LEMMA CleanupFrame ==
  ASSUME TokenTypeOK, CleanupInv, NEW s \in Sessions,
         \A t \in active' : /\ t \in active \/ tokens'[t].issuer = s
                            /\ t \in active => /\ tokens'[t].issuer = tokens[t].issuer
                                              /\ tokens'[t].tool = tokens[t].tool,
         \A u \in Sessions \ {s} : /\ pc'[u] = pc[u] /\ stage'[u] = stage[u]
                                   /\ hits'[u] = hits[u] /\ doomed'[u] = doomed[u],
         BeforeCleanup(s)' => stage'[s] = 0,
         \A t \in active' : tokens'[t].issuer = s /\ pc'[s] # "raised" => AwaitsCleanup(t, s)'
  PROVE  CleanupInv'
<1>1. ASSUME NEW u \in Sessions, BeforeCleanup(u)' PROVE stage'[u] = 0
  BY <1>1 DEF CleanupInv, BeforeCleanup
<1>2. ASSUME NEW t \in active', pc'[tokens'[t].issuer] # "raised"
      PROVE  \A u : u = tokens'[t].issuer => AwaitsCleanup(t, u)'
  <2>1. CASE tokens'[t].issuer = s
    BY <1>2, <2>1
  <2>2. CASE tokens'[t].issuer # s
    <3>0. t \in active /\ tokens[t].issuer \in Sessions
      BY <2>2, TokensTyped DEF TokenTypeOK, CredentialsTypeOK, TokenType
    <3>1. PICK u \in Sessions \ {s} :
            u = tokens[t].issuer /\ tokens'[t].issuer = u /\ tokens'[t].tool = tokens[t].tool
      BY <2>2, <3>0
    <3>2. t \in active /\ AwaitsCleanup(t, u)
      BY <1>2, <3>0, <3>1 DEF CleanupInv
    <3>3. AwaitsCleanup(t, u)'
      BY <3>1, <3>2 DEF AwaitsCleanup
    <3> QED
      BY <3>1, <3>3
  <2> QED
    BY <2>1, <2>2
<1> QED
  BY <1>1, <1>2 DEF CleanupInv

LEMMA CleanupOutside ==
  ASSUME CleanupInv, UNCHANGED <<tokens, pc, stage, hits, doomed>>, active' \subseteq active
  PROVE  CleanupInv'
  BY DEF CleanupInv, BeforeCleanup, AwaitsCleanup

(* The strategy runs: nothing has been cleaned up.                           *)
LEMMA CleanupRun ==
  ASSUME TokenTypeOK, OwnTypeOK, CleanupInv, NEW s \in Sessions, BeforeCleanup(s),
         UNCHANGED <<active, stage, hits, doomed>>,
         \A t \in active : tokens'[t].issuer = tokens[t].issuer /\ tokens'[t].tool = tokens[t].tool,
         \E p \in Points \ {"collecting", "deleting", "ended"} : pc' = [pc EXCEPT ![s] = p]
  PROVE  CleanupInv'
<1>1. stage[s] = 0 /\ pc[s] # "raised" /\ pc'[s] \notin {"collecting", "deleting", "ended"}
  BY DEF CleanupInv, BeforeCleanup, OwnTypeOK
<1>2. ASSUME NEW t \in active', tokens'[t].issuer = s PROVE AwaitsCleanup(t, s)'
  BY <1>1, <1>2 DEF CleanupInv, AwaitsCleanup
<1> QED
  BY <1>1, <1>2, CleanupFrame DEF OwnTypeOK

LEMMA CleanupInject ==
  ASSUME TokenTypeOK, OwnTypeOK, CleanupInv, NEW s \in Sessions, NEW i \in DOMAIN ToolsOf[s],
         NEW b \in BOOLEAN, Issue(s, ToolsOf[s][i], b), Step(s, "running", "called"),
         UNCHANGED <<stage, hits, doomed>>
  PROVE  CleanupInv'
<1> DEFINE n == Len(tokens) + 1
<1>1. ToolsOf[s][i] \in Tools
  BY SessionsAssumption, ElementOfSeq
<1>2. /\ \A t \in active : tokens'[t] = tokens[t]
      /\ tokens'[n].issuer = s /\ tokens'[n].tool = ToolsOf[s][i]
      /\ active' = active \union {n}
  <2>1. active \subseteq Issued /\ CredentialsTypeOK /\ active' = active \union {n}
    BY DEF TokenTypeOK, CredentialsTypeOK, Issue
  <2>2. /\ \A t \in Issued : tokens'[t] = tokens[t]
        /\ tokens'[n] = [tool |-> ToolsOf[s][i], uses |-> 0, issuer |-> s, inRule |-> b]
    BY <1>1, <2>1, IssueEffect
  <2> QED
    BY <2>1, <2>2
<1> HIDE DEF n
<1>3. stage[s] = 0 /\ pc[s] = "running" /\ pc' = [pc EXCEPT ![s] = "called"]
  BY DEF Step, CleanupInv, BeforeCleanup, CleanupPoints
<1>4. pc'[s] = "called" /\ stage'[s] = 0
  BY <1>3 DEF OwnTypeOK
<1>5. ASSUME NEW t \in active', tokens'[t].issuer = s PROVE AwaitsCleanup(t, s)'
  <2>1. \E k \in DOMAIN ToolsOf[s] : ToolsOf[s][k] = tokens'[t].tool
    BY <1>2, <1>3, <1>5 DEF CleanupInv, AwaitsCleanup
  <2> QED
    BY <1>4, <2>1 DEF AwaitsCleanup
<1> QED
  BY <1>2, <1>3, <1>4, <1>5, CleanupFrame DEF OwnTypeOK

(* A turn is over: what the session still has is of a later tool.            *)
LEMMA CleanupNext ==
  ASSUME TokenTypeOK, OwnTypeOK, CleanupInv, NEW s \in Sessions, NextStage(s),
         UNCHANGED <<tokens, active, hits, doomed>>, pc[s] \in CleanupPoints,
         active = {} \/ (pc[s] = "deleting" /\ doomed[s] = {})
  PROVE  CleanupInv'
<1>1. /\ Len(ToolsOf[s]) \in Nat /\ DOMAIN ToolsOf[s] = 1..Len(ToolsOf[s])
      /\ stage[s] \in Nat /\ stage[s] <= Len(ToolsOf[s]) /\ pc[s] # "raised"
  BY SessionsAssumption, LenProperties DEF OwnTypeOK, CleanupPoints
<1>2. ASSUME NEW t \in active, tokens[t].issuer = s
      PROVE  /\ \E i \in 1..Len(ToolsOf[s]) : ToolsOf[s][i] = tokens[t].tool
             /\ \A i \in 1..stage[s] : ToolsOf[s][i] # tokens[t].tool
  <2>1. AwaitsCleanup(t, s) /\ pc[s] = "deleting" /\ t \notin doomed[s]
    BY <1>1, <1>2 DEF CleanupInv
  <2>2. \A i \in 1..stage[s] : i \in 1..(stage[s] - 1) \/ (i = stage[s] /\ stage[s] > 0)
    BY <1>1
  <2> QED
    BY <1>1, <2>1, <2>2 DEF AwaitsCleanup
<1>3. CASE stage[s] = LastStage(s)
  <2>1. pc' = [pc EXCEPT ![s] = "ended"] /\ UNCHANGED stage
    BY <1>3 DEF NextStage
  <2>2. ~ \E t \in active : tokens[t].issuer = s
    BY <1>2, <1>3 DEF LastStage
  <2> QED
    BY <2>1, <2>2, CleanupFrame DEF OwnTypeOK, BeforeCleanup
<1>4. CASE stage[s] # LastStage(s)
  <2>1. pc' = [pc EXCEPT ![s] = "collect"] /\ stage' = [stage EXCEPT ![s] = @ + 1]
    BY <1>4 DEF NextStage
  <2>2. pc'[s] = "collect" /\ stage'[s] - 1 = stage[s]
    BY <1>1, <2>1 DEF OwnTypeOK
  <2>3. ASSUME NEW t \in active, tokens[t].issuer = s PROVE AwaitsCleanup(t, s)'
    BY <1>1, <1>2, <2>2, <2>3 DEF AwaitsCleanup
  <2> QED
    BY <2>1, <2>2, <2>3, CleanupFrame DEF OwnTypeOK, BeforeCleanup, CleanupPoints
<1> QED
  BY <1>3, <1>4

LEMMA CleanupCollect ==
  ASSUME TokenTypeOK, OwnTypeOK, CleanupInv, NEW s \in Sessions,
         \/ BeginCollect(s) /\ active # {}
         \/ EndCollect(s) \/ DeleteToken(s)
  PROVE  CleanupInv'
<1>1. /\ pc[s] \in CleanupPoints /\ pc'[s] \in CleanupPoints
      /\ UNCHANGED <<tokens, stage>> /\ active' \subseteq active
      /\ \A u \in Sessions \ {s} : pc'[u] = pc[u] /\ hits'[u] = hits[u] /\ doomed'[u] = doomed[u]
  BY DEF BeginCollect, EndCollect, DeleteToken, Step, CleanupPoints, credentialVars, OwnTypeOK,
         TokenTypeOK
<1>2. ASSUME NEW t \in active', tokens'[t].issuer = s PROVE AwaitsCleanup(t, s)'
  <2>1. t \in active /\ AwaitsCleanup(t, s)
    BY <1>1, <1>2 DEF CleanupInv, CleanupPoints
  <2>2. ASSUME stage[s] > 0, ToolsOf[s][stage[s]] = tokens[t].tool
        PROVE  /\ pc'[s] = "collecting" => t \in hits'[s]
               /\ pc'[s] = "deleting" => t \in doomed'[s]
    <3>1. CASE BeginCollect(s) /\ active # {}
      <4>1. Collects(s, t)
        BY <2>2 DEF Collects
      <4> QED
        BY <2>1, <3>1, <4>1 DEF BeginCollect, OwnTypeOK, TokenTypeOK
    <3>2. CASE EndCollect(s)
      <4>1. PICK found \in Collected(s) : doomed' = [doomed EXCEPT ![s] = found]
        BY <3>2 DEF EndCollect
      <4>2. t \in found
        BY <2>1, <2>2, <3>2 DEF EndCollect, Step, AwaitsCleanup, Collected
      <4> QED
        BY <3>2, <4>1, <4>2 DEF EndCollect, Step, OwnTypeOK, TokenTypeOK
    <3>3. CASE DeleteToken(s)
      <4>1. PICK d : active' = active \ {d} /\ doomed' = [doomed EXCEPT ![s] = @ \ {d}]
        BY <3>3 DEF DeleteToken
      <4>2. pc[s] = "deleting" /\ pc'[s] = "deleting" /\ t # d
        BY <1>2, <3>3, <4>1 DEF DeleteToken
      <4> QED
        BY <2>1, <2>2, <4>1, <4>2 DEF AwaitsCleanup, TokenTypeOK
    <3> QED
      BY <3>1, <3>2, <3>3
  <2> QED
    BY <1>1, <2>1, <2>2 DEF AwaitsCleanup, CleanupPoints
<1> QED
  BY <1>1, <1>2, CleanupFrame DEF BeforeCleanup

LEMMA CleanupStep ==
  ASSUME TokenTypeOK, OwnTypeOK, UseInv, CleanupInv, [Next]_vars
  PROVE  CleanupInv'
<1>1. ASSUME NEW s \in Sessions, Inject(s) \/ InjectIntoRule(s) PROVE CleanupInv'
  <2>1. PICK i \in DOMAIN ToolsOf[s], b \in BOOLEAN : Issue(s, ToolsOf[s][i], b)
    BY <1>1 DEF Inject, InjectIntoRule
  <2>2. Step(s, "running", "called") /\ UNCHANGED <<stage, hits, doomed>>
    BY <1>1 DEF Inject, InjectIntoRule, cleanupVars
  <2> QED
    BY <2>1, <2>2, CleanupInject
<1>2. ASSUME NEW s \in Sessions,
             \/ TakeToken(s) \/ BeginUse(s) \/ NoUse(s) \/ CountUse(s) \/ EndUse(s) \/ Retry(s)
             \/ CallReturns(s) \/ StrategyRaises(s) \/ StrategyReturns(s)
             \/ LoadPrevious(s) \/ SaveTurn(s)
      PROVE  CleanupInv'
  <2>1. \A t \in active : tokens'[t].issuer = tokens[t].issuer /\ tokens'[t].tool = tokens[t].tool
    <3>1. CASE CountUse(s)
      <4>1. using[s] \in Issued /\ read[s] + 1 \in Nat
        BY <3>1, UsingIssued DEF CountUse, Step, Holding, OwnTypeOK
      <4> QED
        BY <3>1, <4>1, WriteEffect DEF CountUse, TokenTypeOK, CredentialsTypeOK
    <3>2. CASE ~CountUse(s)
      BY <1>2, <3>2 DEF TakeToken, BeginUse, NoUse, EndUse, Retry, CallReturns, StrategyRaises,
                        StrategyReturns, LoadPrevious, SaveTurn, CheckUses, credentialVars
    <3> QED
      BY <3>1, <3>2
  <2>2. UNCHANGED <<active, stage, hits, doomed>>
    BY <1>2 DEF TakeToken, BeginUse, NoUse, CountUse, EndUse, Retry, CallReturns, StrategyRaises,
                StrategyReturns, LoadPrevious, SaveTurn, WriteUses, CheckUses, credentialVars,
                cleanupVars
  <2>3. /\ BeforeCleanup(s)
        /\ \E p \in Points \ {"collecting", "deleting", "ended"} : pc' = [pc EXCEPT ![s] = p]
    BY <1>2 DEF TakeToken, BeginUse, NoUse, CountUse, EndUse, Retry, CallReturns, StrategyRaises,
                StrategyReturns, LoadPrevious, SaveTurn, Step, BeforeCleanup, CleanupPoints, Points
  <2> QED
    BY <2>1, <2>2, <2>3, CleanupRun
<1>3. ASSUME NEW s \in Sessions, BeginCollect(s) \/ EndStage(s) PROVE CleanupInv'
  <2>1. CASE BeginCollect(s) /\ active # {}
    BY <2>1, CleanupCollect
  <2>2. CASE ~(BeginCollect(s) /\ active # {})
    BY <1>3, <2>2, CleanupNext DEF BeginCollect, EndStage, CleanupPoints, credentialVars
  <2> QED
    BY <2>1, <2>2
<1>4. ASSUME NEW s \in Sessions, EndCollect(s) \/ DeleteToken(s) PROVE CleanupInv'
  BY <1>4, CleanupCollect
<1>5. ASSUME NEW s \in Sessions, IterationRaises(s) \/ DeleteRaises(s) PROVE CleanupInv'
  <2>1. /\ pc'[s] = "raised" /\ UNCHANGED <<tokens, active, stage>>
        /\ \A u \in Sessions \ {s} : pc'[u] = pc[u] /\ hits'[u] = hits[u] /\ doomed'[u] = doomed[u]
    BY <1>5 DEF IterationRaises, DeleteRaises, Step, credentialVars, OwnTypeOK, TokenTypeOK
  <2> QED
    BY <2>1, CleanupFrame DEF BeforeCleanup
<1>6. CASE ClearConversation \/ Operator \/ Clock \/ UNCHANGED vars
  <2>1. UNCHANGED <<tokens, pc, stage, hits, doomed>> /\ active' \subseteq active
    BY <1>6 DEF ClearConversation, Operator, Clock, RevokeAll, RevokeToken, Expire, vars,
                credentialVars, cleanupVars
  <2> QED
    BY <2>1, CleanupOutside
<1> QED
  BY <1>1, <1>2, <1>3, <1>4, <1>5, <1>6 DEF Next, Run, Finalize, Finished

(* A session that has ended leaves none of its tokens behind, whatever its   *)
(* tools, what it was issued, and what other sessions and the operator do to *)
(* the broker while it cleans up.                                            *)
THEOREM EndedLeaveNoTokensHolds == Spec => []EndedLeaveNoTokens
<1>1. Init => CleanupInv
  BY DEF Init, CredentialsInit, CleanupInv
<1>2. TypeOK /\ UseInv /\ CleanupInv /\ [Next]_vars => CleanupInv'
  BY CleanupStep, TypeParts
<1>3. CleanupInv => EndedLeaveNoTokens
  BY DEF CleanupInv, AwaitsCleanup, EndedLeaveNoTokens
<1> QED
  BY <1>1, <1>2, <1>3, Invariant, PTL DEF Spec
=============================================================================
