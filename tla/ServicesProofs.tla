--------------------------- MODULE ServicesProofs ---------------------------
(***************************************************************************)
(* Theorems about the approval store, the retrying model adapter, the      *)
(* secret cache, the event log, the circuit breaker and the rate limiter,  *)
(* for any requests, threads, readers, callers, limits and bounds.         *)
(***************************************************************************)
EXTENDS ApprovalStore, ModelRetry, VaultCache, EventLog, CircuitBreaker, RateLimiter,
        SequenceTheorems, FiniteSetTheorems, TLAPS

(* What a request's status says about its history: only a consumed one or    *)
(* one that was denied later has been used.                                  *)
Unused(r) == grants[r] = 0 /\ r \notin deniedUnused

ApprovalInv ==
  /\ ApprovalTypeOK
  /\ \A r \in Requests : requestStatus[r] \in {"absent", "pending", "approved"} => Unused(r)
  /\ OneUsePerApproval

LEMMA ApprovalStep == ApprovalInv /\ [ApprovalNext]_approvalVars => ApprovalInv'
  <1> SUFFICES ASSUME ApprovalInv, [ApprovalNext]_approvalVars PROVE ApprovalInv'
    OBVIOUS
  <1> USE DEF ApprovalInv, ApprovalTypeOK, ApprovalStatus, Unused, OneUsePerApproval
  <1>1. ASSUME NEW r \in Requests, CreateApproval(r) PROVE ApprovalInv'
    BY <1>1 DEF CreateApproval
  <1>2. ASSUME NEW r \in Requests, Approve(r) PROVE ApprovalInv'
    BY <1>2 DEF Approve, Approvable
  <1>3. ASSUME NEW r \in Requests, Deny(r) PROVE ApprovalInv'
    BY <1>3 DEF Deny
  <1>4. ASSUME NEW r \in Requests, Consume(r) PROVE ApprovalInv'
    BY <1>4 DEF Consume
  <1>5. CASE UNCHANGED approvalVars
    BY <1>5 DEF approvalVars
  <1> QED
    BY <1>1, <1>2, <1>3, <1>4, <1>5 DEF ApprovalNext

LEMMA ApprovalInductive == ApprovalSpec => []ApprovalInv
  <1>1. ApprovalInit => ApprovalInv
    BY DEF ApprovalInit, ApprovalInv, ApprovalTypeOK, ApprovalStatus, Unused, OneUsePerApproval
  <1> QED
    BY <1>1, ApprovalStep, PTL DEF ApprovalSpec

(* Every reachable state of the approval store is well typed.                *)
THEOREM ApprovalTypeCorrect == ApprovalSpec => []ApprovalTypeOK
  <1>1. ApprovalInv => ApprovalTypeOK
    BY DEF ApprovalInv
  <1> QED
    BY <1>1, ApprovalInductive, PTL

(* An approval is used once at most, and never after a denial, for any       *)
(* number of requests and any order of approve, deny and consume.            *)
THEOREM OneUseHolds == ApprovalSpec => []OneUsePerApproval
  <1>1. ApprovalInv => OneUsePerApproval
    BY DEF ApprovalInv
  <1> QED
    BY <1>1, ApprovalInductive, PTL

-----------------------------------------------------------------------------
(* A query that no other has overlapped is the only one under way and has    *)
(* the statistics as it has reset them.                                      *)
AloneFresh ==
  \A u \in querying \ overlapped : querying = {u} /\ retryCount = 0 /\ lastError = FALSE

RetryInv == RetryTypeOK /\ AloneFresh /\ StatsBelong

LEMMA NoRetryInRange == 0 \in 0 .. MaxRetries
  BY RetryAssumption

LEMMA NoReportNotAlone == NoReport.alone = FALSE
  BY DEF NoReport

LEMMA RetryStep == RetryInv /\ [RetryNext]_retryVars => RetryInv'
  <1> SUFFICES ASSUME RetryInv, [RetryNext]_retryVars PROVE RetryInv'
    OBVIOUS
  <1> USE RetryAssumption DEF RetryInv, RetryTypeOK
  <1>1. ASSUME NEW u \in Queriers, BeginQuery(u) PROVE RetryInv'
    <2>1. RetryTypeOK' /\ AloneFresh'
      <3>1. /\ retryCount' \in 0 .. MaxRetries /\ lastError' \in BOOLEAN
            /\ attempts' \in [Queriers -> 0 .. MaxRetries]
        BY <1>1, NoRetryInRange DEF BeginQuery, CountAtStart
      <3>2. AloneFresh'
        BY <1>1 DEF BeginQuery, AloneFresh, CountAtStart
      <3> QED
        BY <1>1, <3>1, <3>2 DEF BeginQuery
    <2>2. StatsBelong'
      BY <1>1, NoReportNotAlone DEF BeginQuery, StatsBelong
    <2> QED
      BY <2>1, <2>2
  <1>2. ASSUME NEW u \in Queriers, Retry(u) PROVE RetryInv'
    <2>1. RetryTypeOK' /\ AloneFresh'
      BY <1>2 DEF Retry, AloneFresh
    <2>2. StatsBelong'
      BY <1>2 DEF Retry, StatsBelong
    <2> QED
      BY <2>1, <2>2
  <1>3. ASSUME NEW u \in Queriers, AnswerQuery(u) PROVE RetryInv'
    <2>1. RetryTypeOK' /\ AloneFresh'
      BY <1>3 DEF AnswerQuery, EndQuery, AloneFresh
    <2>2. StatsBelong'
      BY <1>3 DEF AnswerQuery, EndQuery, AloneFresh, StatsBelong
    <2> QED
      BY <2>1, <2>2
  <1>4. ASSUME NEW u \in Queriers, ExhaustRetries(u) PROVE RetryInv'
    BY <1>4 DEF ExhaustRetries, EndQuery, AloneFresh, StatsBelong
  <1>5. ASSUME NEW u \in Queriers, QueryRaises(u) PROVE RetryInv'
    BY <1>5 DEF QueryRaises, EndQuery, AloneFresh, StatsBelong
  <1>6. CASE ResetStats
    <2>1. RetryTypeOK' /\ AloneFresh'
      <3>1. retryCount' \in 0 .. MaxRetries /\ lastError' \in BOOLEAN
        BY <1>6, NoRetryInRange DEF ResetStats
      <3> QED
        BY <1>6, <3>1 DEF ResetStats, AloneFresh
    <2>2. StatsBelong'
      BY <1>6, NoReportNotAlone DEF ResetStats, StatsBelong
    <2> QED
      BY <2>1, <2>2
  <1>7. CASE UNCHANGED retryVars
    BY <1>7 DEF retryVars, AloneFresh, StatsBelong
  <1> QED
    BY <1>1, <1>2, <1>3, <1>4, <1>5, <1>6, <1>7 DEF RetryNext

LEMMA RetryInductive == RetrySpec => []RetryInv
  <1>1. RetryInit => RetryInv
    <2>1. RetryInit => retryCount \in 0 .. MaxRetries /\ attempts \in [Queriers -> 0 .. MaxRetries]
      BY NoRetryInRange DEF RetryInit
    <2>2. RetryInit => StatsBelong
      BY NoReportNotAlone DEF RetryInit, StatsBelong
    <2> QED
      BY <2>1, <2>2 DEF RetryInit, RetryInv, RetryTypeOK, AloneFresh
  <1> QED
    BY <1>1, RetryStep, PTL DEF RetrySpec

(* Every reachable state of the retrying adapter is well typed: in           *)
(* particular no query is retried more than MaxRetries times.                *)
THEOREM RetryTypeCorrect == RetrySpec => []RetryTypeOK
  <1>1. RetryInv => RetryTypeOK
    BY DEF RetryInv
  <1> QED
    BY <1>1, RetryInductive, PTL

(* The statistics a query leaves are its own if no other overlapped it, for  *)
(* any number of threads and retries.                                        *)
THEOREM StatsBelongHolds == RetrySpec => []StatsBelong
  <1>1. RetryInv => StatsBelong
    BY DEF RetryInv
  <1> QED
    BY <1>1, RetryInductive, PTL

-----------------------------------------------------------------------------
(* An answer older than the last clear_cache was held across it.             *)
AnswersHeld ==
  \A r \in Readers :
    asking[r] = "answered" => answered[r] >= cleared \/ answered[r] \in held

VaultInv ==
  /\ VaultTypeOK
  /\ cleared \in 0 .. version
  /\ AnswersHeld
  /\ StaleOnlyWhenHeld

LEMMA VaultStep == VaultInv /\ [VaultNext]_vaultVars => VaultInv'
  <1> SUFFICES ASSUME VaultInv, [VaultNext]_vaultVars PROVE VaultInv'
    OBVIOUS
  <1> USE VaultAssumption DEF VaultInv, VaultTypeOK, AnswersHeld, StaleOnlyWhenHeld
  <1>1. ASSUME NEW r \in Readers, AskVault(r) PROVE VaultInv'
    BY <1>1 DEF AskVault
  <1>2. ASSUME NEW r \in Readers, VaultAnswers(r) PROVE VaultInv'
    BY <1>2 DEF VaultAnswers
  <1>3. ASSUME NEW r \in Readers, VaultRaises(r) PROVE VaultInv'
    BY <1>3 DEF VaultRaises
  <1>4. ASSUME NEW r \in Readers, StoreSecret(r) PROVE VaultInv'
    BY <1>4 DEF StoreSecret
  <1>5. CASE ClearCache
    BY <1>5 DEF ClearCache, Cleared
  <1>6. CASE Rotate
    BY <1>6 DEF Rotate
  <1>7. CASE UNCHANGED vaultVars
    BY <1>7 DEF vaultVars
  <1> QED
    BY <1>1, <1>2, <1>3, <1>4, <1>5, <1>6, <1>7 DEF VaultNext

LEMMA VaultInductive == VaultSpec => []VaultInv
  <1>1. VaultInit => VaultInv
    BY VaultAssumption DEF VaultInit, VaultInv, VaultTypeOK, AnswersHeld, StaleOnlyWhenHeld
  <1> QED
    BY <1>1, VaultStep, PTL DEF VaultSpec

(* Every reachable state of the cache is well typed: it holds nothing newer  *)
(* than the secret in Vault.                                                 *)
THEOREM VaultTypeCorrect == VaultSpec => []VaultTypeOK
  <1>1. VaultInv => VaultTypeOK
    BY DEF VaultInv
  <1> QED
    BY <1>1, VaultInductive, PTL

(* A secret from before the last clear is served only if a reader held it    *)
(* across the clear, for any number of readers and rotations.                *)
THEOREM StaleOnlyWhenHeldHolds == VaultSpec => []StaleOnlyWhenHeld
  <1>1. VaultInv => StaleOnlyWhenHeld
    BY DEF VaultInv
  <1> QED
    BY <1>1, VaultInductive, PTL

-----------------------------------------------------------------------------
(* Threads that emit do so for different events, none of which has returned; *)
(* the file holds events that were logged, and what returned before an event *)
(* was logged stays returned.                                                *)
Busy(t) == emitPc[t] \in {"store", "sinks"}

EventsOwned ==
  /\ \A t \in Emitters :
       Busy(t) => emitting[t] \in 1 .. logged /\ emitting[t] \notin returned
  /\ \A t, u \in Emitters : Busy(t) /\ Busy(u) /\ emitting[t] = emitting[u] => t = u

FileLogged == \A i \in 1 .. Len(file) : file[i].event \in 1 .. logged

ReturnedBefore ==
  /\ returned \subseteq 1 .. logged
  /\ \A e \in 1 .. EventBound : earlier[e] \subseteq returned

LogTypes ==
  /\ emitPc \in [Emitters -> {"idle", "store", "sinks"}]
  /\ emitting \in [Emitters -> 0 .. EventBound]
  /\ logged \in 0 .. EventBound
  /\ file \in Seq(Pieces)
  /\ earlier \in [1 .. EventBound -> SUBSET (1 .. EventBound)]

LogInv == LogTypes /\ EventsOwned /\ FileLogged /\ ReturnedBefore /\ FileOrder

(* A write of an event that has not returned keeps the order.                *)
LEMMA AppendKeepsOrder ==
  ASSUME LogInv, NEW piece \in Pieces, piece.event \notin returned,
         piece.event \in 1 .. logged, file' = Append(file, piece),
         UNCHANGED <<logged, returned, earlier>>
  PROVE  file' \in Seq(Pieces) /\ FileLogged' /\ FileOrder'
  <1> USE DEF LogInv, LogTypes
  <1>1. /\ Len(file) \in Nat /\ Len(file') = Len(file) + 1
        /\ \A i \in 1 .. Len(file) : file'[i] = file[i]
        /\ file'[Len(file) + 1] = piece
        /\ file' \in Seq(Pieces)
    OBVIOUS
  <1>2. DOMAIN file = 1 .. Len(file) /\ DOMAIN file' = 1 .. Len(file')
    BY <1>1
  <1>3. \A i \in 1 .. Len(file') : file'[i].event \in 1 .. logged
    BY <1>1 DEF FileLogged
  <1>4. FileLogged'
    BY <1>3 DEF FileLogged
  <1>5. ASSUME NEW i \in 1 .. Len(file'), NEW j \in 1 .. Len(file'), i < j
        PROVE  file'[j].event \notin earlier[file'[i].event]
    <2>1. i \in 1 .. Len(file)
      BY <1>1, <1>5
    <2>2. file'[i].event \in 1 .. EventBound
      BY <1>3, EventAssumption
    <2>3. CASE j \in 1 .. Len(file)
      BY <1>1, <1>2, <1>5, <2>1, <2>3 DEF FileOrder
    <2>4. CASE j = Len(file) + 1
      BY <1>1, <2>2, <2>4 DEF ReturnedBefore
    <2> QED
      BY <1>1, <2>3, <2>4
  <1>6. FileOrder'
    BY <1>2, <1>5 DEF FileOrder
  <1> QED
    BY <1>1, <1>4, <1>6

LEMMA LogStep == LogInv /\ [EventNext]_eventVars => LogInv'
  <1> SUFFICES ASSUME LogInv, [EventNext]_eventVars PROVE LogInv'
    OBVIOUS
  <1> USE DEF LogInv, LogTypes
  <1>0. EventBound \in Nat /\ 0 \in 0 .. EventBound
    BY EventAssumption
  <1>1. ASSUME NEW t \in Emitters, LogEvent(t) PROVE LogInv'
    <2>1. /\ logged' = logged + 1 /\ logged' \in 1 .. EventBound
          /\ UNCHANGED <<file, returned>>
      BY <1>0, <1>1 DEF LogEvent
    <2>2. LogTypes'
      <3>1. returned \subseteq 1 .. EventBound
        BY <1>0 DEF ReturnedBefore
      <3> QED
        BY <1>0, <1>1, <2>1, <3>1 DEF LogEvent
    <2>3. EventsOwned'
      <3>1. \A u \in Emitters \ {t} : (Busy(u)' <=> Busy(u)) /\ emitting'[u] = emitting[u]
        BY <1>1 DEF LogEvent, Busy
      <3>2. emitting'[t] = logged + 1 /\ logged + 1 \notin returned
        BY <1>1 DEF LogEvent, ReturnedBefore
      <3>3. ASSUME NEW u \in Emitters, Busy(u)'
            PROVE  /\ emitting'[u] \in 1 .. logged' /\ emitting'[u] \notin returned'
                   /\ u # t => emitting'[u] # logged + 1
        <4>1. CASE u = t
          BY <2>1, <3>2, <4>1
        <4>2. CASE u # t
          BY <2>1, <3>1, <3>3, <4>2 DEF EventsOwned
        <4> QED
          BY <4>1, <4>2
      <3>4. ASSUME NEW u \in Emitters, NEW v \in Emitters, Busy(u)', Busy(v)',
                   emitting'[u] = emitting'[v]
            PROVE  u = v
        BY <3>1, <3>2, <3>3, <3>4 DEF EventsOwned
      <3> QED
        BY <3>3, <3>4 DEF EventsOwned
    <2>4. FileLogged'
      BY <2>1 DEF FileLogged
    <2>5. ReturnedBefore'
      BY <1>0, <1>1, <2>1 DEF ReturnedBefore, LogEvent
    <2>6. FileOrder'
      <3>1. \A e \in 1 .. logged : earlier'[e] = earlier[e]
        BY <1>0, <1>1, <2>1 DEF LogEvent
      <3>2. DOMAIN file = 1 .. Len(file)
        OBVIOUS
      <3> QED
        BY <2>1, <3>1, <3>2 DEF FileOrder, FileLogged
    <2> QED
      BY <2>2, <2>3, <2>4, <2>5, <2>6
  <1>2. ASSUME NEW t \in Emitters, StoreEvent(t) PROVE LogInv'
    <2> DEFINE piece == [event |-> emitting[t], whole |-> TRUE, newline |-> TRUE]
    <2>1. /\ emitPc[t] = "store" /\ file' = Append(file, piece)
          /\ UNCHANGED <<emitting, logged, returned, earlier>>
          /\ emitPc' = [emitPc EXCEPT ![t] = "sinks"]
      BY <1>2 DEF StoreEvent, Written
    <2>2. emitting[t] \in 1 .. logged /\ emitting[t] \notin returned
      BY <2>1 DEF EventsOwned, Busy
    <2>3. piece \in Pieces /\ piece.event = emitting[t]
      BY <1>0, <2>2 DEF Pieces
    <2>4. file' \in Seq(Pieces) /\ FileLogged' /\ FileOrder'
      BY <2>1, <2>2, <2>3, AppendKeepsOrder
    <2> QED
      BY <2>1, <2>4 DEF EventsOwned, Busy, ReturnedBefore
  <1>3. ASSUME NEW t \in Emitters, StoreRaises(t) PROVE LogInv'
    BY <1>3 DEF StoreRaises, EventsOwned, Busy, ReturnedBefore, FileLogged, FileOrder
  <1>4. ASSUME NEW t \in Emitters, NEW all \in BOOLEAN, emitPc[t] = "store",
               file' = Append(file, TornPiece(t, all)), UNCHANGED <<logged, returned, earlier>>
        PROVE  file' \in Seq(Pieces) /\ FileLogged' /\ FileOrder'
    <2>1. emitting[t] \in 1 .. logged /\ emitting[t] \notin returned
      BY <1>4 DEF EventsOwned, Busy
    <2>2. TornPiece(t, all) \in Pieces /\ TornPiece(t, all).event = emitting[t]
      BY <1>0, <2>1 DEF Pieces, TornPiece
    <2> QED
      BY <1>4, <2>1, <2>2, AppendKeepsOrder
  <1>5. ASSUME NEW t \in Emitters, StoreTears(t) PROVE LogInv'
    <2>1. file' \in Seq(Pieces) /\ FileLogged' /\ FileOrder'
      BY <1>4, <1>5 DEF StoreTears, Written
    <2> QED
      BY <1>5, <2>1 DEF StoreTears, EventsOwned, Busy, ReturnedBefore
  <1>6. ASSUME NEW t \in Emitters, CallSinks(t) PROVE LogInv'
    <2>1. /\ emitPc[t] = "sinks" /\ returned' = returned \cup {emitting[t]}
          /\ UNCHANGED <<logged, file, earlier>>
      BY <1>6 DEF CallSinks
    <2>2. LogTypes'
      BY <1>0, <1>6 DEF CallSinks
    <2>3. EventsOwned'
      BY <1>6, <2>1 DEF CallSinks, EventsOwned, Busy
    <2>4. ReturnedBefore'
      BY <2>1 DEF ReturnedBefore, EventsOwned, Busy
    <2> QED
      BY <2>1, <2>2, <2>3, <2>4 DEF FileLogged, FileOrder
  <1>7. ASSUME CrashEmitters PROVE LogInv'
    <2>1. file' \in Seq(Pieces) /\ FileLogged' /\ FileOrder'
      <3>1. CASE UNCHANGED file
        BY <1>7, <3>1 DEF CrashEmitters, FileLogged, FileOrder
      <3> QED
        BY <1>4, <1>7, <3>1 DEF CrashEmitters, Written
    <2> QED
      BY <1>0, <1>7, <2>1 DEF CrashEmitters, EventsOwned, Busy, ReturnedBefore
  <1>8. CASE Subscribe \/ ClearEvents \/ UNCHANGED eventVars
    BY <1>8 DEF Subscribe, ClearEvents, eventVars, EventsOwned, Busy, ReturnedBefore,
                FileLogged, FileOrder
  <1> QED
    BY <1>1, <1>2, <1>3, <1>5, <1>6, <1>7, <1>8 DEF EventNext

(* The file keeps the order of emits that did not overlap, through crashes   *)
(* and torn lines, for any number of threads and events.                     *)
THEOREM FileOrderHolds == EventSpec => []FileOrder
  <1>1. EventInit => LogInv
    BY EventAssumption
    DEF EventInit, LogInv, LogTypes, EventsOwned, Busy, FileLogged, ReturnedBefore, FileOrder,
        Pieces
  <1>2. LogInv => FileOrder
    BY DEF LogInv
  <1> QED
    BY <1>1, <1>2, LogStep, PTL DEF EventSpec

-----------------------------------------------------------------------------
(* Events of the log that no thread is about to write and that have no line  *)
(* of their own in the file: each has been counted.                          *)
AtStore(e) == \E t \in Emitters : emitPc[t] = "store" /\ emitting[t] = e

HasLine(e) ==
  \E i \in 1 .. Len(file) : file[i].event = e /\ file[i].whole /\ file[i].newline

Unwritten == {e \in events : ~AtStore(e) /\ ~HasLine(e)}

(* Where the file has a piece without its newline.                           *)
TornAt == {i \in 1 .. Len(file) : ~file[i].newline}

(* A piece with its newline is the whole of its event.                       *)
PiecesWhole == \A i \in 1 .. Len(file) : file[i].newline => file[i].whole

LossInv ==
  /\ LogInv
  /\ events \subseteq 1 .. logged
  /\ errorCount \in Nat /\ torn \in Nat
  /\ Cardinality(Unwritten) <= errorCount
  /\ Cardinality(TornAt) <= torn

(* What a set that gains one element at most can hold.                       *)
LEMMA OneMore ==
  ASSUME NEW S, NEW T, NEW x, IsFiniteSet(S), T \subseteq S \cup {x}
  PROVE  IsFiniteSet(T) /\ Cardinality(T) <= Cardinality(S) + 1
  <1>1. /\ IsFiniteSet(S \cup {x}) /\ Cardinality(S) \in Nat
        /\ Cardinality(S \cup {x}) = IF x \in S THEN Cardinality(S) ELSE Cardinality(S) + 1
    BY FS_AddElement, FS_CardinalityType
  <1>2. IsFiniteSet(T) /\ Cardinality(T) <= Cardinality(S \cup {x})
    BY <1>1, FS_Subset
  <1>3. Cardinality(T) \in Nat /\ Cardinality(S \cup {x}) \in Nat
    BY <1>1, <1>2, FS_CardinalityType
  <1> QED
    BY <1>1, <1>2, <1>3

LEMMA NoMore ==
  ASSUME NEW S, NEW T, IsFiniteSet(S), T \subseteq S
  PROVE  IsFiniteSet(T) /\ Cardinality(T) <= Cardinality(S)
  BY FS_Subset

LEMMA LossFinite ==
  ASSUME LossInv
  PROVE  /\ IsFiniteSet(Unwritten) /\ Cardinality(Unwritten) \in Nat
         /\ IsFiniteSet(TornAt) /\ Cardinality(TornAt) \in Nat
         /\ Len(file) \in Nat
  <1>1. Unwritten \subseteq 1 .. logged /\ logged \in Nat /\ Len(file) \in Nat
    <2>1. events \subseteq 1 .. logged /\ logged \in Nat /\ file \in Seq(Pieces)
      BY EventAssumption DEF LossInv, LogInv, LogTypes
    <2> QED
      BY <2>1, LenProperties DEF Unwritten
  <1>2. IsFiniteSet(1 .. logged) /\ IsFiniteSet(1 .. Len(file))
    BY <1>1, FS_Interval
  <1>3. TornAt \subseteq 1 .. Len(file)
    BY DEF TornAt
  <1>4. IsFiniteSet(Unwritten) /\ IsFiniteSet(TornAt)
    BY <1>1, <1>2, <1>3, FS_Subset
  <1> QED
    BY <1>1, <1>4, FS_CardinalityType

(* A write adds a line at the end: what has a line keeps it, and one more    *)
(* piece at most is without its newline.                                     *)
LEMMA AppendKeepsLines ==
  ASSUME LossInv, NEW piece \in Pieces, file' = Append(file, piece)
  PROVE  /\ \A e : HasLine(e) => HasLine(e)'
         /\ piece.whole /\ piece.newline => HasLine(piece.event)'
         /\ TornAt' \subseteq TornAt \cup {Len(file) + 1}
         /\ piece.newline => TornAt' \subseteq TornAt
  <1>1. /\ Len(file) \in Nat /\ Len(file') = Len(file) + 1
        /\ \A i \in 1 .. Len(file) : file'[i] = file[i]
        /\ file'[Len(file) + 1] = piece
    BY DEF LossInv, LogInv, LogTypes
  <1>2. ASSUME NEW e, HasLine(e) PROVE HasLine(e)'
    BY <1>1, <1>2 DEF HasLine
  <1>3. piece.whole /\ piece.newline => HasLine(piece.event)'
    BY <1>1 DEF HasLine
  <1>4. ASSUME NEW i \in TornAt', i \notin TornAt
        PROVE  i = Len(file) + 1 /\ ~piece.newline
    BY <1>1, <1>4 DEF TornAt
  <1> QED
    BY <1>2, <1>3, <1>4

(* A step of the store: the event it was about to write is the only one that *)
(* can be unwritten afterwards and was not before.                           *)
LEMMA StoreStep ==
  ASSUME LossInv, NEW t \in Emitters, emitPc[t] = "store",
         emitPc' = [emitPc EXCEPT ![t] = "sinks"], UNCHANGED <<emitting, events>>,
         \A e : HasLine(e) => HasLine(e)'
  PROVE  Unwritten' \subseteq Unwritten \cup ({emitting[t]} \cap Unwritten')
  <1>1. \A e : AtStore(e) => AtStore(e)' \/ e = emitting[t]
    BY DEF AtStore, LossInv, LogInv, LogTypes
  <1> QED
    BY <1>1 DEF Unwritten

LEMMA LossStep == LossInv /\ [EventNext]_eventVars => LossInv'
  <1> SUFFICES ASSUME LossInv, [EventNext]_eventVars PROVE LossInv'
    OBVIOUS
  <1>1. LogInv' /\ emitPc \in [Emitters -> {"idle", "store", "sinks"}] /\ logged \in Nat
        /\ errorCount \in Nat /\ torn \in Nat /\ events \subseteq 1 .. logged
        /\ Cardinality(Unwritten) <= errorCount /\ Cardinality(TornAt) <= torn
    BY LogStep, EventAssumption DEF LossInv, LogInv, LogTypes
  <1>2. /\ IsFiniteSet(Unwritten) /\ Cardinality(Unwritten) \in Nat
        /\ IsFiniteSet(TornAt) /\ Cardinality(TornAt) \in Nat
    BY LossFinite
  <1>3. ASSUME NEW t \in Emitters, LogEvent(t) PROVE LossInv'
    <2>1. /\ events' = events \cup {logged + 1} /\ logged' = logged + 1
          /\ UNCHANGED <<errorCount, torn, file>>
      BY <1>3 DEF LogEvent
    <2>2. Unwritten' \subseteq Unwritten
      <3>0. /\ emitPc[t] = "idle"
            /\ emitPc' = [emitPc EXCEPT ![t] = "store"]
            /\ emitting' = [emitting EXCEPT ![t] = logged + 1]
            /\ emitting \in [Emitters -> 0 .. EventBound]
        BY <1>3 DEF LogEvent, LossInv, LogInv, LogTypes
      <3>1. \A e : AtStore(e)' <=> e = logged + 1 \/ AtStore(e)
        BY <1>1, <3>0 DEF AtStore
      <3>2. \A e : HasLine(e)' <=> HasLine(e)
        BY <2>1 DEF HasLine
      <3> QED
        BY <2>1, <3>1, <3>2 DEF Unwritten
    <2>3. TornAt' = TornAt
      BY <2>1 DEF TornAt
    <2>4. Cardinality(Unwritten') <= Cardinality(Unwritten) /\ Cardinality(Unwritten') \in Nat
      BY <1>2, <2>2, NoMore, FS_CardinalityType
    <2> QED
      BY <1>1, <1>2, <2>1, <2>3, <2>4 DEF LossInv
  <1>4. ASSUME NEW t \in Emitters, StoreEvent(t) PROVE LossInv'
    <2> DEFINE piece == [event |-> emitting[t], whole |-> TRUE, newline |-> TRUE]
    <2>1. /\ emitPc[t] = "store" /\ emitPc' = [emitPc EXCEPT ![t] = "sinks"]
          /\ file' = Append(file, piece)
          /\ UNCHANGED <<emitting, events, logged, errorCount, torn>>
      BY <1>4 DEF StoreEvent, Written
    <2>2. piece \in Pieces /\ piece.event = emitting[t] /\ piece.whole /\ piece.newline
      BY <2>1, EventAssumption DEF Pieces, LossInv, LogInv, LogTypes, EventsOwned, Busy
    <2> HIDE DEF piece
    <2>3. /\ \A e : HasLine(e) => HasLine(e)'
          /\ HasLine(emitting[t])'
          /\ TornAt' \subseteq TornAt
      BY <2>1, <2>2, AppendKeepsLines
    <2>4. Unwritten' \subseteq Unwritten
      BY <2>1, <2>3, StoreStep DEF Unwritten
    <2>5. /\ Cardinality(Unwritten') <= Cardinality(Unwritten) /\ Cardinality(Unwritten') \in Nat
          /\ Cardinality(TornAt') <= Cardinality(TornAt) /\ Cardinality(TornAt') \in Nat
      BY <1>2, <2>3, <2>4, NoMore, FS_CardinalityType
    <2> QED
      BY <1>1, <1>2, <2>1, <2>5 DEF LossInv
  <1>5. ASSUME NEW t \in Emitters, StoreRaises(t) PROVE LossInv'
    <2>1. /\ emitPc[t] = "store" /\ emitPc' = [emitPc EXCEPT ![t] = "sinks"]
          /\ errorCount' = errorCount + 1
          /\ UNCHANGED <<emitting, events, logged, torn, file>>
      BY <1>5 DEF StoreRaises, CountFailure
    <2>2. \A e : HasLine(e) => HasLine(e)'
      BY <2>1 DEF HasLine
    <2>3. Unwritten' \subseteq Unwritten \cup {emitting[t]} /\ TornAt' = TornAt
      BY <2>1, <2>2, StoreStep DEF TornAt
    <2>4. Cardinality(Unwritten') <= Cardinality(Unwritten) + 1 /\ Cardinality(Unwritten') \in Nat
      BY <1>2, <2>3, OneMore, FS_CardinalityType
    <2> QED
      BY <1>1, <1>2, <2>1, <2>3, <2>4 DEF LossInv
  <1>6. ASSUME NEW t \in Emitters, NEW all \in BOOLEAN, emitPc[t] = "store",
               file' = Append(file, TornPiece(t, all))
        PROVE  /\ \A e : HasLine(e) => HasLine(e)'
               /\ Cardinality(TornAt') <= Cardinality(TornAt) + 1 /\ Cardinality(TornAt') \in Nat
    <2>1. TornPiece(t, all) \in Pieces
      BY <1>6, EventAssumption DEF TornPiece, Pieces, LossInv, LogInv, LogTypes, EventsOwned, Busy
    <2>2. (\A e : HasLine(e) => HasLine(e)') /\ TornAt' \subseteq TornAt \cup {Len(file) + 1}
      BY <1>6, <2>1, AppendKeepsLines
    <2> QED
      BY <1>2, <2>2, OneMore, FS_CardinalityType
  <1>7. ASSUME NEW t \in Emitters, StoreTears(t) PROVE LossInv'
    <2>1. /\ emitPc[t] = "store" /\ emitPc' = [emitPc EXCEPT ![t] = "sinks"]
          /\ errorCount' = errorCount + 1 /\ torn' = torn + 1
          /\ UNCHANGED <<emitting, events, logged>>
      BY <1>7 DEF StoreTears, CountFailure
    <2>2. /\ \A e : HasLine(e) => HasLine(e)'
          /\ Cardinality(TornAt') <= Cardinality(TornAt) + 1 /\ Cardinality(TornAt') \in Nat
      BY <1>6, <1>7 DEF StoreTears, Written
    <2>3. Unwritten' \subseteq Unwritten \cup {emitting[t]}
      BY <2>1, <2>2, StoreStep
    <2>4. Cardinality(Unwritten') <= Cardinality(Unwritten) + 1 /\ Cardinality(Unwritten') \in Nat
      BY <1>2, <2>3, OneMore, FS_CardinalityType
    <2> QED
      BY <1>1, <1>2, <2>1, <2>2, <2>4 DEF LossInv
  <1>8. ASSUME NEW t \in Emitters, CallSinks(t) PROVE LossInv'
    <2>1. /\ errorCount' \in {errorCount, errorCount + 1}
          /\ UNCHANGED <<events, logged, torn, file>>
      BY <1>8 DEF CallSinks, CountFailure
    <2>2. \A e : AtStore(e) => AtStore(e)'
      BY <1>1, <1>8 DEF CallSinks, AtStore, LossInv, LogInv, LogTypes
    <2>3. Unwritten' \subseteq Unwritten /\ TornAt' = TornAt
      BY <2>1, <2>2 DEF Unwritten, HasLine, TornAt
    <2>4. Cardinality(Unwritten') <= Cardinality(Unwritten) /\ Cardinality(Unwritten') \in Nat
      BY <1>2, <2>3, NoMore, FS_CardinalityType
    <2> QED
      BY <1>1, <1>2, <2>1, <2>3, <2>4 DEF LossInv
  <1>9. ASSUME events' = {}, errorCount' \in Nat, UNCHANGED logged,
               torn' \in Nat, Cardinality(TornAt') <= torn'
        PROVE  LossInv'
    <2>1. Unwritten' = {}
      BY <1>9 DEF Unwritten
    <2>2. Cardinality(Unwritten') = 0
      BY <2>1, FS_EmptySet
    <2> QED
      BY <1>1, <1>9, <2>2 DEF LossInv
  <1>10. CASE ClearEvents
    <2>1. TornAt' = TornAt
      BY <1>10 DEF ClearEvents, TornAt
    <2> QED
      BY <1>1, <1>9, <1>10, <2>1 DEF ClearEvents
  <1>11. CASE CrashEmitters
    <2>1. CASE UNCHANGED <<file, torn>>
      <3>1. TornAt' = TornAt
        BY <2>1 DEF TornAt
      <3> QED
        BY <1>1, <1>9, <1>11, <2>1, <3>1 DEF CrashEmitters
    <2>2. CASE ~UNCHANGED <<file, torn>>
      <3>1. PICK t \in Emitters, all \in BOOLEAN :
              emitPc[t] = "store" /\ file' = Append(file, TornPiece(t, all))
        BY <1>11, <2>2 DEF CrashEmitters, Written
      <3>2. Cardinality(TornAt') <= Cardinality(TornAt) + 1 /\ Cardinality(TornAt') \in Nat
        BY <1>6, <3>1
      <3>3. torn' = torn + 1
        BY <1>11, <2>2 DEF CrashEmitters
      <3>4. torn' \in Nat /\ Cardinality(TornAt') <= torn'
        BY <1>1, <1>2, <3>2, <3>3
      <3> QED
        BY <1>9, <1>11, <3>4 DEF CrashEmitters
    <2> QED
      BY <2>1, <2>2
  <1>12. CASE Subscribe \/ UNCHANGED eventVars
    <2>1. UNCHANGED <<emitPc, emitting, events, logged, errorCount, torn, file>>
      BY <1>12 DEF Subscribe, eventVars
    <2>2. Unwritten' = Unwritten /\ TornAt' = TornAt
      BY <2>1 DEF Unwritten, AtStore, HasLine, TornAt
    <2> QED
      BY <1>1, <2>1, <2>2 DEF LossInv
  <1> QED
    BY <1>3, <1>4, <1>5, <1>7, <1>8, <1>10, <1>11, <1>12 DEF EventNext

(* Where every line parses, an event of the log that has returned and is not *)
(* among them has no line, which was counted.                                *)
LEMMA LostEvents ==
  ASSUME LossInv
  PROVE  Cardinality((events \cap returned) \ Stored) <= errorCount
  <1> DEFINE Lost == (events \cap returned) \ Stored
  <1>1. IsFiniteSet(Unwritten) /\ Cardinality(Unwritten) \in Nat
    BY LossFinite
  <1>2. Lost \subseteq Unwritten
    <2> SUFFICES ASSUME NEW e \in Lost PROVE e \in Unwritten
      OBVIOUS
    <2>1. ~AtStore(e)
      BY DEF AtStore, LossInv, LogInv, EventsOwned, Busy
    <2>2. DOMAIN file = 1 .. Len(file)
      BY DEF LossInv, LogInv, LogTypes
    <2> QED
      BY <2>1, <2>2 DEF Unwritten, HasLine, Stored
  <1> HIDE DEF Lost
  <1>3. IsFiniteSet(Lost) /\ Cardinality(Lost) <= Cardinality(Unwritten)
    BY <1>1, <1>2, NoMore
  <1>4. Cardinality(Lost) \in Nat
    BY <1>3, FS_CardinalityType
  <1> QED
    BY <1>1, <1>3, <1>4 DEF Lost, LossInv

(* A piece without its newline is the only reason for a line not to parse:   *)
(* the pieces with one are whole.                                            *)
LEMMA TornOnly ==
  ASSUME LossInv, PiecesWhole, ~Readable
  PROVE  torn > 0
  <1>1. /\ IsFiniteSet(TornAt) /\ Cardinality(TornAt) \in Nat /\ Len(file) \in Nat
        /\ DOMAIN file = 1 .. Len(file)
    BY LossFinite DEF LossInv, LogInv, LogTypes
  <1>2. PICK i \in 1 .. Len(file) : ~Parses(i)
    BY <1>1 DEF Readable
  <1>3. TornAt # {}
    <2>1. CASE ~file[i].newline
      BY <1>2, <2>1 DEF TornAt
    <2>2. CASE file[i].newline
      <3>1. i # 1 /\ ~file[i - 1].newline
        BY <1>1, <1>2, <2>2 DEF Parses, PiecesWhole
      <3>2. i - 1 \in 1 .. Len(file)
        BY <1>1, <1>2, <3>1
      <3> QED
        BY <3>1, <3>2 DEF TornAt
    <2> QED
      BY <2>1, <2>2
  <1>4. Cardinality(TornAt) # 0
    BY <1>1, <1>3, FS_EmptySet
  <1> QED
    BY <1>1, <1>4 DEF LossInv

LEMMA LossInductive == EventSpec => []LossInv
  <1>1. EventInit => LossInv
    <2> SUFFICES ASSUME EventInit PROVE LossInv
      OBVIOUS
    <2>1. LogInv
      BY EventAssumption
      DEF EventInit, LogInv, LogTypes, EventsOwned, Busy, FileLogged, ReturnedBefore, FileOrder,
          Pieces
    <2>2. Unwritten = {} /\ TornAt = {} /\ errorCount = 0 /\ torn = 0 /\ events = {}
      BY DEF EventInit, Unwritten, TornAt
    <2>3. Cardinality(Unwritten) = 0 /\ Cardinality(TornAt) = 0
      BY <2>2, FS_EmptySet
    <2> QED
      BY <2>1, <2>2, <2>3 DEF LossInv
  <1> QED
    BY <1>1, LossStep, PTL DEF EventSpec

(* A newline is written with the whole of its event only.                    *)
LEMMA WholePieces == EventSpec => [](LogInv /\ PiecesWhole)
  <1>1. EventInit => PiecesWhole
    BY DEF EventInit, PiecesWhole
  <1>2. LogInv /\ PiecesWhole /\ [EventNext]_eventVars => PiecesWhole'
    <2> SUFFICES ASSUME LogInv, PiecesWhole, [EventNext]_eventVars PROVE PiecesWhole'
      OBVIOUS
    <2>1. ASSUME NEW piece, piece.newline => piece.whole, file' = Append(file, piece)
          PROVE  PiecesWhole'
      <3>1. file \in Seq(Pieces)
        BY DEF LogInv, LogTypes
      <3> QED
        BY <2>1, <3>1 DEF PiecesWhole
    <2>2. ASSUME file' = file PROVE PiecesWhole'
      BY <2>2 DEF PiecesWhole
    <2>3. ASSUME NEW t \in Emitters, StoreEvent(t) PROVE PiecesWhole'
      BY <2>1, <2>3 DEF StoreEvent, Written
    <2>4. ASSUME NEW t \in Emitters, NEW all, file' = Written(TornPiece(t, all))
          PROVE  PiecesWhole'
      BY <2>1, <2>4 DEF Written, TornPiece
    <2> QED
      BY <2>2, <2>3, <2>4 DEF EventNext, LogEvent, StoreRaises, StoreTears, CallSinks,
                              Subscribe, ClearEvents, CrashEmitters, eventVars
  <1>3. EventSpec => []LogInv
    BY LossInductive, PTL DEF LossInv
  <1> QED
    BY <1>1, <1>2, <1>3, PTL DEF EventSpec

(* No loss is silent, through crashes, failures of the store and writes cut  *)
(* short, for any number of threads and events: it is counted, or get_all    *)
(* raises, and that only after a write cut short.  (emit, append, get_all.)  *)
THEOREM LossVisibleHolds == EventSpec => []LossVisible
  <1>1. LossInv /\ PiecesWhole => LossVisible
    BY LostEvents, TornOnly DEF LossVisible
  <1> QED
    BY <1>1, LossInductive, WholePieces, PTL

(* Each emit tells the sinks there were when it logged its event.            *)
SinkTypes == told \in [Emitters -> BOOLEAN] /\ sinks \in BOOLEAN

(* Every reachable state of the log and its file is well typed.              *)
THEOREM EventTypeCorrect == EventSpec => []EventTypeOK
  <1>1. EventInit => SinkTypes
    BY DEF EventInit, SinkTypes
  <1>2. SinkTypes /\ [EventNext]_eventVars => SinkTypes'
    BY DEF SinkTypes, EventNext, LogEvent, StoreEvent, StoreRaises, StoreTears, CallSinks,
           Subscribe, ClearEvents, CrashEmitters, eventVars
  <1>3. LossInv /\ SinkTypes => EventTypeOK
    <2> SUFFICES ASSUME LossInv, SinkTypes PROVE EventTypeOK
      OBVIOUS
    <2>1. logged \in 0 .. EventBound /\ 1 .. logged \subseteq 1 .. EventBound
      BY EventAssumption DEF LossInv, LogInv, LogTypes
    <2>2. returned \subseteq 1 .. EventBound /\ events \subseteq 1 .. EventBound
      BY <2>1 DEF LossInv, LogInv, ReturnedBefore
    <2> QED
      BY <2>1, <2>2 DEF LossInv, LogInv, LogTypes, SinkTypes, EventTypeOK
  <1> QED
    BY <1>1, <1>2, <1>3, LossInductive, PTL DEF EventSpec

-----------------------------------------------------------------------------
(* Types hold of the lock's state and of the callers around it.              *)
THEOREM BreakerTypeCorrect == Spec => []TypeOK
<1>1. Init => TypeOK
  BY DEF Init, TypeOK, States
<1>2. TypeOK /\ [Next]_vars => TypeOK'
  <2> SUFFICES ASSUME TypeOK, [Next]_vars PROVE TypeOK'
    OBVIOUS
  <2> USE DEF TypeOK, States
  <2>1. ASSUME NEW c \in Callers, Allow(c) PROVE TypeOK'
    BY <2>1 DEF Allow
  <2>2. ASSUME NEW c \in Callers, RecordSuccess(c) PROVE TypeOK'
    BY <2>2 DEF RecordSuccess, CountAfterSuccess
  <2>3. ASSUME NEW c \in Callers, RecordFailure(c) PROVE TypeOK'
    <3>1. state' \in States
      BY <2>3, Zenon DEF RecordFailure
    <3>2. failureCount' \in Nat
      BY <2>3 DEF RecordFailure
    <3>3. elapsed' \in BOOLEAN
      BY <2>3 DEF RecordFailure
    <3>4. pc' \in [Callers -> {"idle", "call", "trial"}]
      BY <2>3 DEF RecordFailure
    <3> QED
      BY <3>1, <3>2, <3>3, <3>4
  <2>4. ASSUME NEW c \in Callers, Abandon(c) PROVE TypeOK'
    BY <2>4 DEF Abandon
  <2>5. CASE Elapse
    BY <2>5 DEF Elapse
  <2>6. CASE Reset
    BY <2>6 DEF Reset
  <2>7. CASE UNCHANGED vars
    BY <2>7 DEF vars
  <2> QED
    BY <2>1, <2>2, <2>3, <2>4, <2>5, <2>6, <2>7 DEF Next
<1> QED
  BY <1>1, <1>2, PTL DEF Spec

(* The circuit is closed exactly below the threshold: a half-open circuit    *)
(* still carries the failures that tripped it, so a failed trial reopens it  *)
(* with a count at least as large, and only a success brings both back.      *)
THEOREM ClosedBelowThresholdHolds == Spec => []ClosedBelowThreshold
<1>1. Init => ClosedBelowThreshold
  BY BreakerAssumption DEF Init, ClosedBelowThreshold
<1>2. TypeOK /\ ClosedBelowThreshold /\ [Next]_vars => ClosedBelowThreshold'
  <2> SUFFICES ASSUME TypeOK, ClosedBelowThreshold, [Next]_vars
               PROVE  ClosedBelowThreshold'
    OBVIOUS
  <2> USE BreakerAssumption DEF TypeOK, States, ClosedBelowThreshold
  <2>1. ASSUME NEW c \in Callers, Allow(c) PROVE ClosedBelowThreshold'
    BY <2>1 DEF Allow
  <2>2. ASSUME NEW c \in Callers, RecordSuccess(c) PROVE ClosedBelowThreshold'
    BY <2>2 DEF RecordSuccess, CountAfterSuccess
  <2>3. ASSUME NEW c \in Callers, RecordFailure(c) PROVE ClosedBelowThreshold'
    <3>1. CASE failureCount + 1 >= FailureThreshold
      BY <2>3, <3>1 DEF RecordFailure
    <3>2. CASE failureCount + 1 < FailureThreshold
      \* Below the threshold the circuit is closed, so not half-open.
      BY <2>3, <3>2 DEF RecordFailure
    <3> QED
      BY <3>1, <3>2
  <2>4. ASSUME NEW c \in Callers, Abandon(c) PROVE ClosedBelowThreshold'
    BY <2>4 DEF Abandon
  <2>5. CASE Elapse
    BY <2>5 DEF Elapse
  <2>6. CASE Reset
    BY <2>6 DEF Reset
  <2>7. CASE UNCHANGED vars
    BY <2>7 DEF vars
  <2> QED
    BY <2>1, <2>2, <2>3, <2>4, <2>5, <2>6, <2>7 DEF Next
<1> QED
  BY <1>1, <1>2, BreakerTypeCorrect, PTL DEF Spec

-----------------------------------------------------------------------------
(* A reading is no older than the wait at the lock allows.                   *)
ReadingsRecent ==
  \A t \in Threads : reading[t] # -1 =>
    reading[t] <= clock /\ clock - reading[t] <= MaxDelay

(* Admissions are in the order of time; their stamps lag by a wait at most.  *)
StampsRecent ==
  \A i \in 1 .. Len(admitted) :
    /\ admitted[i].stamp <= admitted[i].at
    /\ admitted[i].at - admitted[i].stamp <= MaxDelay
    /\ admitted[i].at <= clock

InOrder ==
  \A i, j \in 1 .. Len(admitted) : i <= j => admitted[i].at <= admitted[j].at

(* What was popped is older than the window, and the rest is within limits.  *)
PoppedOld == \A i \in 1 .. head - 1 : admitted[i].stamp < clock - Window

DequeBounded == Len(admitted) - head + 1 <= MaxCalls

RateInv ==
  /\ RateTypeOK /\ ReadingsRecent /\ StampsRecent /\ InOrder /\ PoppedOld
  /\ DequeBounded /\ WindowKept

-----------------------------------------------------------------------------
LEMMA InitRateInv == RateInit => RateInv
  <1>1. ASSUME RateInit PROVE RateTypeOK
    BY <1>1 DEF RateInit, RateTypeOK
  <1>2. ASSUME RateInit PROVE Len(admitted) = 0
    BY <1>2 DEF RateInit
  <1> QED
    BY <1>1, <1>2, RateAssumption
    DEF RateInit, RateInv, RateTypeOK, ReadingsRecent, StampsRecent, InOrder,
        PoppedOld, DequeBounded, WindowKept

LEMMA EntryTypes ==
  ASSUME RateTypeOK
  PROVE  /\ Len(admitted) \in Nat
         /\ \A k \in 1 .. Len(admitted) : admitted[k].at \in Nat /\ admitted[k].stamp \in Nat
  <1>0. admitted \in Seq([stamp : Nat, at : Nat])
    BY DEF RateTypeOK
  <1>1. Len(admitted) \in Nat
    BY <1>0
  <1>2. ASSUME NEW k \in 1 .. Len(admitted)
        PROVE  admitted[k] \in [stamp : Nat, at : Nat]
    BY <1>0, ElementOfSeq
  <1> QED
    BY <1>1, <1>2

(* Where a check with a reading no later than now stops, everything before   *)
(* it is old.                                                                *)
LEMMA PruneKeepsInv ==
  ASSUME RateInv, NEW now \in Int, now <= clock,
         NEW i \in head .. Len(admitted) + 1, StopsAt(i, now - Window)
  PROVE  /\ i \in 1 .. Len(admitted) + 1
         /\ Len(admitted) - i + 1 <= MaxCalls
         /\ \A k \in 1 .. i - 1 : admitted[k].stamp < clock - Window
  <1>1. /\ head \in 1 .. Len(admitted) + 1
        /\ clock \in Nat /\ Len(admitted) \in Nat
        /\ \A k \in 1 .. Len(admitted) : admitted[k].stamp \in Nat
    BY EntryTypes DEF RateInv, RateTypeOK
  <1>2. i \in 1 .. Len(admitted) + 1
    BY <1>1
  <1>3. Len(admitted) - i + 1 <= MaxCalls
    BY <1>1, RateAssumption DEF RateInv, DequeBounded
  <1>4. ASSUME NEW k \in 1 .. i - 1
        PROVE  admitted[k].stamp < clock - Window
    <2>1. CASE k < head
      BY <1>1, <2>1 DEF RateInv, PoppedOld
    <2>2. CASE k >= head
      <3>1. admitted[k].stamp < now - Window
        BY <1>1, <2>2 DEF StopsAt, Old
      <3> QED
        BY <1>1, <1>2, <3>1, RateAssumption
    <2> QED
      BY <1>1, <2>1, <2>2
  <1> QED
    BY <1>2, <1>3, <1>4

LEMMA AdmitKeepsInv ==
  ASSUME RateInv, NEW t \in Threads, AdmitCall(t)
  PROVE  RateInv'
  <1> DEFINE entry == [stamp |-> reading[t], at |-> clock]
  <1> DEFINE n == Len(admitted) + 1
  <1>1. /\ clock \in Nat /\ reading[t] \in Nat /\ reading[t] <= clock
        /\ clock - reading[t] <= MaxDelay
    BY DEF RateInv, RateTypeOK, ReadingsRecent, AdmitCall
  <1>2. /\ admitted \in Seq([stamp : Nat, at : Nat])
        /\ admitted' = Append(admitted, entry)
        /\ clock' = clock /\ Len(admitted) \in Nat
    BY DEF RateInv, RateTypeOK, AdmitCall
  <1>3. entry \in [stamp : Nat, at : Nat] /\ entry.stamp = reading[t] /\ entry.at = clock
    BY <1>1
  <1>4. /\ admitted' \in Seq([stamp : Nat, at : Nat])
        /\ Len(admitted') = n
        /\ admitted'[n] = entry
        /\ \A k \in 1 .. Len(admitted) : admitted'[k] = admitted[k]
    BY <1>2, <1>3
  <1>5. PICK h \in 1 .. Len(admitted) + 1 :
          /\ head' = h
          /\ Len(admitted) - h + 1 < MaxCalls
          /\ \A k \in 1 .. h - 1 : admitted[k].stamp < clock - Window
    <2>1. PICK i \in head .. Len(admitted) + 1 :
            StopsAt(i, reading[t] - Window) /\ ~Full(i) /\ head' = i
      BY DEF AdmitCall
    <2>2. /\ i \in 1 .. Len(admitted) + 1
          /\ \A k \in 1 .. i - 1 : admitted[k].stamp < clock - Window
      BY <1>1, <2>1, PruneKeepsInv
    <2> QED
      BY <1>2, <2>1, <2>2, RateAssumption DEF Full
  <1>n. /\ n = Len(admitted) + 1 /\ n \in Nat /\ Len(admitted) \in Nat
        /\ h \in Nat /\ h <= Len(admitted) + 1
    BY <1>2, <1>5
  <1>p. Len(admitted) < h - 1 + MaxCalls
    BY <1>5, <1>n, RateAssumption
  <1> HIDE DEF n, entry
  <1>6. RateTypeOK' /\ ReadingsRecent'
    <2>1. reading' \in [Threads -> Nat \cup {-1}]
      BY DEF RateInv, RateTypeOK, AdmitCall
    <2>2. RateTypeOK'
      BY <1>1, <1>2, <1>4, <1>5, <2>1 DEF RateTypeOK
    <2> QED
      BY <1>2, <2>2 DEF RateInv, RateTypeOK, ReadingsRecent, AdmitCall
  <1>7. StampsRecent'
    <2> SUFFICES ASSUME NEW k \in 1 .. n
                 PROVE  /\ admitted'[k].stamp <= admitted'[k].at
                        /\ admitted'[k].at - admitted'[k].stamp <= MaxDelay
                        /\ admitted'[k].at <= clock
      BY <1>2, <1>4 DEF StampsRecent
    <2>1. CASE k = n
      BY <1>1, <1>3, <1>4, <2>1
    <2>2. CASE k # n
      BY <1>2, <1>4, <2>2 DEF RateInv, StampsRecent
    <2> QED
      BY <2>1, <2>2
  <1>8. InOrder'
    <2> SUFFICES ASSUME NEW j \in 1 .. n, NEW k \in 1 .. n, j <= k
                 PROVE  admitted'[j].at <= admitted'[k].at
      BY <1>4 DEF InOrder
    <2>1. CASE k # n
      <3>1. j \in 1 .. Len(admitted) /\ k \in 1 .. Len(admitted)
        BY <1>n, <2>1
      <3> QED
        BY <1>4, <3>1 DEF RateInv, InOrder
    <2>2. CASE k = n /\ j # n
      <3>1. j \in 1 .. Len(admitted)
        BY <1>n, <2>2
      <3>2. admitted[j].at <= clock
        BY <3>1 DEF RateInv, StampsRecent
      <3> QED
        BY <1>3, <1>4, <2>2, <3>1, <3>2
    <2>3. CASE k = n /\ j = n
      BY <1>1, <1>3, <1>4, <2>3
    <2> QED
      BY <2>1, <2>2, <2>3
  <1>9. PoppedOld'
    <2> SUFFICES ASSUME NEW k \in 1 .. h - 1
                 PROVE  admitted'[k].stamp < clock - Window
      BY <1>2, <1>5 DEF PoppedOld
    <2>1. k \in 1 .. Len(admitted)
      BY <1>n
    <2> QED
      BY <1>4, <1>5, <2>1
  <1>10. DequeBounded'
    BY <1>2, <1>4, <1>5, RateAssumption DEF DequeBounded
  <1>11. WindowKept'
    <2> SUFFICES ASSUME NEW k \in 1 .. n - MaxCalls
                 PROVE  admitted'[k + MaxCalls].at - admitted'[k].at > Window - MaxDelay
      BY <1>4 DEF WindowKept
    <2>1. CASE k + MaxCalls = n
      <3>1. k \in 1 .. Len(admitted) /\ k \in 1 .. h - 1
        <4>1. k \in Int /\ 1 <= k /\ MaxCalls \in Nat \ {0}
          BY RateAssumption
        <4> QED
          BY <1>n, <1>p, <2>1, <4>1
      <3>2. admitted[k].stamp < clock - Window
        BY <1>5, <3>1
      <3>3. /\ admitted[k].at - admitted[k].stamp <= MaxDelay
            /\ admitted[k].at \in Nat /\ admitted[k].stamp \in Nat
        BY <3>1, EntryTypes DEF RateInv, StampsRecent
      <3>4. clock - admitted[k].at > Window - MaxDelay
        <4>1. \A s, a, c, w, d \in Int : s < c - w /\ a - s <= d => c - a > w - d
          OBVIOUS
        <4>2. Window \in Int /\ MaxDelay \in Int
          BY RateAssumption
        <4> QED
          BY <1>1, <3>2, <3>3, <4>1, <4>2
      <3> QED
        BY <1>3, <1>4, <2>1, <3>1, <3>4
    <2>2. CASE k + MaxCalls # n
      <3>1. /\ k \in 1 .. Len(admitted) - MaxCalls
            /\ k \in 1 .. Len(admitted)
            /\ k + MaxCalls \in 1 .. Len(admitted)
        BY <1>n, <2>2, RateAssumption
      <3> QED
        BY <1>4, <3>1 DEF RateInv, WindowKept
    <2> QED
      BY <2>1, <2>2
  <1> QED
    BY <1>6, <1>7, <1>8, <1>9, <1>10, <1>11 DEF RateInv

(* Every other step appends nothing: it prunes, reads, resets or passes time.*)
LEMMA OtherStepsKeepInv ==
  ASSUME RateInv,
         \/ \E t \in Threads : ReadClock(t) \/ RefuseCall(t)
         \/ Remaining \/ ResetWindow \/ Tick
         \/ UNCHANGED rateVars
  PROVE  RateInv'
  <1>0. /\ clock \in Nat /\ Len(admitted) \in Nat
        /\ reading \in [Threads -> Nat \cup {-1}]
        /\ head \in 1 .. Len(admitted) + 1
    BY DEF RateInv, RateTypeOK
  <1>1. ASSUME NEW i \in 1 .. Len(admitted) + 1,
               Len(admitted) - i + 1 <= MaxCalls,
               \A k \in 1 .. i - 1 : admitted[k].stamp < clock - Window,
               head' = i, UNCHANGED <<clock, admitted>>,
               \A t \in Threads : reading'[t] = reading[t] \/ reading'[t] \in {-1, clock},
               reading' \in [Threads -> Nat \cup {-1}]
        PROVE  RateInv'
    <2>1. RateTypeOK'
      BY <1>1 DEF RateInv, RateTypeOK
    <2>2. ReadingsRecent'
      BY <1>0, <1>1, RateAssumption DEF RateInv, ReadingsRecent
    <2>3. StampsRecent' /\ InOrder' /\ WindowKept'
      BY <1>1 DEF RateInv, StampsRecent, InOrder, WindowKept
    <2>4. PoppedOld' /\ DequeBounded'
      BY <1>1 DEF PoppedOld, DequeBounded
    <2> QED
      BY <2>1, <2>2, <2>3, <2>4 DEF RateInv
  <1>2. ASSUME NEW t \in Threads, ReadClock(t) PROVE RateInv'
    <2>1. reading' \in [Threads -> Nat \cup {-1}]
      BY <1>0, <1>2 DEF ReadClock
    <2>2. \A u \in Threads : reading'[u] = reading[u] \/ reading'[u] \in {-1, clock}
      BY <1>0, <1>2 DEF ReadClock
    <2> QED
      BY <1>0, <1>1, <1>2, <2>1, <2>2 DEF ReadClock, RateInv, PoppedOld, DequeBounded
  <1>3. ASSUME NEW t \in Threads, RefuseCall(t) PROVE RateInv'
    <2>1. PICK i \in head .. Len(admitted) + 1 :
            StopsAt(i, reading[t] - Window) /\ head' = i
      BY <1>3 DEF RefuseCall
    <2>2. reading[t] \in Int /\ reading[t] <= clock
      BY <1>0, <1>3 DEF RefuseCall, RateInv, ReadingsRecent
    <2>3. /\ i \in 1 .. Len(admitted) + 1
          /\ Len(admitted) - i + 1 <= MaxCalls
          /\ \A k \in 1 .. i - 1 : admitted[k].stamp < clock - Window
      BY <2>1, <2>2, PruneKeepsInv
    <2>4. reading' \in [Threads -> Nat \cup {-1}]
      BY <1>0, <1>3 DEF RefuseCall
    <2>5. \A u \in Threads : reading'[u] = reading[u] \/ reading'[u] \in {-1, clock}
      BY <1>0, <1>3 DEF RefuseCall
    <2>6. UNCHANGED <<clock, admitted>>
      BY <1>3 DEF RefuseCall
    <2> QED
      BY <1>1, <2>1, <2>3, <2>4, <2>5, <2>6
  <1>4. ASSUME Remaining PROVE RateInv'
    <2>1. PICK now \in (clock - MaxDelay) .. clock, i \in head .. Len(admitted) + 1 :
            StopsAt(i, now - Window) /\ head' = i
      BY <1>4 DEF Remaining
    <2>2. now \in Int /\ now <= clock
      BY <1>0, <2>1, RateAssumption
    <2>3. /\ i \in 1 .. Len(admitted) + 1
          /\ Len(admitted) - i + 1 <= MaxCalls
          /\ \A k \in 1 .. i - 1 : admitted[k].stamp < clock - Window
      BY <2>1, <2>2, PruneKeepsInv
    <2>4. UNCHANGED <<clock, reading, admitted>>
      BY <1>4 DEF Remaining
    <2> QED
      BY <1>0, <1>1, <2>1, <2>3, <2>4
  <1>5. ASSUME ResetWindow PROVE RateInv'
    <2>1. Len(admitted') = 0 /\ head' = 1 /\ UNCHANGED <<clock, reading>>
          /\ admitted' \in Seq([stamp : Nat, at : Nat])
      BY <1>5 DEF ResetWindow
    <2> QED
      BY <1>0, <2>1, RateAssumption
      DEF RateInv, RateTypeOK, ReadingsRecent, StampsRecent, InOrder, PoppedOld,
          DequeBounded, WindowKept
  <1>6. ASSUME Tick PROVE RateInv'
    <2>0. UNCHANGED <<reading, admitted, head>> /\ clock' = clock + 1
      BY <1>6 DEF Tick
    <2>1. RateTypeOK'
      BY <1>0, <2>0 DEF RateInv, RateTypeOK
    <2>2. ReadingsRecent'
      BY <1>0, <1>6, <2>0, RateAssumption DEF RateInv, ReadingsRecent, Tick
    <2>3. \A k \in 1 .. Len(admitted) : admitted[k].at \in Nat /\ admitted[k].stamp \in Nat
      BY EntryTypes DEF RateInv
    <2>4. StampsRecent'
      BY <1>0, <2>0, <2>3 DEF RateInv, StampsRecent
    <2>5. PoppedOld'
      BY <1>0, <2>0, <2>3, RateAssumption DEF RateInv, PoppedOld
    <2>6. InOrder' /\ DequeBounded' /\ WindowKept'
      BY <2>0 DEF RateInv, InOrder, DequeBounded, WindowKept
    <2> QED
      BY <2>1, <2>2, <2>4, <2>5, <2>6 DEF RateInv
  <1>7. ASSUME UNCHANGED rateVars PROVE RateInv'
    BY <1>7
    DEF rateVars, RateInv, RateTypeOK, ReadingsRecent, StampsRecent, InOrder,
        PoppedOld, DequeBounded, WindowKept
  <1> QED
    BY <1>2, <1>3, <1>4, <1>5, <1>6, <1>7

LEMMA RateInvInvariant == RateSpec => []RateInv
  <1>1. RateInv /\ [RateNext]_rateVars => RateInv'
    BY AdmitKeepsInv, OtherStepsKeepInv DEF RateNext
  <1> QED
    BY InitRateInv, <1>1, PTL DEF RateSpec

-----------------------------------------------------------------------------
(* Type correctness of the limiter.                                          *)
THEOREM RateTypeCorrect == RateSpec => []RateTypeOK
  <1>1. RateInv => RateTypeOK
    BY DEF RateInv
  <1> QED
    BY <1>1, RateInvInvariant, PTL

(* Admissions keep the window, less the longest wait at the lock, for any    *)
(* number of threads with readings out of order.  (check.)                   *)
THEOREM WindowKeptHolds == RateSpec => []WindowKept
  <1>1. RateInv => WindowKept
    BY DEF RateInv
  <1> QED
    BY <1>1, RateInvInvariant, PTL

(* A refusal finds the last MaxCalls admissions recent.  (check.)            *)
THEOREM RefusedWhenBusyHolds == RateSpec => RefusedWhenBusy
  <1>1. ASSUME RateInv, NEW t \in Threads, RefuseCall(t)
        PROVE  /\ Len(admitted) >= MaxCalls
               /\ \A i \in Len(admitted) - MaxCalls + 1 .. Len(admitted) :
                    clock - admitted[i].at <= Window + MaxDelay
    <2>0. /\ clock \in Nat /\ Len(admitted) \in Nat /\ head \in 1 .. Len(admitted) + 1
          /\ \A k \in 1 .. Len(admitted) : admitted[k].at \in Nat /\ admitted[k].stamp \in Nat
      BY <1>1, EntryTypes DEF RateInv, RateTypeOK
    <2>1. PICK i \in head .. Len(admitted) + 1 :
            StopsAt(i, reading[t] - Window) /\ Full(i)
      BY <1>1 DEF RefuseCall
    <2>2. /\ reading[t] \in Nat /\ clock - reading[t] <= MaxDelay
      BY <1>1 DEF RefuseCall, RateInv, RateTypeOK, ReadingsRecent
    <2>3. Len(admitted) - i + 1 = MaxCalls /\ i \in 1 .. Len(admitted)
      BY <1>1, <2>0, <2>1, RateAssumption DEF RateInv, DequeBounded, Full
    <2>4. admitted[i].stamp >= reading[t] - Window
      <3>1. ~(admitted[i].stamp < reading[t] - Window)
        BY <2>0, <2>1, <2>3 DEF StopsAt, Old
      <3>2. admitted[i].stamp \in Nat /\ reading[t] - Window \in Int
        BY <2>0, <2>2, <2>3, RateAssumption
      <3> QED
        BY <3>1, <3>2
    <2>5. clock - admitted[i].at <= Window + MaxDelay
      <3>1. admitted[i].stamp <= admitted[i].at
        BY <1>1, <2>3 DEF RateInv, StampsRecent
      <3>2. admitted[i].at \in Nat /\ admitted[i].stamp \in Nat
        BY <2>0, <2>3
      <3> QED
        <4>1. Window \in Nat /\ MaxDelay \in Nat
          BY RateAssumption
        <4>2. clock \in Nat
          BY <2>0
        <4> QED
          BY <2>2, <2>4, <3>1, <3>2, <4>1, <4>2, SMTT(30)
    <2>6. \A k \in i .. Len(admitted) : admitted[i].at <= admitted[k].at
      BY <1>1, <2>0, <2>3 DEF RateInv, InOrder
    <2>7. Len(admitted) >= MaxCalls /\ Len(admitted) - MaxCalls + 1 = i
      BY <2>0, <2>3, RateAssumption
    <2>8. ASSUME NEW k \in i .. Len(admitted) PROVE clock - admitted[k].at <= Window + MaxDelay
      <3>1. /\ admitted[i].at <= admitted[k].at /\ clock - admitted[i].at <= Window + MaxDelay
            /\ admitted[i].at \in Nat /\ admitted[k].at \in Nat /\ clock \in Nat
        BY <2>0, <2>3, <2>5, <2>6
      <3>2. \A a, b, c, w \in Int : a <= b /\ c - a <= w => c - b <= w
        OBVIOUS
      <3>3. Window + MaxDelay \in Int
        BY RateAssumption
      <3> QED
        BY <3>1, <3>2, <3>3
    <2> QED
      BY <2>7, <2>8
  <1>2. RateInv /\ [RateNext]_rateVars =>
          [\A t \in Threads : RefuseCall(t) =>
             /\ Len(admitted) >= MaxCalls
             /\ \A i \in Len(admitted) - MaxCalls + 1 .. Len(admitted) :
                  clock - admitted[i].at <= Window + MaxDelay]_rateVars
    BY <1>1
  <1> QED
    BY <1>2, RateInvInvariant, PTL DEF RateSpec, RefusedWhenBusy

-----------------------------------------------------------------------------
(* The limiter as an abstract window: each of its steps either lets stamps   *)
(* go, admits one call where there is room, or leaves the length of the      *)
(* deque alone.                                                              *)
LEMMA LimiterStart == RateInit => Limiter!Init
  BY DEF RateInit, Limiter!Init

LEMMA LimiterStep ==
  ASSUME RateTypeOK, [RateNext]_rateVars
  PROVE  [Limiter!Next]_(Len(admitted) - head + 1)
  <1> DEFINE length == Len(admitted) - head + 1
  <1>0. /\ Len(admitted) \in Nat
        /\ head \in 1 .. Len(admitted) + 1
        /\ admitted \in Seq([stamp : Nat, at : Nat])
    BY DEF RateTypeOK
  <1>1. ASSUME NEW t \in Threads, AdmitCall(t) PROVE Limiter!Admit
    <2>1. PICK i \in head .. Len(admitted) + 1 : ~Full(i) /\ head' = i
      BY <1>1 DEF AdmitCall
    <2>2. admitted' = Append(admitted, [stamp |-> reading[t], at |-> clock])
      BY <1>1 DEF AdmitCall
    <2>3. Len(admitted') = Len(admitted) + 1
      BY <1>0, <2>2
    <2> DEFINE kept == Len(admitted) - i + 1
    <2>4. kept \in 0 .. length
      BY <1>0, <2>1
    <2>5. kept < MaxCalls
      BY <1>0, <2>1, RateAssumption DEF Full
    <2>6. Len(admitted') - head' + 1 = kept + 1
      BY <1>0, <2>1, <2>3
    <2> QED
      BY <2>4, <2>5, <2>6 DEF Limiter!Admit
  <1>2. ASSUME NEW i \in head .. Len(admitted) + 1, head' = i, UNCHANGED admitted
        PROVE  Limiter!Drop
    BY <1>0, <1>2 DEF Limiter!Drop
  <1>3. ASSUME NEW t \in Threads, RefuseCall(t) PROVE Limiter!Drop
    BY <1>2, <1>3 DEF RefuseCall
  <1>4. CASE Remaining
    BY <1>2, <1>4 DEF Remaining, Limiter!Next
  <1>5. CASE ResetWindow
    <2>1. Len(admitted') - head' + 1 = 0
      BY <1>5 DEF ResetWindow
    <2> QED
      BY <1>0, <2>1 DEF Limiter!Drop, Limiter!Next
  <1>6. ASSUME UNCHANGED <<admitted, head>>
        PROVE  UNCHANGED (Len(admitted) - head + 1)
    BY <1>6
  <1>7. CASE \E t \in Threads : ReadClock(t)
    BY <1>6, <1>7 DEF ReadClock
  <1>8. CASE Tick \/ UNCHANGED rateVars
    BY <1>6, <1>8 DEF Tick, rateVars
  <1> QED
    BY <1>1, <1>3, <1>4, <1>5, <1>7, <1>8 DEF RateNext, Limiter!Next

(* The limiter implements the abstract window, however its threads overtake  *)
(* each other between the clock and the lock.  (rate_limiter.py:41-81.)      *)
THEOREM ImplementsLimiter == RateSpec => LimiterSpec
  <1>1. RateTypeOK /\ [RateNext]_rateVars
          => [Limiter!Next]_(Len(admitted) - head + 1)
    BY LimiterStep
  <1> QED
    BY LimiterStart, <1>1, RateTypeCorrect, PTL
    DEF RateSpec, LimiterSpec, Limiter!Spec

=============================================================================
