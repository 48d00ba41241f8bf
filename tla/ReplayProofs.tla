---------------------------- MODULE ReplayProofs ----------------------------
(***************************************************************************)
(* For runs of any length over any answers: a resumed run that has gone    *)
(* live stays live, runs out of recorded answers only after an exception,  *)
(* and splits exactly at an aligned checkpoint; an audit sees the first    *)
(* run again; a rerun reports just the divergences there are.  The last    *)
(* three count, for each kind, how many of the first n answers are of it:  *)
(* that is where the list of the kind and the index into it stand.         *)
(***************************************************************************)
EXTENDS Replay, SequenceTheorems, FiniteSetTheorems, TLAPS

AskedType == [kind : Kinds, req : Requests \union {NoRequest}]

LEMMA QuestionsTyped == Questions \subseteq AskedType
  BY DEF Questions, AskedType, Kinds, NoRequest

(* What the strategy asks in the second run is a question, also when it is   *)
(* taken from the trail or is the one that ended the first run.              *)
LEMMA AskedTyped ==
  ASSUME TypeOK PROVE \A q \in Asked : q \in AskedType
<1>1. CASE ~Follows
  BY <1>1, QuestionsTyped DEF Asked
<1>2. CASE Follows /\ Len(again) < Len(trail)
  <2>0. Len(again) \in Nat /\ Len(trail) \in Nat
    <3>1. again \in Seq(SeenType) /\ trail \in Seq(AnswerType)
      BY DEF TypeOK
    <3> QED
      BY <3>1, LenProperties
  <2>1. Len(again) + 1 \in 1..Len(trail)
    BY <1>2, <2>0
  <2>2. trail[Len(again) + 1] \in AnswerType
    BY <2>1, ElementOfSeq DEF TypeOK
  <2> QED
    BY <1>2, <2>2 DEF Asked, AnswerType, AskedType
<1>3. CASE Follows /\ ~(Len(again) < Len(trail))
  BY <1>3, QuestionsTyped DEF Asked, TypeOK
<1> QED
  BY <1>1, <1>2, <1>3

(* An answer of the recording has the type of one.                           *)
LEMMA NextRecordedTyped ==
  ASSUME TypeOK, NEW k \in Kinds, ~Exhausted(k)
  PROVE  NextRecorded(k) \in Contents
<1>1. recorded[k] \in Seq(AnswerType) /\ idx[k] \in Nat
  BY DEF TypeOK
<1>2. Len(recorded[k]) \in Nat
  BY <1>1, LenProperties
<1>3. idx[k] + 1 \in 1..Len(recorded[k])
  BY <1>1, <1>2 DEF Exhausted
<1>4. recorded[k][idx[k] + 1] \in AnswerType
  BY <1>1, <1>3, ElementOfSeq
<1> QED
  BY <1>4 DEF NextRecorded, AnswerType

(* Seeing an answer keeps the second run well typed.                         *)
LEMMA SeeTyped ==
  ASSUME TypeOK, NEW q \in AskedType, NEW v \in Contents, NEW live \in BOOLEAN,
         See(q, v, live)
  PROVE  again' \in Seq(SeenType)
<1>1. [kind |-> q.kind, req |-> q.req, resp |-> v, live |-> live] \in SeenType
  BY DEF AskedType, SeenType
<1> QED
  BY <1>1, AppendProperties DEF See, TypeOK

(* Advancing an index that was not exhausted keeps it inside its list.       *)
LEMMA AdvancedTyped ==
  ASSUME TypeOK, NEW k \in Kinds, idx' = Advanced(k)
  PROVE  /\ idx' \in [Kinds -> Nat]
         /\ ~Exhausted(k) /\ recorded' = recorded /\ mode # "rerun"
              => \A j \in Kinds : idx'[j] <= Len(recorded'[j])
<1>0. idx \in [Kinds -> Nat]
  BY DEF TypeOK
<1>1. idx' \in [Kinds -> Nat]
  BY <1>0 DEF Advanced
<1>2. ASSUME ~Exhausted(k), recorded' = recorded, mode # "rerun", NEW j \in Kinds
      PROVE  idx'[j] <= Len(recorded'[j])
  <2>1. Len(recorded[j]) \in Nat /\ Len(recorded[k]) \in Nat
    BY LenProperties DEF TypeOK
  <2>2. idx[j] <= Len(recorded[j]) /\ idx[j] \in Nat /\ idx[k] \in Nat
    BY <1>2 DEF TypeOK
  <2>3. CASE j = k
    <3>1. idx'[j] = idx[j] + 1
      BY <1>0, <2>3 DEF Advanced
    <3>2. idx[j] < Len(recorded[j])
      BY <1>2, <2>1, <2>2, <2>3 DEF Exhausted
    <3> QED
      BY <1>2, <2>1, <2>2, <3>1, <3>2
  <2>4. CASE j # k
    BY <1>0, <1>2, <2>2, <2>4 DEF Advanced
  <2> QED
    BY <2>3, <2>4
<1> QED
  BY <1>1, <1>2

LEMMA AnswersTyped == ASSUME NEW q, NEW v \in Answers(q) PROVE v \in Contents
  BY DEF Answers, Contents

(* A charge adds at most one to a counter, and none to the other.            *)
LEMMA CountedTyped ==
  ASSUME TypeOK, NEW q, NEW v
  PROVE  /\ Counted(q, v) \in [model : Nat, tool : Nat]
         /\ \A k \in {"model", "tool"} :
              /\ Counted(q, v)[k] <= charged[k] + 1
              /\ k # q.kind => Counted(q, v)[k] = charged[k]
<1>1. charged.model \in Nat /\ charged.tool \in Nat
  BY DEF TypeOK
<1>2. charged["model"] = charged.model /\ charged["tool"] = charged.tool
  OBVIOUS
<1> QED
  BY <1>1, <1>2 DEF Counted

(* The recording grows at one end.                                           *)
LEMMA StampingTyped ==
  ASSUME TypeOK, NEW q, NEW v, NEW s \in Stamping(q, v)
  PROVE  s \subseteq Nat
<1>1. DOMAIN recorded["model"] \subseteq Nat
  <2>1. recorded["model"] \in Seq(AnswerType)
    BY DEF TypeOK, Kinds
  <2>2. DOMAIN recorded["model"] = 1..Len(recorded["model"]) /\ Len(recorded["model"]) \in Nat
    BY <2>1, LenProperties
  <2> QED
    BY <2>2
<1>2. stamped \subseteq Nat
  BY DEF TypeOK
<1> QED
  BY <1>1, <1>2 DEF Stamping

LEMMA RecordTyped ==
  ASSUME TypeOK, NEW q \in Questions, Record(q)
  PROVE  /\ trail' \in Seq(AnswerType)
         /\ charged' \in [model : Nat, tool : Nat]
         /\ recorded' \in [Kinds -> Seq(AnswerType)]
         /\ \A k \in Kinds : Len(recorded'[k]) >= Len(recorded[k])
         /\ Len(recorded'[q.kind]) = Len(recorded[q.kind]) + 1
         /\ \A k \in Kinds : Len(recorded[k]) \in Nat /\ Len(recorded'[k]) \in Nat
<1>1. PICK v \in Answers(q) :
        /\ trail' = Append(trail, Answer(q, v))
        /\ charged' = Counted(q, v)
        /\ recorded' = [recorded EXCEPT ![q.kind] = Append(@, Answer(q, v))]
  BY DEF Record, Records
<1>2. q.kind \in Kinds /\ Answer(q, v) \in AnswerType
  BY QuestionsTyped, AnswersTyped DEF AskedType, Answer, AnswerType
<1>3. trail' \in Seq(AnswerType)
  BY <1>1, <1>2, AppendProperties DEF TypeOK
<1>4. charged' \in [model : Nat, tool : Nat]
  BY <1>1, CountedTyped
<1>5. recorded[q.kind] \in Seq(AnswerType)
  BY <1>2 DEF TypeOK
<1>6. /\ Append(recorded[q.kind], Answer(q, v)) \in Seq(AnswerType)
      /\ Len(Append(recorded[q.kind], Answer(q, v))) = Len(recorded[q.kind]) + 1
  BY <1>2, <1>5, AppendProperties
<1>7. recorded' \in [Kinds -> Seq(AnswerType)]
  BY <1>1, <1>2, <1>6 DEF TypeOK
<1>8. ASSUME NEW k \in Kinds
      PROVE  /\ Len(recorded[k]) \in Nat /\ Len(recorded'[k]) \in Nat
             /\ Len(recorded'[k]) >= Len(recorded[k])
  <2>1. Len(recorded[k]) \in Nat
    BY LenProperties DEF TypeOK
  <2>2. CASE k = q.kind
    <3>1. recorded'[k] = Append(recorded[q.kind], Answer(q, v))
      BY <1>1, <1>2, <2>2 DEF TypeOK
    <3> QED
      BY <1>6, <2>1, <2>2, <3>1
  <2>3. CASE k # q.kind
    <3>1. recorded'[k] = recorded[k]
      BY <1>1, <1>2, <2>3 DEF TypeOK
    <3> QED
      BY <2>1, <3>1
  <2> QED
    BY <2>2, <2>3
<1>9. recorded'[q.kind] = Append(recorded[q.kind], Answer(q, v))
  BY <1>1, <1>2 DEF TypeOK
<1> QED
  BY <1>3, <1>4, <1>6, <1>7, <1>8, <1>9

(* A question answered in the second run leaves the first alone.             *)
LEMMA AnsweredTyped ==
  ASSUME TypeOK, NEW q \in AskedType, Answered(q)
  PROVE  TypeOK'
<1>1. q.kind \in Kinds
  BY DEF AskedType
<1>2. CASE Audit(q)
  <2>1. CASE ~Exhausted(q.kind) /\ See(q, NextRecorded(q.kind), FALSE) /\ idx' = Advanced(q.kind)
             /\ UNCHANGED <<phase, raised>>
    BY <1>1, <1>2, <2>1, NextRecordedTyped, SeeTyped, AdvancedTyped
    DEF Audit, Replaying, TypeOK, firstRun
  <2>2. CASE See(q, Empty, FALSE) /\ UNCHANGED <<phase, idx, raised>>
    <3>1. Empty \in Contents
      BY DEF Contents
    <3>2. again' \in Seq(SeenType)
      BY <2>2, <3>1, SeeTyped
    <3> QED
      BY <1>2, <2>2, <3>2 DEF Audit, TypeOK, firstRun
  <2>3. CASE Raise("exhausted") /\ UNCHANGED idx
    BY <1>2, <2>3 DEF Audit, Raise, TypeOK, firstRun
  <2> QED
    BY <1>2, <2>1, <2>2, <2>3 DEF Audit
<1>3. CASE ResumeRecorded(q)
  <2>1. CASE Exhausted(q.kind)
    BY <1>3, <2>1 DEF ResumeRecorded, Raise, TypeOK, firstRun
  <2>2. CASE ~Exhausted(q.kind)
    <3>1. /\ See(q, NextRecorded(q.kind), FALSE)
          /\ idx' = Advanced(q.kind)
          /\ UNCHANGED <<mode, phase, firstRun, switched, diverged, raised>>
      BY <1>3, <2>2 DEF ResumeRecorded
    <3>2. again' \in Seq(SeenType)
      BY <1>1, <2>2, <3>1, NextRecordedTyped, SeeTyped
    <3>3. mode = "resume" /\ recorded' = recorded
      BY <1>3 DEF ResumeRecorded, Replaying, firstRun
    <3>4. /\ idx' \in [Kinds -> Nat]
          /\ \A j \in Kinds : idx'[j] <= Len(recorded'[j])
      BY <1>1, <2>2, <3>1, <3>3, AdvancedTyped
    <3> QED
      BY <3>1, <3>2, <3>4 DEF TypeOK, firstRun
  <2> QED
    BY <2>1, <2>2
<1>4. CASE ResumeLive(q)
  <2>1. PICK v \in Answers(q) : See(q, v, TRUE)
    BY <1>4 DEF ResumeLive
  <2>2. again' \in Seq(SeenType)
    BY <2>1, AnswersTyped, SeeTyped
  <2> QED
    BY <1>4, <2>2 DEF ResumeLive, TypeOK, firstRun
<1>5. CASE Rerun(q)
  <2>1. PICK v \in Answers(q) :
          /\ See(q, v, TRUE)
          /\ IF q.kind = "retrieve"
               THEN UNCHANGED <<idx, diverged>>
               ELSE /\ \E found \in Comparisons(q, v) : diverged' = (diverged \/ found)
                    /\ idx' = Advanced(q.kind)
    BY <1>5 DEF Rerun
  <2>2. again' \in Seq(SeenType)
    BY <2>1, AnswersTyped, SeeTyped
  <2>3. idx' \in [Kinds -> Nat]
    BY <1>1, <2>1, AdvancedTyped DEF TypeOK
  <2>4. diverged' \in BOOLEAN
    BY <2>1 DEF TypeOK, Comparisons
  <2> QED
    BY <1>5, <2>2, <2>3, <2>4 DEF Rerun, Replaying, TypeOK, firstRun
<1>6. CASE LiveRaises(q)
  BY <1>6 DEF LiveRaises, Raise, TypeOK, firstRun
<1> QED
  BY <1>2, <1>3, <1>4, <1>5, <1>6 DEF Answered

(* Every state of every run over a recording is well typed; an index of an   *)
(* audit or a resumption never passes the end of its list.  (replay.py.)     *)
THEOREM TypeCorrect == Spec => []TypeOK
<1>1. Init => TypeOK
  <2> SUFFICES ASSUME Init PROVE TypeOK
    OBVIOUS
  <2>1. <<>> \in Seq(AnswerType) /\ <<>> \in Seq(SeenType) /\ Len(<<>>) = 0
    BY EmptySeq
  <2>2. cp \in [model : Nat, tool : Nat, at : Nat]
    <3>1. cp = NoCheckpoint
      BY DEF Init
    <3>2. RunBound + 1 \in Nat
      BY ReplayAssumption
    <3> QED
      BY <3>1, <3>2 DEF NoCheckpoint
  <2>3. recorded \in [Kinds -> Seq(AnswerType)] /\ trail \in Seq(AnswerType)
    BY <2>1 DEF Init
  <2>4. idx \in [Kinds -> Nat] /\ \A k \in Kinds : idx[k] <= Len(recorded[k])
    <3>1. idx = [k \in Kinds |-> 0] /\ recorded = [k \in Kinds |-> <<>>]
      BY DEF Init
    <3> QED
      BY <2>1, <3>1
  <2>5. charged \in [model : Nat, tool : Nat] /\ again \in Seq(SeenType)
    BY <2>1 DEF Init
  <2> QED
    BY <2>2, <2>3, <2>4, <2>5 DEF Init, TypeOK
<1>2. TypeOK /\ [Next]_vars => TypeOK'
  <2> SUFFICES ASSUME TypeOK, [Next]_vars PROVE TypeOK'
    OBVIOUS
  <2>1. ASSUME NEW q \in Questions, Record(q) PROVE TypeOK'
    <3>1. /\ idx \in [Kinds -> Nat]
          /\ mode # "rerun" => \A k \in Kinds : idx[k] <= Len(recorded[k])
      BY DEF TypeOK
    <3>2. mode # "rerun" => \A k \in Kinds : idx[k] <= Len(recorded'[k])
      BY <2>1, <3>1, RecordTyped
    <3>3. stamped' \subseteq Nat
      BY <2>1, StampingTyped DEF Record
    <3> QED
      BY <2>1, <3>2, <3>3, RecordTyped DEF Record, TypeOK, secondRun
  <2>2. ASSUME NEW q \in Questions, CutShort(q) PROVE TypeOK'
    <3>1. charged' \in [model : Nat, tool : Nat]
      <4>1. PICK v \in Values : charged' \in {charged, Counted(q, v)}
        BY <2>2 DEF CutShort
      <4>2. charged \in [model : Nat, tool : Nat]
        BY DEF TypeOK
      <4>3. Counted(q, v) \in [model : Nat, tool : Nat]
        BY CountedTyped
      <4> QED
        BY <4>1, <4>2, <4>3
    <3>2. stamped' \subseteq Nat
      BY <2>2, StampingTyped DEF CutShort
    <3> QED
      BY <2>2, <3>1, <3>2 DEF CutShort, TypeOK, secondRun
  <2>3. CASE FinishFirst
    BY <2>3 DEF FinishFirst, TypeOK, firstRun, secondRun
  <2>4. CASE Checkpoint
    <3>1. trail \in Seq(AnswerType)
      BY DEF TypeOK
    <3>2. Len(trail) \in Nat
      BY <3>1, LenProperties
    <3>3. cp' \in [model : Nat, tool : Nat, at : Nat]
      BY <2>4, <3>2 DEF Checkpoint, TypeOK
    <3> QED
      BY <2>4, <3>3 DEF Checkpoint, TypeOK, secondRun
  <2>5. CASE StartSecond
    BY <2>5 DEF StartSecond, TypeOK, firstRun, secondRun
  <2>6. ASSUME NEW q \in Asked, Answered(q) PROVE TypeOK'
    BY <2>6, AskedTyped, AnsweredTyped
  <2>7. CASE FinishSecond
    BY <2>7 DEF FinishSecond, TypeOK, firstRun, secondRun
  <2>8. CASE UNCHANGED vars
    BY <2>8 DEF TypeOK, vars
  <2> QED
    BY <2>1, <2>2, <2>3, <2>4, <2>5, <2>6, <2>7, <2>8 DEF Next, Finished
<1> QED
  BY <1>1, <1>2, PTL DEF Spec

-----------------------------------------------------------------------------
(* What an answer of the second run says about the switch: an audit sees no  *)
(* live answers, a rerun none other, and a resumption no live answer of a    *)
(* model or a tool before it has switched.                                   *)
SwitchInv ==
  /\ mode = "audit" => \A i \in DOMAIN again : ~again[i].live
  /\ mode = "rerun" => \A i \in DOMAIN again : again[i].live
  /\ mode = "resume" /\ ~switched
       => \A i \in DOMAIN again : again[i].kind # "retrieve" => ~again[i].live
  /\ NoReturnToRecording

(* The second run grows at its end, by the answer that is seen.              *)
LEMMA SeeAppends ==
  ASSUME TypeOK, NEW q, NEW v, NEW live, See(q, v, live)
  PROVE  /\ Len(again) \in Nat
         /\ DOMAIN again = 1..Len(again)
         /\ DOMAIN again' = 1..(Len(again) + 1)
         /\ \A i \in 1..Len(again) : again'[i] = again[i]
         /\ again'[Len(again) + 1].live = live
         /\ again'[Len(again) + 1].kind = q.kind
<1>1. again \in Seq(SeenType)
  BY DEF TypeOK
<1> QED
  BY <1>1 DEF See

(* An answer may follow the earlier ones if it is live, or if none of them,  *)
(* retrievals apart, was.                                                    *)
LEMMA NoReturnStep ==
  ASSUME TypeOK, NoReturnToRecording, NEW q, NEW v, NEW live, See(q, v, live),
         \/ live
         \/ \A i \in DOMAIN again : again[i].kind # "retrieve" => ~again[i].live
  PROVE  NoReturnToRecording'
<1> DEFINE n == Len(again)
<1>1. /\ n \in Nat /\ DOMAIN again = 1..n /\ DOMAIN again' = 1..(n + 1)
      /\ \A i \in 1..n : again'[i] = again[i]
      /\ again'[n + 1].live = live
  BY SeeAppends
<1>2. SUFFICES ASSUME NEW i \in 1..(n + 1), NEW j \in 1..(n + 1), i < j, again'[i].live,
                      again'[i].kind # "retrieve", again'[j].kind # "retrieve"
               PROVE  again'[j].live
  BY <1>1 DEF NoReturnToRecording
<1> HIDE DEF n
<1>3. i \in 1..n /\ again'[i] = again[i]
  BY <1>1, <1>2
<1>4. CASE j = n + 1
  BY <1>1, <1>2, <1>3, <1>4
<1>5. CASE j # n + 1
  <2>1. j \in 1..n /\ again'[j] = again[j]
    BY <1>1, <1>5
  <2> QED
    BY <1>1, <1>2, <1>3, <2>1 DEF NoReturnToRecording
<1> QED
  BY <1>4, <1>5

LEMMA SwitchStep ==
  ASSUME TypeOK, SwitchInv, NEW q \in AskedType, Answered(q)
  PROVE  SwitchInv'
<1>1. CASE UNCHANGED <<mode, again, switched>>
  BY <1>1 DEF SwitchInv, NoReturnToRecording
<1>0. ASSUME NEW v, NEW live, See(q, v, live)
      PROVE  \A i \in DOMAIN again' :
               \/ i \in DOMAIN again /\ again'[i] = again[i]
               \/ again'[i].live = live /\ again'[i].kind = q.kind
  <2>1. ASSUME NEW i \in 1..(Len(again) + 1), i \notin 1..Len(again)
        PROVE  i = Len(again) + 1
    BY <1>0, <2>1, SeeAppends
  <2> QED
    BY <1>0, <2>1, SeeAppends
<1>2. ASSUME NEW v, See(q, v, FALSE), mode = "audit", UNCHANGED <<mode, switched>>
      PROVE  SwitchInv'
  BY <1>0, <1>2, NoReturnStep DEF SwitchInv
<1>3. ASSUME NEW v, See(q, v, TRUE), mode = "rerun", UNCHANGED <<mode, switched>>
      PROVE  SwitchInv'
  BY <1>0, <1>3, NoReturnStep DEF SwitchInv
<1>4. ASSUME NEW v, See(q, v, FALSE), mode = "resume", ~switched, UNCHANGED <<mode, switched>>
      PROVE  SwitchInv'
  BY <1>0, <1>4, NoReturnStep DEF SwitchInv
<1>5. ASSUME NEW v, See(q, v, TRUE), mode = "resume", UNCHANGED mode,
             switched' = (switched \/ q.kind # "retrieve")
      PROVE  SwitchInv'
  BY <1>0, <1>5, NoReturnStep DEF SwitchInv
<1>6. CASE Audit(q)
  BY <1>1, <1>2, <1>6 DEF Audit, Replaying, Raise
<1>7. CASE ResumeRecorded(q)
  BY <1>1, <1>4, <1>7 DEF ResumeRecorded, Replaying, Raise, FromRecording
<1>8. CASE ResumeLive(q)
  BY <1>5, <1>8 DEF ResumeLive, Replaying
<1>9. CASE Rerun(q)
  BY <1>3, <1>9 DEF Rerun, Replaying
<1>10. CASE LiveRaises(q)
  BY <1>1, <1>10 DEF LiveRaises, Raise
<1> QED
  BY <1>6, <1>7, <1>8, <1>9, <1>10 DEF Answered

(* No resumption returns to the recording after a live answer of a model or  *)
(* a tool.  (ResumableEnvironment._switched.)                                *)
THEOREM NoReturnHolds == Spec => []NoReturnToRecording
<1>1. Init => SwitchInv
  <2>1. Init => again = <<>>
    BY DEF Init
  <2>2. DOMAIN <<>> = {}
    OBVIOUS
  <2> QED
    BY <2>1, <2>2 DEF SwitchInv, NoReturnToRecording
<1>2. TypeOK /\ SwitchInv /\ [Next]_vars => SwitchInv'
  <2> SUFFICES ASSUME TypeOK, SwitchInv, [Next]_vars PROVE SwitchInv'
    OBVIOUS
  <2>1. CASE UNCHANGED <<mode, again, switched>>
    BY <2>1 DEF SwitchInv, NoReturnToRecording
  <2>2. ASSUME NEW q \in Asked, Answered(q) PROVE SwitchInv'
    BY <2>2, AskedTyped, SwitchStep
  <2> QED
    BY <2>1, <2>2 DEF Next, Record, CutShort, FinishFirst, Checkpoint, StartSecond,
                      FinishSecond, Finished, firstRun, secondRun, vars
<1>3. SwitchInv => NoReturnToRecording
  BY DEF SwitchInv
<1> QED
  BY <1>1, <1>2, <1>3, TypeCorrect, PTL DEF Spec

-----------------------------------------------------------------------------
(* While nothing was raised the recording holds every answer that was        *)
(* counted; a checkpoint beyond it was taken after the exception.            *)
RecordingInv ==
  /\ cut = NoCut => \A k \in {"model", "tool"} : charged[k] <= Len(recorded[k])
  /\ phase = "recording" => cut = NoCut
  /\ \A k \in {"model", "tool"} :
       cp[k] > Len(recorded[k]) => cut # NoCut /\ cp.at = Len(trail)
  /\ ResumeInsideRecording

LEMMA RecordStep ==
  ASSUME TypeOK, RecordingInv, NEW q \in Questions, Record(q)
  PROVE  RecordingInv'
<1>1. PICK v \in Answers(q) : charged' = Counted(q, v)
  BY DEF Record
<1>2. cut = NoCut /\ UNCHANGED <<phase, cut, cp, raised>> /\ raised # "index"
  <2>1. phase = "recording" /\ cut = NoCut /\ UNCHANGED <<phase, cut, cp, raised>>
    BY DEF Record, RecordingInv, secondRun
  <2> QED
    BY <2>1 DEF RecordingInv, ResumeInsideRecording
<1>3. ASSUME NEW k \in {"model", "tool"}
      PROVE  /\ charged'[k] <= Len(recorded'[k])
             /\ ~(cp[k] > Len(recorded'[k]))
  <2>1. /\ k \in Kinds /\ charged[k] \in Nat /\ cp[k] \in Nat
        /\ charged'[k] \in Nat
    BY <1>1, <1>3, RecordTyped DEF Kinds, TypeOK
  <2>2. /\ Len(recorded[k]) \in Nat /\ Len(recorded'[k]) \in Nat
        /\ Len(recorded'[k]) >= Len(recorded[k])
        /\ k = q.kind => Len(recorded'[k]) = Len(recorded[k]) + 1
    BY <2>1, RecordTyped
  <2>3. charged[k] <= Len(recorded[k]) /\ ~(cp[k] > Len(recorded[k]))
    BY <1>2, <1>3 DEF RecordingInv
  <2>4. charged'[k] <= charged[k] + 1 /\ (k # q.kind => charged'[k] = charged[k])
    BY <1>1, <1>3, CountedTyped
  <2> QED
    BY <2>1, <2>2, <2>3, <2>4
<1> QED
  BY <1>2, <1>3 DEF RecordingInv, ResumeInsideRecording

LEMMA CheckpointStep ==
  ASSUME TypeOK, RecordingInv, Checkpoint, raised # "index"
  PROVE  RecordingInv'
<1>1. /\ cp' = [model |-> charged.model, tool |-> charged.tool, at |-> Len(trail)]
      /\ UNCHANGED <<phase, trail, cut, charged, recorded, raised>>
  BY DEF Checkpoint, secondRun
<1>2. \A k \in {"model", "tool"} : cp'[k] = charged[k]
  BY <1>1
<1>3. cp'.at = Len(trail)
  BY <1>1
<1>4. ASSUME NEW k \in {"model", "tool"}, cp'[k] > Len(recorded[k]) PROVE cut # NoCut
  <2>1. charged[k] \in Nat /\ recorded[k] \in Seq(AnswerType)
    BY <1>4 DEF TypeOK, Kinds
  <2>2. Len(recorded[k]) \in Nat
    BY <2>1, LenProperties
  <2> QED
    BY <1>2, <1>4, <2>1, <2>2 DEF RecordingInv
<1> QED
  BY <1>1, <1>3, <1>4 DEF RecordingInv, ResumeInsideRecording

(* A resumption raises IndexError only where the checkpoint counts more      *)
(* answers than were recorded.                                               *)
LEMMA IndexRaise ==
  ASSUME TypeOK, RecordingInv, NEW q \in AskedType, ResumeRecorded(q), Exhausted(q.kind)
  PROVE  cut # NoCut /\ cp.at = Len(trail)
<1>1. q.kind \in {"model", "tool"} /\ idx[q.kind] < cp[q.kind]
  BY DEF ResumeRecorded, FromRecording, AskedType, Kinds
<1>2. idx[q.kind] \in Nat /\ cp[q.kind] \in Nat /\ recorded[q.kind] \in Seq(AnswerType)
  BY <1>1 DEF TypeOK, Kinds
<1>3. Len(recorded[q.kind]) \in Nat /\ idx[q.kind] >= Len(recorded[q.kind])
  BY <1>2, LenProperties DEF Exhausted
<1>4. cp[q.kind] > Len(recorded[q.kind])
  BY <1>1, <1>2, <1>3
<1> QED
  BY <1>1, <1>4 DEF RecordingInv

(* A resumption runs out of the recording only when the first run ended in   *)
(* an exception and the checkpoint came after it, however long the runs.     *)
(* (Session.checkpoint, ResumableEnvironment.)                               *)
THEOREM ResumeInsideHolds == Spec => []ResumeInsideRecording
<1> DEFINE Inv == RecordingInv /\ (phase \in {"recording", "recorded"} => raised = "")
<1>1. Init => Inv
  <2> SUFFICES ASSUME Init PROVE Inv
    OBVIOUS
  <2>1. \A k \in {"model", "tool"} : recorded[k] = <<>> /\ charged[k] = 0
    <3>1. recorded = [k \in Kinds |-> <<>>] /\ charged = [model |-> 0, tool |-> 0]
      BY DEF Init
    <3> QED
      BY <3>1 DEF Kinds
  <2>2. \A k \in {"model", "tool"} : cp[k] = 0
    <3>1. cp = NoCheckpoint
      BY DEF Init
    <3> QED
      BY <3>1 DEF NoCheckpoint
  <2>3. Len(<<>>) = 0
    BY EmptySeq
  <2>4. phase = "recording" /\ cut = NoCut /\ raised = ""
    BY DEF Init
  <2>5. \A k \in {"model", "tool"} : charged[k] <= Len(recorded[k]) /\ ~(cp[k] > Len(recorded[k]))
    BY <2>1, <2>2, <2>3
  <2> QED
    BY <2>4, <2>5 DEF RecordingInv, ResumeInsideRecording
<1>2. TypeOK /\ Inv /\ [Next]_vars => Inv'
  <2> SUFFICES ASSUME TypeOK, Inv, [Next]_vars PROVE Inv'
    OBVIOUS
  <2>1. ASSUME NEW q \in Questions, Record(q) PROVE Inv'
    <3>1. RecordingInv'
      BY <2>1, RecordStep
    <3> QED
      BY <2>1, <3>1 DEF Record, secondRun
  <2>2. ASSUME NEW q \in Questions, CutShort(q) PROVE Inv'
    <3>1. q # NoCut
      <4>1. q.kind # "none" /\ NoCut.kind = "none"
        BY <2>2, QuestionsTyped DEF AskedType, Kinds, NoCut
      <4> QED
        BY <4>1
    <3> QED
      BY <2>2, <3>1 DEF CutShort, RecordingInv, ResumeInsideRecording, secondRun
  <2>3. CASE FinishFirst
    BY <2>3 DEF FinishFirst, RecordingInv, ResumeInsideRecording, firstRun, secondRun
  <2>4. CASE Checkpoint
    <3>1. RecordingInv'
      BY <2>4, CheckpointStep DEF Checkpoint
    <3> QED
      BY <2>4, <3>1 DEF Checkpoint, secondRun
  <2>5. CASE StartSecond
    BY <2>5 DEF StartSecond, RecordingInv, ResumeInsideRecording, firstRun, secondRun
  <2>6. ASSUME NEW q \in Asked, phase = "replaying", Answered(q) PROVE Inv'
    <3>1. /\ UNCHANGED firstRun
          /\ phase' \in {"replaying", "done"}
          /\ raised' # "index" \/ raised' = raised
               \/ (ResumeRecorded(q) /\ Exhausted(q.kind))
      BY <2>6 DEF Answered, Audit, ResumeRecorded, ResumeLive, Rerun, LiveRaises, Raise
    <3>2. raised' = "index" => cut # NoCut /\ cp.at = Len(trail)
      BY <2>6, <3>1, AskedTyped, IndexRaise DEF RecordingInv, ResumeInsideRecording
    <3> QED
      BY <3>1, <3>2 DEF RecordingInv, ResumeInsideRecording, firstRun
  <2>7. CASE FinishSecond
    BY <2>7 DEF FinishSecond, RecordingInv, ResumeInsideRecording, firstRun, secondRun
  <2>8. CASE UNCHANGED vars
    BY <2>8 DEF RecordingInv, ResumeInsideRecording, vars
  <2> QED
    BY <2>1, <2>2, <2>3, <2>4, <2>5, <2>6, <2>7, <2>8 DEF Next, Finished
<1>3. Inv => ResumeInsideRecording
  BY DEF RecordingInv
<1> QED
  BY <1>1, <1>2, <1>3, TypeCorrect, PTL DEF Spec

-----------------------------------------------------------------------------
(* How many of the first n elements of a sequence are of a kind.             *)
KindCount(seq, kind, n) == Cardinality({i \in 1..n : seq[i].kind = kind})

LEMMA CountFinite ==
  ASSUME NEW seq, NEW kind, NEW n \in Nat
  PROVE  /\ IsFiniteSet({i \in 1..n : seq[i].kind = kind})
         /\ KindCount(seq, kind, n) \in Nat
<1>1. IsFiniteSet(1..n)
  BY FS_Interval
<1>2. IsFiniteSet({i \in 1..n : seq[i].kind = kind})
  BY <1>1, FS_Subset
<1> QED
  BY <1>2, FS_CardinalityType DEF KindCount

LEMMA CountNone ==
  ASSUME NEW seq, NEW kind
  PROVE  KindCount(seq, kind, 0) = 0
<1>1. {i \in 1..0 : seq[i].kind = kind} = {}
  OBVIOUS
<1> QED
  BY <1>1, FS_EmptySet DEF KindCount

LEMMA CountNext ==
  ASSUME NEW seq, NEW kind, NEW n \in Nat
  PROVE  KindCount(seq, kind, n + 1) =
           IF seq[n + 1].kind = kind THEN KindCount(seq, kind, n) + 1 ELSE KindCount(seq, kind, n)
<1> DEFINE S(m) == {i \in 1..m : seq[i].kind = kind}
<1>1. IsFiniteSet(S(n))
  BY CountFinite
<1>2. CASE seq[n + 1].kind = kind
  <2>1. S(n + 1) = S(n) \union {n + 1} /\ n + 1 \notin S(n)
    BY <1>2
  <2>2. Cardinality(S(n) \union {n + 1}) = Cardinality(S(n)) + 1
    BY <1>1, <2>1, FS_AddElement
  <2> QED
    BY <1>2, <2>1, <2>2 DEF KindCount
<1>3. CASE seq[n + 1].kind # kind
  <2>1. S(n + 1) = S(n)
    BY <1>3
  <2> QED
    BY <1>3, <2>1 DEF KindCount
<1> QED
  BY <1>2, <1>3

LEMMA CountGrows ==
  ASSUME NEW seq, NEW kind, NEW m \in Nat, NEW n \in Nat, m <= n
  PROVE  KindCount(seq, kind, m) <= KindCount(seq, kind, n)
<1>1. {i \in 1..m : seq[i].kind = kind} \subseteq {i \in 1..n : seq[i].kind = kind}
  OBVIOUS
<1>2. IsFiniteSet({i \in 1..n : seq[i].kind = kind})
  BY CountFinite
<1>3. Cardinality({i \in 1..m : seq[i].kind = kind}) <= Cardinality({i \in 1..n : seq[i].kind = kind})
  BY <1>1, <1>2, FS_Subset
<1> QED
  BY <1>3 DEF KindCount

LEMMA CountSame ==
  ASSUME NEW seq, NEW other, NEW kind, NEW n \in Nat, \A i \in 1..n : seq[i] = other[i]
  PROVE  KindCount(seq, kind, n) = KindCount(other, kind, n)
<1>1. {i \in 1..n : seq[i].kind = kind} = {i \in 1..n : other[i].kind = kind}
  OBVIOUS
<1> QED
  BY <1>1 DEF KindCount

(* Each list of the recording holds the answers of its kind in their order.  *)
RecordedInv ==
  /\ \A k \in Kinds : Len(recorded[k]) = KindCount(trail, k, Len(trail))
  /\ \A n \in 1..Len(trail) :
       recorded[trail[n].kind][KindCount(trail, trail[n].kind, n)] = trail[n]

(* Before the second run nothing has been answered again.                    *)
FreshInv ==
  /\ phase \in {"recording", "recorded"} =>
       /\ again = <<>> /\ idx = [k \in Kinds |-> 0]
       /\ ~switched /\ ~diverged /\ raised = ""
  /\ cp # NoCheckpoint => cp.at <= Len(trail)

LEMMA TrailTyped ==
  ASSUME TypeOK
  PROVE  /\ Len(trail) \in Nat /\ Len(again) \in Nat
         /\ \A n \in 1..Len(trail) : trail[n] \in AnswerType
         /\ \A k \in Kinds : Len(recorded[k]) \in Nat /\ idx[k] \in Nat
<1>1. trail \in Seq(AnswerType) /\ again \in Seq(SeenType)
  BY DEF TypeOK
<1>2. \A k \in Kinds : recorded[k] \in Seq(AnswerType) /\ idx[k] \in Nat
  BY DEF TypeOK
<1> QED
  BY <1>1, <1>2, LenProperties, ElementOfSeq

(* Where the answer after the first n is in the list of its kind.            *)
LEMMA NextPlace ==
  ASSUME TypeOK, RecordedInv, NEW n \in Nat, n < Len(trail), NEW k, k = trail[n + 1].kind
  PROVE  /\ k \in Kinds
         /\ KindCount(trail, k, n) \in Nat
         /\ KindCount(trail, k, n + 1) = KindCount(trail, k, n) + 1
         /\ KindCount(trail, k, n) < Len(recorded[k])
         /\ recorded[k][KindCount(trail, k, n) + 1] = trail[n + 1]
<1>1. n + 1 \in 1..Len(trail) /\ k \in Kinds /\ Len(trail) \in Nat
  BY TrailTyped DEF AnswerType
<1>2. KindCount(trail, k, n) \in Nat /\ KindCount(trail, k, n + 1) = KindCount(trail, k, n) + 1
  BY CountFinite, CountNext
<1>3. KindCount(trail, k, n + 1) <= KindCount(trail, k, Len(trail))
  BY <1>1, CountGrows
<1>4. Len(recorded[k]) = KindCount(trail, k, Len(trail)) /\ Len(recorded[k]) \in Nat
  BY <1>1, TrailTyped DEF RecordedInv
<1>5. recorded[k][KindCount(trail, k, n + 1)] = trail[n + 1]
  BY <1>1 DEF RecordedInv
<1> QED
  BY <1>1, <1>2, <1>3, <1>4, <1>5

LEMMA RecordInOrder ==
  ASSUME TypeOK, RecordedInv, NEW q \in Questions, Record(q)
  PROVE  RecordedInv'
<1> DEFINE m == Len(trail)
<1>1. PICK v \in Answers(q) :
        /\ trail' = Append(trail, Answer(q, v))
        /\ recorded' = [recorded EXCEPT ![q.kind] = Append(@, Answer(q, v))]
  BY DEF Record, Records
<1>2. q.kind \in Kinds /\ Answer(q, v) \in AnswerType /\ Answer(q, v).kind = q.kind
  BY QuestionsTyped, AnswersTyped DEF AskedType, Answer, AnswerType
<1>3. /\ m \in Nat /\ Len(trail') = m + 1 /\ trail'[m + 1] = Answer(q, v)
      /\ \A i \in 1..m : trail'[i] = trail[i]
  <2>1. trail \in Seq(AnswerType)
    BY DEF TypeOK
  <2> QED
    BY <1>1, <1>2, <2>1, AppendProperties, LenProperties
<1>4. /\ recorded[q.kind] \in Seq(AnswerType) /\ Len(recorded[q.kind]) \in Nat
      /\ recorded'[q.kind] = Append(recorded[q.kind], Answer(q, v))
      /\ \A k \in Kinds \ {q.kind} : recorded'[k] = recorded[k]
  BY <1>1, <1>2, TrailTyped DEF TypeOK
<1>5. /\ Len(recorded'[q.kind]) = Len(recorded[q.kind]) + 1
      /\ recorded'[q.kind][Len(recorded[q.kind]) + 1] = Answer(q, v)
      /\ \A i \in 1..Len(recorded[q.kind]) : recorded'[q.kind][i] = recorded[q.kind][i]
  BY <1>2, <1>4, AppendProperties
<1> HIDE DEF m
<1>6. \A k, n : n \in 0..m => KindCount(trail', k, n) = KindCount(trail, k, n)
  BY <1>3, CountSame
<1>7. ASSUME NEW k \in Kinds
      PROVE  Len(recorded'[k]) = KindCount(trail', k, m + 1)
  <2>1. Len(recorded[k]) = KindCount(trail, k, m) /\ KindCount(trail', k, m) = KindCount(trail, k, m)
    BY <1>3, <1>6 DEF RecordedInv, m
  <2>2. KindCount(trail', k, m + 1) =
          IF q.kind = k THEN KindCount(trail', k, m) + 1 ELSE KindCount(trail', k, m)
    BY <1>2, <1>3, CountNext
  <2> QED
    BY <1>4, <1>5, <2>1, <2>2
<1>8. ASSUME NEW n \in 1..(m + 1)
      PROVE  recorded'[trail'[n].kind][KindCount(trail', trail'[n].kind, n)] = trail'[n]
  <2>1. CASE n = m + 1
    <3>1. KindCount(trail', q.kind, m + 1) = Len(recorded[q.kind]) + 1
      BY <1>2, <1>5, <1>7
    <3> QED
      BY <1>2, <1>3, <1>5, <2>1, <3>1
  <2>2. CASE n # m + 1
    <3>1. n \in 1..m /\ trail'[n] = trail[n]
      BY <1>3, <2>2
    <3>2. PICK k \in Kinds : k = trail[n].kind
      BY <1>3, <3>1, TrailTyped DEF m, AnswerType
    <3>3. /\ n - 1 \in Nat /\ n - 1 < Len(trail) /\ (n - 1) + 1 = n
      BY <1>3, <3>1 DEF m
    <3>4. KindCount(trail, k, n) \in 1..Len(recorded[k]) /\ recorded[k][KindCount(trail, k, n)] = trail[n]
      BY <3>2, <3>3, NextPlace, TrailTyped
    <3>5. KindCount(trail', k, n) = KindCount(trail, k, n)
      BY <1>3, <1>6, <3>1
    <3> QED
      BY <1>4, <1>5, <3>1, <3>2, <3>4, <3>5
  <2> QED
    BY <2>1, <2>2
<1> QED
  BY <1>3, <1>7, <1>8 DEF RecordedInv

LEMMA RecordingTrue == Spec => []RecordedInv
<1>1. Init => RecordedInv
  <2> SUFFICES ASSUME Init PROVE RecordedInv
    OBVIOUS
  <2>1. trail = <<>> /\ Len(trail) = 0 /\ \A k \in Kinds : Len(recorded[k]) = 0
    BY EmptySeq DEF Init
  <2> QED
    BY <2>1, CountNone DEF RecordedInv
<1>2. TypeOK /\ RecordedInv /\ [Next]_vars => RecordedInv'
  <2> SUFFICES ASSUME TypeOK, RecordedInv, [Next]_vars PROVE RecordedInv'
    OBVIOUS
  <2>1. CASE UNCHANGED <<trail, recorded>>
    BY <2>1 DEF RecordedInv
  <2>2. ASSUME NEW q \in Questions, Record(q) PROVE RecordedInv'
    BY <2>2, RecordInOrder
  <2> QED
    BY <2>1, <2>2 DEF Next, CutShort, FinishFirst, Checkpoint, StartSecond, Answered, Audit,
                      ResumeRecorded, ResumeLive, Rerun, LiveRaises, FinishSecond, Finished,
                      firstRun, vars
<1> QED
  BY <1>1, <1>2, TypeCorrect, PTL DEF Spec

LEMMA FreshTrue == Spec => []FreshInv
<1>1. Init => FreshInv
  BY DEF Init, FreshInv
<1>2. TypeOK /\ FreshInv /\ [Next]_vars => FreshInv'
  <2> SUFFICES ASSUME TypeOK, FreshInv, [Next]_vars PROVE FreshInv'
    OBVIOUS
  <2>1. ASSUME NEW q \in Questions, Record(q) PROVE FreshInv'
    <3>1. Len(trail') = Len(trail) + 1 /\ Len(trail) \in Nat
      <4>1. PICK v : trail' = Append(trail, Answer(q, v)) /\ Answer(q, v) \in AnswerType
        BY <2>1, QuestionsTyped, AnswersTyped DEF Record, Answer, AnswerType, AskedType
      <4>2. trail \in Seq(AnswerType)
        BY DEF TypeOK
      <4> QED
        BY <4>1, <4>2, AppendProperties, LenProperties
    <3>2. UNCHANGED <<phase, cp, again, idx, switched, diverged, raised>> /\ cp.at \in Nat
      BY <2>1 DEF Record, secondRun, TypeOK
    <3>3. cp # NoCheckpoint => cp.at <= Len(trail')
      <4>1. cp # NoCheckpoint => cp.at <= Len(trail)
        BY DEF FreshInv
      <4>2. cp.at \in Nat
        BY DEF TypeOK
      <4> QED
        BY <3>1, <4>1, <4>2
    <3>4. cp' # NoCheckpoint => cp'.at <= Len(trail')
      BY <3>2, <3>3 DEF NoCheckpoint
    <3> QED
      BY <3>2, <3>4 DEF FreshInv
  <2>2. ASSUME NEW q \in Questions, CutShort(q) PROVE FreshInv'
    BY <2>2 DEF CutShort, FreshInv, secondRun
  <2>3. CASE FinishFirst
    BY <2>3 DEF FinishFirst, FreshInv, firstRun, secondRun
  <2>6. CASE StartSecond
    BY <2>6 DEF StartSecond, FreshInv, firstRun
  <2>7. CASE FinishSecond
    BY <2>7 DEF FinishSecond, FreshInv, firstRun
  <2>8. CASE UNCHANGED vars
    BY <2>8 DEF FreshInv, vars
  <2>4. CASE Checkpoint
    <3>1. cp'.at <= Len(trail')
      BY <2>4, TrailTyped DEF Checkpoint
    <3> QED
      BY <2>4, <3>1 DEF Checkpoint, FreshInv, secondRun
  <2>5. ASSUME NEW q \in Asked, phase = "replaying", Answered(q) PROVE FreshInv'
    <3>1. phase' \in {"replaying", "done"} /\ UNCHANGED <<trail, cp>>
      BY <2>5 DEF Answered, Audit, ResumeRecorded, ResumeLive, Rerun, LiveRaises, Raise, firstRun
    <3> QED
      BY <3>1 DEF FreshInv
  <2> QED
    BY <2>1, <2>2, <2>3, <2>4, <2>5, <2>6, <2>7, <2>8 DEF Next, Finished
<1> QED
  BY <1>1, <1>2, TypeCorrect, PTL DEF Spec

-----------------------------------------------------------------------------
(* How far the second run follows the first, after one more answer.          *)
LEMMA SeenFollows ==
  ASSUME TypeOK, NEW q, NEW v, NEW live, See(q, v, live), trail' = trail
  PROVE  /\ Len(again') = Len(again) + 1
         /\ \A m \in 0..Len(again) : FollowsUpTo(m)' <=> FollowsUpTo(m)
         /\ Follows' <=> /\ Follows /\ Len(again) < Len(trail)
                         /\ Answer(q, v) = trail[Len(again) + 1]
<1>0. PICK n \in Nat : n = Len(again)
  BY TrailTyped
<1>1. /\ \A i \in 1..n : again'[i] = again[i]
      /\ Len(again') = n + 1
      /\ again'[n + 1] = [kind |-> q.kind, req |-> q.req, resp |-> v, live |-> live]
  <2>1. again \in Seq(SeenType)
    BY DEF TypeOK
  <2> QED
    BY <1>0, <2>1 DEF See
<1>2. Len(trail) \in Nat /\ Len(trail') = Len(trail)
  BY TrailTyped
<1>3. Answer(again'[n + 1], again'[n + 1].resp) = Answer(q, v)
  BY <1>1 DEF Answer
<1>4. ASSUME NEW m \in 0..n
      PROVE  FollowsUpTo(m)' <=> FollowsUpTo(m)
  <2>1. \A i \in 1..m : again'[i] = again[i]
    BY <1>1
  <2> QED
    BY <1>2, <2>1 DEF FollowsUpTo
<1>5. Follows' <=> /\ n + 1 <= Len(trail)
                   /\ \A i \in 1..(n + 1) : Answer(again'[i], again'[i].resp) = trail[i]
  BY <1>1, <1>2 DEF Follows, FollowsUpTo
<1>6. Follows <=> n <= Len(trail) /\ \A i \in 1..n : Answer(again[i], again[i].resp) = trail[i]
  BY <1>0 DEF Follows, FollowsUpTo
<1>7. (\A i \in 1..(n + 1) : Answer(again'[i], again'[i].resp) = trail[i])
        <=> /\ \A i \in 1..n : Answer(again[i], again[i].resp) = trail[i]
            /\ Answer(q, v) = trail[n + 1]
  <2>1. \A i : i \in 1..(n + 1) <=> i \in 1..n \/ i = n + 1
    OBVIOUS
  <2> QED
    BY <1>1, <1>3, <2>1
<1>8. n + 1 <= Len(trail) <=> n <= Len(trail) /\ n < Len(trail)
  BY <1>2
<1> QED
  BY <1>0, <1>1, <1>4, <1>5, <1>6, <1>7, <1>8

(* A run that has followed the first asks the first one's next question, or, *)
(* at its end, the one that ended it.                                        *)
LEMMA NextAsked ==
  ASSUME TypeOK, Follows, NEW q \in Asked
  PROVE  /\ Len(again) < Len(trail) =>
              /\ q.kind = trail[Len(again) + 1].kind
              /\ \A v : Answer(q, v) = trail[Len(again) + 1] <=> v = trail[Len(again) + 1].resp
         /\ ~(Len(again) < Len(trail)) =>
              Len(again) = Len(trail) /\ q = cut /\ cut # NoCut
<1>1. Len(again) \in Nat /\ Len(trail) \in Nat
  BY TrailTyped
<1>2. CASE Len(again) < Len(trail)
  <2>1. PICK next : next = trail[Len(again) + 1]
    OBVIOUS
  <2>2. q = [kind |-> next.kind, req |-> next.req]
    BY <1>2, <2>1 DEF Asked
  <2>3. Len(again) + 1 \in 1..Len(trail)
    BY <1>1, <1>2
  <2>4. next \in AnswerType
    BY <2>1, <2>3, TrailTyped
  <2>5. \A v : Answer(q, v) = next <=> v = next.resp
    BY <2>2, <2>4 DEF Answer, AnswerType
  <2> QED
    BY <1>2, <2>1, <2>2, <2>5
<1>3. CASE ~(Len(again) < Len(trail))
  <2>1. q \in {cut} \ {NoCut}
    BY <1>3 DEF Asked
  <2>2. Len(again) <= Len(trail)
    BY DEF Follows, FollowsUpTo
  <2> QED
    BY <1>1, <1>3, <2>1, <2>2
<1> QED
  BY <1>2, <1>3

(* An index that has counted the answers so far finds the next one.          *)
LEMMA AdvanceInStep ==
  ASSUME TypeOK, Len(again) < Len(trail), NEW j \in Kinds, j = trail[Len(again) + 1].kind,
         idx' = Advanced(j),
         NEW k \in Kinds, idx[k] = KindCount(trail, k, Len(again))
  PROVE  idx'[k] = KindCount(trail, k, Len(again) + 1)
<1>1. KindCount(trail, k, Len(again) + 1) =
        IF j = k THEN KindCount(trail, k, Len(again)) + 1 ELSE KindCount(trail, k, Len(again))
  BY CountNext, TrailTyped
<1>2. idx \in [Kinds -> Nat]
  BY DEF TypeOK
<1>3. idx'[k] = IF j = k THEN idx[k] + 1 ELSE idx[k]
  BY <1>2 DEF Advanced
<1> QED
  BY <1>1, <1>3

(* The recorded answer at such an index is the next one of the first run.    *)
LEMMA RecordedNext ==
  ASSUME TypeOK, RecordedInv, Len(again) < Len(trail), NEW k, k = trail[Len(again) + 1].kind,
         idx[k] = KindCount(trail, k, Len(again))
  PROVE  /\ k \in Kinds /\ ~Exhausted(k)
         /\ recorded[k][idx[k] + 1] = trail[Len(again) + 1]
         /\ NextRecorded(k) = trail[Len(again) + 1].resp
<1>1. /\ k \in Kinds
      /\ KindCount(trail, k, Len(again)) \in Nat
      /\ KindCount(trail, k, Len(again)) < Len(recorded[k])
      /\ recorded[k][KindCount(trail, k, Len(again)) + 1] = trail[Len(again) + 1]
  BY NextPlace, TrailTyped
<1>2. Len(recorded[k]) \in Nat
  BY <1>1, TrailTyped
<1> QED
  BY <1>1, <1>2 DEF Exhausted, NextRecorded

-----------------------------------------------------------------------------
(* An audit follows the first run with its indices in step, and goes past it *)
(* only by the question that ended it.                                       *)
AuditInv ==
  mode = "audit" =>
    /\ Len(again) <= Len(trail) =>
         Follows /\ \A k \in Kinds : idx[k] = KindCount(trail, k, Len(again))
    /\ Len(again) > Len(trail) => FollowsUpTo(Len(trail)) /\ cut # NoCut
    /\ raised = "exhausted" => Len(again) >= Len(trail) /\ cut # NoCut

(* The indices of a rerun are in step as long as it follows the first run.   *)
RerunInv ==
  mode = "rerun" =>
    /\ Follows => \A k \in {"model", "tool"} : idx[k] = KindCount(trail, k, Len(again))
    /\ RerunExact

(* So are those of a resumption until it switches, which it does not do      *)
(* before the checkpoint.                                                    *)
ResumeInv ==
  mode = "resume" /\ Aligned =>
    /\ Follows /\ ~switched =>
         \A k \in {"model", "tool"} : idx[k] = KindCount(trail, k, Len(again))
    /\ Follows /\ Len(again) <= cp.at => ~switched
    /\ ResumeExactWhenAligned

LEMMA FreshSecond ==
  ASSUME TypeOK, FreshInv, phase \in {"recording", "recorded"}
  PROVE  AuditInv /\ RerunInv /\ ResumeInv
<1>1. /\ again = <<>> /\ idx = [k \in Kinds |-> 0]
      /\ ~switched /\ ~diverged /\ raised = ""
  BY DEF FreshInv
<1>2. Len(again) = 0 /\ DOMAIN again = {}
  <2>1. again \in Seq(SeenType)
    BY DEF TypeOK
  <2>2. Len(again) = 0
    BY <1>1, EmptySeq
  <2>3. DOMAIN again = 1..0
    BY <2>1, <2>2, LenProperties
  <2> QED
    BY <2>2, <2>3
<1>3. Follows
  BY <1>2, TrailTyped DEF Follows, FollowsUpTo
<1>4. \A k \in Kinds : idx[k] = KindCount(trail, k, Len(again))
  BY <1>1, <1>2, CountNone
<1>5. AuditInv
  <2>1. ~(Len(again) > Len(trail))
    BY <1>2, TrailTyped
  <2> QED
    BY <1>1, <1>3, <1>4, <2>1 DEF AuditInv
<1>6. RerunInv
  BY <1>1, <1>3, <1>4 DEF RerunInv, RerunExact, Kinds
<1>7. ResumeInv
  BY <1>1, <1>2, <1>3, <1>4 DEF ResumeInv, ResumeExactWhenAligned, Kinds
<1> QED
  BY <1>5, <1>6, <1>7

LEMMA AuditKept ==
  ASSUME TypeOK, RecordedInv, AuditInv, NEW q \in Asked, Audit(q)
  PROVE  AuditInv'
<1>0. /\ mode = "audit" /\ UNCHANGED <<mode, trail, cut>> /\ Len(again) \in Nat /\ Len(trail) \in Nat
      /\ q.kind \in Kinds
  BY TrailTyped, AskedTyped DEF Audit, Replaying, firstRun, AskedType
<1>1. CASE Len(again) < Len(trail)
  <2>1. Follows /\ \A k \in Kinds : idx[k] = KindCount(trail, k, Len(again))
    BY <1>0, <1>1 DEF AuditInv
  <2>2. /\ q.kind = trail[Len(again) + 1].kind
        /\ \A v : Answer(q, v) = trail[Len(again) + 1] <=> v = trail[Len(again) + 1].resp
    BY <1>1, <2>1, NextAsked
  <2>3. ~Exhausted(q.kind) /\ NextRecorded(q.kind) = trail[Len(again) + 1].resp
    BY <1>0, <1>1, <2>1, <2>2, RecordedNext
  <2>4. See(q, NextRecorded(q.kind), FALSE) /\ idx' = Advanced(q.kind) /\ UNCHANGED raised
    BY <2>3 DEF Audit
  <2>5. Len(again') = Len(again) + 1 /\ Follows'
    BY <1>0, <1>1, <2>1, <2>2, <2>3, <2>4, SeenFollows
  <2>6. \A k \in Kinds : idx'[k] = KindCount(trail, k, Len(again) + 1)
    BY <1>0, <1>1, <2>1, <2>2, <2>4, AdvanceInStep
  <2>7. raised' # "exhausted"
    BY <1>0, <1>1, <2>4 DEF AuditInv
  <2> QED
    BY <1>0, <1>1, <2>5, <2>6, <2>7 DEF AuditInv
<1>2. CASE ~(Len(again) < Len(trail))
  <2>1. FollowsUpTo(Len(trail)) /\ cut # NoCut
    <3>1. CASE Len(again) = Len(trail)
      <4>1. Follows
        BY <1>0, <3>1 DEF AuditInv
      <4> QED
        BY <1>2, <3>1, <4>1, NextAsked DEF Follows
    <3>2. CASE Len(again) > Len(trail)
      BY <1>0, <3>2 DEF AuditInv
    <3> QED
      BY <1>0, <1>2, <3>1, <3>2
  <2>2. CASE UNCHANGED <<again, idx>>
    BY <1>0, <1>2, <2>1, <2>2 DEF AuditInv, Follows, FollowsUpTo
  <2>3. ASSUME NEW v, See(q, v, FALSE) PROVE AuditInv'
    <3>1. PICK m \in 0..Len(again) : m = Len(trail)
      BY <1>0, <1>2
    <3>2. FollowsUpTo(m)' /\ Len(again') = Len(again) + 1
      BY <1>0, <2>1, <2>3, <3>1, SeenFollows
    <3>3. FollowsUpTo(Len(trail))'
      BY <1>0, <3>1, <3>2 DEF FollowsUpTo
    <3>4. Len(again') > Len(trail') /\ cut' # NoCut
      BY <1>0, <1>2, <2>1, <3>2
    <3> QED
      BY <1>0, <3>3, <3>4, <3>2 DEF AuditInv
  <2> QED
    BY <2>2, <2>3 DEF Audit, Raise
<1> QED
  BY <1>1, <1>2

(* A token that was compared stays compared.                                 *)
LEMMA TokenKept ==
  ASSUME TypeOK, NEW kind \in {"model", "tool"}, UNCHANGED <<recorded, stamped>>,
         idx' = Advanced(kind)
  PROVE  /\ TokenCompared => TokenCompared'
         /\ ~Exhausted(kind) /\ HoldsToken(kind, idx[kind] + 1) => TokenCompared'
<1>1. /\ \A k \in {"model", "tool"} : idx[k] \in Nat /\ idx'[k] \in Nat /\ idx[k] <= idx'[k]
      /\ idx'[kind] = idx[kind] + 1
  <2>1. idx \in [Kinds -> Nat] /\ idx' = [idx EXCEPT ![kind] = @ + 1]
    BY DEF TypeOK, Advanced
  <2>2. kind \in Kinds /\ {"model", "tool"} \subseteq Kinds
    BY DEF Kinds
  <2>3. \A k \in Kinds : idx[k] \in Nat
    BY <2>1
  <2>4. idx'[kind] = idx[kind] + 1
    BY <2>1, <2>2
  <2>5. ASSUME NEW k \in Kinds, k # kind PROVE idx'[k] = idx[k]
    BY <2>1, <2>5
  <2>6. idx[kind] + 1 \in Nat /\ idx[kind] <= idx[kind] + 1
    BY <2>2, <2>3
  <2>7. ASSUME NEW k \in {"model", "tool"}
        PROVE  idx[k] \in Nat /\ idx'[k] \in Nat /\ idx[k] <= idx'[k]
    <3>1. CASE k = kind
      BY <2>2, <2>3, <2>4, <2>6, <3>1
    <3>2. CASE k # kind
      BY <2>2, <2>3, <2>5, <3>2
    <3> QED
      BY <3>1, <3>2
  <2> QED
    BY <2>4, <2>7
<1>2. \A k \in {"model", "tool"} : DOMAIN recorded[k] = 1..Len(recorded[k])
                                   /\ Len(recorded[k]) \in Nat
  <2>1. \A k \in {"model", "tool"} : recorded[k] \in Seq(AnswerType)
    BY DEF TypeOK, Kinds
  <2> QED
    BY <2>1, LenProperties
<1>3. \A k, i : HoldsToken(k, i)' <=> HoldsToken(k, i)
  BY DEF HoldsToken, Stamps
<1>4. ASSUME TokenCompared PROVE TokenCompared'
  <2>1. PICK k \in {"model", "tool"} :
          \E i \in DOMAIN recorded[k] : i <= idx[k] /\ HoldsToken(k, i)
    BY <1>4 DEF TokenCompared
  <2>2. PICK i \in DOMAIN recorded[k] : i <= idx[k] /\ HoldsToken(k, i)
    BY <2>1
  <2>3. i \in DOMAIN recorded'[k] /\ i <= idx'[k]
    BY <1>1, <1>2, <2>2
  <2> QED
    BY <1>3, <2>2, <2>3 DEF TokenCompared
<1>5. ASSUME ~Exhausted(kind), HoldsToken(kind, idx[kind] + 1) PROVE TokenCompared'
  <2>1. idx[kind] + 1 \in DOMAIN recorded'[kind] /\ idx[kind] + 1 <= idx'[kind]
    BY <1>1, <1>2, <1>5 DEF Exhausted
  <2> QED
    BY <1>3, <1>5, <2>1 DEF TokenCompared
<1> QED
  BY <1>4, <1>5

LEMMA RerunKept ==
  ASSUME TypeOK, RecordedInv, RerunInv, NEW q \in Asked, Rerun(q)
  PROVE  RerunInv'
<1>0. /\ mode = "rerun" /\ UNCHANGED <<mode, trail, recorded, stamped>> /\ Len(again) \in Nat /\ Len(trail) \in Nat
      /\ q.kind \in Kinds
  BY TrailTyped, AskedTyped DEF Rerun, Replaying, firstRun, AskedType
<1>1. PICK v \in Answers(q) :
        /\ See(q, v, TRUE)
        /\ q.kind = "retrieve" => UNCHANGED <<idx, diverged>>
        /\ q.kind # "retrieve" =>
             /\ \E found \in Comparisons(q, v) : diverged' = (diverged \/ found)
             /\ idx' = Advanced(q.kind)
  BY DEF Rerun
<1>2. /\ Len(again') = Len(again) + 1
      /\ Follows' <=> /\ Follows /\ Len(again) < Len(trail)
                      /\ Answer(q, v) = trail[Len(again) + 1]
  BY <1>0, <1>1, SeenFollows
<1>3. HasRetrieval' <=> HasRetrieval \/ q.kind = "retrieve"
  <2>1. PICK n \in Nat : n = Len(again)
    BY <1>0
  <2>2. /\ DOMAIN again = 1..n /\ DOMAIN again' = 1..(n + 1)
        /\ \A i \in 1..n : again'[i] = again[i]
        /\ again'[n + 1].kind = q.kind
    BY <1>1, <2>1, SeeAppends
  <2>3. \A i : i \in 1..(n + 1) <=> i \in 1..n \/ i = n + 1
    BY <2>1
  <2> QED
    BY <2>2, <2>3 DEF HasRetrieval
<1>4. /\ diverged \in BOOLEAN
      /\ diverged => ~Follows \/ TokenCompared
      /\ ~Follows /\ ~HasRetrieval => diverged
  BY <1>0 DEF TypeOK, RerunInv, RerunExact
<1>5. CASE ~Follows
  <2>1. ~Follows'
    BY <1>2, <1>5
  <2>2. diverged => diverged'
    BY <1>1
  <2>3. ~HasRetrieval' => diverged'
    BY <1>3, <1>4, <1>5, <2>2
  <2> QED
    BY <2>1, <2>3 DEF RerunInv, RerunExact
<1>6. CASE Follows /\ q.kind = "retrieve"
  <2>1. (diverged' => TokenCompared') /\ HasRetrieval'
    <3>1. TokenCompared' <=> TokenCompared
      BY <1>0, <1>1, <1>6 DEF TokenCompared, HoldsToken, Stamps
    <3> QED
      BY <1>1, <1>3, <1>4, <1>6, <3>1
  <2>2. ASSUME Follows', NEW k \in {"model", "tool"}
        PROVE  idx'[k] = KindCount(trail, k, Len(again) + 1)
    <3>1. Len(again) < Len(trail) /\ trail[Len(again) + 1].kind # k
      BY <1>2, <1>6, <2>2, NextAsked
    <3>2. KindCount(trail, k, Len(again) + 1) = KindCount(trail, k, Len(again))
      BY <1>0, <3>1, CountNext
    <3>3. idx[k] = KindCount(trail, k, Len(again))
      BY <1>0, <1>6, <2>2 DEF RerunInv
    <3> QED
      BY <1>1, <1>6, <3>2, <3>3
  <2> QED
    BY <1>0, <1>2, <2>1, <2>2 DEF RerunInv, RerunExact
<1>7. CASE Follows /\ q.kind # "retrieve"
  <2>0. /\ \A k \in {"model", "tool"} : idx[k] = KindCount(trail, k, Len(again))
        /\ q.kind \in {"model", "tool"}
    BY <1>0, <1>7 DEF RerunInv, Kinds
  <2>1. CASE Len(again) < Len(trail)
    <3>1. q.kind = trail[Len(again) + 1].kind
      BY <1>7, <2>1, NextAsked
    <3>2. ~Exhausted(q.kind) /\ recorded[q.kind][idx[q.kind] + 1] = trail[Len(again) + 1]
      BY <2>0, <2>1, <3>1, RecordedNext
    <3>3. (diverged' => ~Follows' \/ TokenCompared') /\ (~Follows' => diverged')
      <4>1. PICK found \in Comparisons(q, v) : diverged' = (diverged \/ found)
        BY <1>1, <1>7
      <4>2. Differs(q, v) <=> ~Follows'
        BY <1>2, <1>7, <2>1, <3>2 DEF Differs
      <4>3. /\ TokenCompared => TokenCompared'
            /\ HoldsToken(q.kind, idx[q.kind] + 1) => TokenCompared'
        BY <1>0, <1>1, <1>7, <2>0, <3>2, TokenKept
      <4>4. CASE Differs(q, v)
        BY <1>4, <4>1, <4>2, <4>4 DEF Comparisons
      <4>5. CASE ~Differs(q, v)
        BY <1>4, <1>7, <4>1, <4>2, <4>3, <4>5 DEF Comparisons
      <4> QED
        BY <4>4, <4>5
    <3>4. \A k \in {"model", "tool"} : idx'[k] = KindCount(trail, k, Len(again) + 1)
      BY <1>0, <1>1, <1>7, <2>0, <2>1, <3>1, AdvanceInStep DEF Kinds
    <3> QED
      BY <1>0, <1>2, <3>3, <3>4 DEF RerunInv, RerunExact
  <2>2. CASE ~(Len(again) < Len(trail))
    <3>1. Len(again) = Len(trail)
      BY <1>7, <2>2, NextAsked
    <3>2. Exhausted(q.kind)
      <4>1. Len(recorded[q.kind]) = KindCount(trail, q.kind, Len(trail))
        BY <1>0 DEF RecordedInv
      <4>2. idx[q.kind] = Len(recorded[q.kind]) /\ idx[q.kind] \in Nat
        BY <1>0, <2>0, <3>1, <4>1, TrailTyped
      <4> QED
        BY <4>2 DEF Exhausted
    <3>3. diverged' /\ ~Follows'
      BY <1>1, <1>2, <1>4, <1>7, <2>2, <3>2 DEF Differs, Comparisons
    <3> QED
      BY <3>3 DEF RerunInv, RerunExact
  <2> QED
    BY <2>1, <2>2
<1> QED
  BY <1>5, <1>6, <1>7

(* Every answer of the second run comes from the recording or is live.       *)
LEMMA ResumedAnswer ==
  ASSUME TypeOK, RecordedInv, ResumeInv, mode = "resume", Aligned, FreshInv,
         Follows, NEW q \in Asked, q.kind # "retrieve"
  PROVE  /\ FromRecording(q.kind) <=> Len(again) < cp.at
         /\ Len(again) < cp.at => Len(again) < Len(trail) /\ ~switched
<1>0. /\ Len(again) \in Nat /\ Len(trail) \in Nat /\ cp.at \in Nat
      /\ q.kind \in {"model", "tool"} /\ idx[q.kind] \in Nat
      /\ cp.at <= Len(trail)
  BY TrailTyped, AskedTyped DEF AskedType, Kinds, TypeOK, FreshInv, Aligned
<1>1. cp[q.kind] = KindCount(trail, q.kind, cp.at)
  BY <1>0 DEF Aligned, Questioned, KindCount
<1>2. /\ KindCount(trail, q.kind, cp.at) \in Nat
      /\ KindCount(trail, q.kind, Len(again)) \in Nat
      /\ KindCount(trail, q.kind, Len(again) + 1) \in Nat
  <2>1. Len(again) + 1 \in Nat
    BY <1>0
  <2> QED
    BY <1>0, <2>1, CountFinite
<1>3. /\ ~switched => idx[q.kind] = KindCount(trail, q.kind, Len(again))
      /\ Len(again) <= cp.at => ~switched
  BY <1>0 DEF ResumeInv
<1>4. CASE Len(again) < cp.at
  <2>1. Len(again) < Len(trail) /\ ~switched
    BY <1>0, <1>3, <1>4
  <2>2. q.kind = trail[Len(again) + 1].kind
    BY <2>1, NextAsked
  <2>3. KindCount(trail, q.kind, Len(again) + 1) = KindCount(trail, q.kind, Len(again)) + 1
    BY <1>0, <2>2, CountNext
  <2>4. KindCount(trail, q.kind, Len(again) + 1) <= KindCount(trail, q.kind, cp.at)
    <3>1. Len(again) + 1 \in Nat /\ Len(again) + 1 <= cp.at
      BY <1>0, <1>4
    <3> QED
      BY <1>0, <3>1, CountGrows
  <2>5. idx[q.kind] < cp[q.kind]
    BY <1>1, <1>2, <1>3, <2>1, <2>3, <2>4
  <2> QED
    BY <1>4, <2>1, <2>5 DEF FromRecording
<1>5. CASE ~(Len(again) < cp.at)
  <2>1. KindCount(trail, q.kind, cp.at) <= KindCount(trail, q.kind, Len(again))
    BY <1>0, <1>5, CountGrows
  <2>2. ~switched => ~(idx[q.kind] < cp[q.kind])
    BY <1>1, <1>2, <1>3, <2>1
  <2> QED
    BY <1>5, <2>2 DEF FromRecording
<1> QED
  BY <1>4, <1>5

(* An answer that comes from the right side of the checkpoint.               *)
LEMMA ExactStep ==
  ASSUME TypeOK, ResumeInv, mode = "resume", Aligned, UNCHANGED <<mode, trail, charged, cp>>,
         NEW q, NEW v, NEW live, See(q, v, live),
         q.kind # "retrieve" /\ Follows => (live <=> Len(again) + 1 > cp.at)
  PROVE  ResumeExactWhenAligned'
<1>0. PICK n \in Nat : n = Len(again)
  BY TrailTyped
<1>1. /\ DOMAIN again = 1..n /\ DOMAIN again' = 1..(n + 1)
      /\ \A i \in 1..n : again'[i] = again[i]
      /\ again'[n + 1].live = live /\ again'[n + 1].kind = q.kind
  BY <1>0, SeeAppends
<1>2. \A m \in 0..n : FollowsUpTo(m)' <=> FollowsUpTo(m)
  BY <1>0, SeenFollows
<1>3. \A i \in 1..n : again[i].kind # "retrieve" /\ FollowsUpTo(i - 1) => (again[i].live <=> i > cp.at)
  BY <1>1 DEF ResumeInv, ResumeExactWhenAligned
<1>4. ASSUME NEW i \in 1..(n + 1), again'[i].kind # "retrieve", FollowsUpTo(i - 1)'
      PROVE  again'[i].live <=> i > cp.at
  <2>0. PICK m \in 0..n : m = i - 1
    BY <1>0
  <2>1. FollowsUpTo(i - 1)
    BY <1>2, <1>4, <2>0 DEF FollowsUpTo
  <2>2. CASE i = n + 1
    <3>1. Follows
      BY <1>0, <2>1, <2>2 DEF Follows
    <3> QED
      BY <1>0, <1>1, <1>4, <2>2, <3>1
  <2>3. CASE i # n + 1
    <3>1. i \in 1..n
      BY <2>3
    <3> QED
      BY <1>1, <1>3, <1>4, <2>1, <3>1
  <2> QED
    BY <2>2, <2>3
<1>5. \A i \in DOMAIN again' :
        again'[i].kind # "retrieve" /\ FollowsUpTo(i - 1)' => (again'[i].live <=> i > cp'.at)
  BY <1>1, <1>4
<1> QED
  BY <1>5 DEF ResumeExactWhenAligned

LEMMA ResumeRecordedKept ==
  ASSUME TypeOK, RecordedInv, FreshInv, ResumeInv, NEW q \in Asked, ResumeRecorded(q)
  PROVE  ResumeInv'
<1>0. /\ mode = "resume" /\ ~switched /\ FromRecording(q.kind) /\ q.kind # "retrieve"
      /\ UNCHANGED <<mode, trail, cut, charged, recorded, cp, switched>>
      /\ Len(again) \in Nat /\ Len(trail) \in Nat /\ cp.at \in Nat /\ q.kind \in Kinds
  BY TrailTyped, AskedTyped DEF ResumeRecorded, Replaying, FromRecording, firstRun, AskedType, TypeOK
<1>1. Aligned' <=> Aligned
  BY <1>0 DEF Aligned, Questioned
<1>2. SUFFICES ASSUME Aligned PROVE ResumeInv'
  BY <1>0, <1>1 DEF ResumeInv
<1>3. CASE Exhausted(q.kind)
  <2>1. UNCHANGED <<again, idx>>
    BY <1>3 DEF ResumeRecorded, Raise
  <2> QED
    BY <1>0, <1>1, <2>1
    DEF ResumeInv, ResumeExactWhenAligned, Follows, FollowsUpTo
<1>4. CASE ~Exhausted(q.kind)
  <2>1. See(q, NextRecorded(q.kind), FALSE) /\ idx' = Advanced(q.kind)
    BY <1>4 DEF ResumeRecorded
  <2>2. /\ Len(again') = Len(again) + 1
        /\ Follows' => Follows /\ Len(again) < Len(trail)
    BY <1>0, <2>1, SeenFollows
  <2>3. Follows => Len(again) < cp.at
    BY <1>0, <1>2, ResumedAnswer
  <2>4. ResumeExactWhenAligned'
    <3>1. q.kind # "retrieve" /\ Follows => (FALSE <=> Len(again) + 1 > cp.at)
      BY <1>0, <2>3
    <3> QED
      BY <1>0, <1>2, <2>1, <3>1, ExactStep
  <2>5. ASSUME Follows', NEW k \in {"model", "tool"}
        PROVE  idx'[k] = KindCount(trail, k, Len(again) + 1)
    <3>1. idx[k] = KindCount(trail, k, Len(again)) /\ k \in Kinds
      BY <1>0, <1>2, <2>2, <2>5 DEF ResumeInv, Kinds
    <3>2. q.kind = trail[Len(again) + 1].kind
      BY <2>2, <2>5, NextAsked
    <3> QED
      BY <1>0, <2>1, <2>2, <2>5, <3>1, <3>2, AdvanceInStep
  <2> QED
    BY <1>0, <2>2, <2>4, <2>5 DEF ResumeInv
<1> QED
  BY <1>3, <1>4

LEMMA ResumeLiveKept ==
  ASSUME TypeOK, RecordedInv, FreshInv, ResumeInv, NEW q \in Asked, ResumeLive(q)
  PROVE  ResumeInv'
<1>0. /\ mode = "resume" /\ ~FromRecording(q.kind)
      /\ switched' = (switched \/ q.kind # "retrieve")
      /\ UNCHANGED <<mode, trail, cut, charged, recorded, cp, idx>>
      /\ Len(again) \in Nat /\ Len(trail) \in Nat /\ cp.at \in Nat /\ q.kind \in Kinds
  BY TrailTyped, AskedTyped DEF ResumeLive, Replaying, firstRun, AskedType, TypeOK
<1>1. Aligned' <=> Aligned
  BY <1>0 DEF Aligned, Questioned
<1>2. SUFFICES ASSUME Aligned PROVE ResumeInv'
  BY <1>0, <1>1 DEF ResumeInv
<1>3. PICK v : See(q, v, TRUE)
  BY DEF ResumeLive
<1>4. /\ Len(again') = Len(again) + 1
      /\ Follows' => Follows /\ Len(again) < Len(trail)
  BY <1>0, <1>3, SeenFollows
<1>5. q.kind # "retrieve" /\ Follows => ~(Len(again) < cp.at)
  BY <1>0, <1>2, ResumedAnswer
<1>6. ResumeExactWhenAligned'
  <2>1. q.kind # "retrieve" /\ Follows => (TRUE <=> Len(again) + 1 > cp.at)
    BY <1>0, <1>5
  <2> QED
    BY <1>0, <1>2, <1>3, <2>1, ExactStep
<1>7. ASSUME Follows', Len(again) + 1 <= cp.at PROVE ~switched'
  <2>1. Follows /\ Len(again) <= cp.at /\ Len(again) < cp.at
    BY <1>0, <1>4, <1>7
  <2>2. ~switched
    BY <1>0, <1>2, <2>1 DEF ResumeInv
  <2> QED
    BY <1>0, <1>5, <2>1, <2>2
<1>8. ASSUME Follows', ~switched', NEW k \in {"model", "tool"}
      PROVE  idx'[k] = KindCount(trail, k, Len(again) + 1)
  <2>1. Follows /\ ~switched /\ q.kind = "retrieve" /\ Len(again) < Len(trail)
    BY <1>0, <1>4, <1>8
  <2>2. trail[Len(again) + 1].kind # k
    BY <1>8, <2>1, NextAsked
  <2>3. KindCount(trail, k, Len(again) + 1) = KindCount(trail, k, Len(again))
    BY <1>0, <2>2, CountNext
  <2>4. idx[k] = KindCount(trail, k, Len(again))
    BY <1>0, <1>2, <2>1 DEF ResumeInv
  <2> QED
    BY <1>0, <2>3, <2>4
<1> QED
  BY <1>0, <1>4, <1>6, <1>7, <1>8 DEF ResumeInv

(* An answer of another mode, or none at all, disturbs nothing.              *)
LEMMA OthersKept ==
  ASSUME RecordedInv, AuditInv, RerunInv, ResumeInv, UNCHANGED <<mode, firstRun>>,
         UNCHANGED <<again, idx, switched, diverged>>, raised' = raised \/ mode # "audit"
  PROVE  AuditInv' /\ RerunInv' /\ ResumeInv'
<1>1. UNCHANGED <<mode, trail, cut, charged, recorded, stamped, cp, again, idx, switched,
                  diverged>>
  BY DEF firstRun
<1>2. (FollowsUpTo(Len(trail))' <=> FollowsUpTo(Len(trail))) /\ (Follows' <=> Follows)
  BY <1>1 DEF FollowsUpTo, Follows
<1>3. AuditInv'
  BY <1>1, <1>2 DEF AuditInv
<1>4. RerunInv'
  BY <1>1, <1>2 DEF RerunInv, RerunExact, HasRetrieval, TokenCompared, HoldsToken, Stamps
<1>5. (Aligned' <=> Aligned) /\ (ResumeExactWhenAligned' <=> ResumeExactWhenAligned)
  BY <1>1 DEF Aligned, Questioned, ResumeExactWhenAligned, FollowsUpTo
<1>6. ResumeInv'
  BY <1>1, <1>2, <1>5 DEF ResumeInv
<1> QED
  BY <1>3, <1>4, <1>6

SecondInv == phase \in {"replaying", "done"} => AuditInv /\ RerunInv /\ ResumeInv

LEMMA SecondTrue == Spec => [](SecondInv /\ FreshInv /\ TypeOK)
<1>1. Init => SecondInv
  BY DEF Init, SecondInv
<1>2. TypeOK /\ RecordedInv /\ FreshInv /\ SecondInv /\ [Next]_vars => SecondInv'
  <2> SUFFICES ASSUME TypeOK, RecordedInv, FreshInv, SecondInv, [Next]_vars PROVE SecondInv'
    OBVIOUS
  <2>1. CASE phase' \in {"recording", "recorded"}
    BY <2>1 DEF SecondInv
  <2>2. CASE StartSecond
    <3>1. phase \in {"recording", "recorded"}
      BY <2>2 DEF StartSecond
    <3>2. UNCHANGED <<mode, firstRun, again, idx, switched, diverged, raised>>
      BY <2>2 DEF StartSecond, secondRun
    <3> QED
      BY <3>1, <3>2, FreshSecond, OthersKept DEF SecondInv
  <2>3. CASE FinishSecond \/ UNCHANGED vars
    <3>1. UNCHANGED <<mode, firstRun, again, idx, switched, diverged, raised>>
      BY <2>3 DEF FinishSecond, firstRun, secondRun, vars
    <3>2. phase' \in {"replaying", "done"} => phase \in {"replaying", "done"}
      BY <2>3 DEF FinishSecond, vars
    <3> QED
      BY <3>1, <3>2, OthersKept DEF SecondInv
  <2>4. ASSUME NEW q \in Asked, phase = "replaying", Answered(q) PROVE SecondInv'
    <3>0. AuditInv /\ RerunInv /\ ResumeInv
      BY <2>4 DEF SecondInv
    <3>1. CASE Audit(q)
      <4>1. mode' = "audit"
        BY <3>1 DEF Audit, Replaying
      <4>2. RerunInv' /\ ResumeInv'
        BY <4>1 DEF RerunInv, ResumeInv
      <4> QED
        BY <3>0, <3>1, <4>2, AuditKept DEF SecondInv
    <3>2. CASE Rerun(q)
      <4>1. mode' = "rerun"
        BY <3>2 DEF Rerun, Replaying
      <4>2. AuditInv' /\ ResumeInv'
        BY <4>1 DEF AuditInv, ResumeInv
      <4> QED
        BY <3>0, <3>2, <4>2, RerunKept DEF SecondInv
    <3>3. CASE ResumeRecorded(q) \/ ResumeLive(q)
      <4>1. mode' = "resume"
        BY <3>3 DEF ResumeRecorded, ResumeLive, Replaying
      <4>2. AuditInv' /\ RerunInv'
        BY <4>1 DEF AuditInv, RerunInv
      <4> QED
        BY <3>0, <3>3, <4>2, ResumeRecordedKept, ResumeLiveKept DEF SecondInv
    <3>4. CASE LiveRaises(q)
      <4>1. UNCHANGED <<mode, firstRun, again, idx, switched, diverged>> /\ mode # "audit"
        BY <3>4 DEF LiveRaises, Raise
      <4> QED
        BY <3>0, <4>1, OthersKept DEF SecondInv
    <3> QED
      BY <2>4, <3>1, <3>2, <3>3, <3>4 DEF Answered
  <2>5. CASE (\E q \in Questions : Record(q) \/ CutShort(q)) \/ FinishFirst \/ Checkpoint
    <3>1. phase' \in {"recording", "recorded"}
      BY <2>5 DEF Record, CutShort, FinishFirst, Checkpoint
    <3> QED
      BY <2>1, <3>1
  <2> QED
    BY <2>2, <2>3, <2>4, <2>5 DEF Next, Finished
<1> QED
  BY <1>1, <1>2, TypeCorrect, RecordingTrue, FreshTrue, PTL DEF Spec

(* In every state of a second run, and before it, its mode's invariant holds. *)
LEMMA SecondRuns ==
  ASSUME SecondInv, FreshInv, TypeOK PROVE AuditInv /\ RerunInv /\ ResumeInv
<1>1. phase \in {"recording", "recorded", "replaying", "done"}
  BY DEF TypeOK
<1> QED
  BY <1>1, FreshSecond DEF SecondInv

(* An audit sees the first run again, and the divergence error only at the   *)
(* question that ended it, for runs of any length over any answers.          *)
(* (ReplayEnvironment.)                                                      *)
THEOREM AuditFaithfulHolds == Spec => []AuditFaithful
<1>1. SecondInv /\ FreshInv /\ TypeOK => AuditFaithful
  <2> SUFFICES ASSUME SecondInv, FreshInv, TypeOK, mode = "audit" PROVE AuditFaithful
    BY DEF AuditFaithful
  <2>1. AuditInv /\ Len(again) \in Nat /\ Len(trail) \in Nat
    BY SecondRuns, TrailTyped
  <2>2. CASE Len(again) < Len(trail)
    BY <2>1, <2>2 DEF AuditInv, AuditFaithful, Follows
  <2>3. CASE Len(again) = Len(trail)
    BY <2>1, <2>3 DEF AuditInv, AuditFaithful, Follows
  <2>4. CASE Len(again) > Len(trail)
    BY <2>1, <2>4 DEF AuditInv, AuditFaithful
  <2> QED
    BY <2>1, <2>2, <2>3, <2>4
<1> QED
  BY <1>1, SecondTrue, PTL

(* A rerun reports a divergence exactly when its course differs from the     *)
(* recorded one, retrievals apart.  (RerunEnvironment.)                      *)
THEOREM RerunExactHolds == Spec => []RerunExact
<1>1. SecondInv /\ FreshInv /\ TypeOK => RerunExact
  BY SecondRuns DEF RerunInv, RerunExact
<1> QED
  BY <1>1, SecondTrue, PTL

(* A resumption from an aligned checkpoint answers from the recording up to  *)
(* it and live after it, exactly, for runs of any length.                    *)
(* (Session.checkpoint, ResumableEnvironment.)                               *)
THEOREM ResumeExactHolds == Spec => []ResumeExactWhenAligned
<1>1. SecondInv /\ FreshInv /\ TypeOK => ResumeExactWhenAligned
  BY SecondRuns DEF ResumeInv, ResumeExactWhenAligned
<1> QED
  BY <1>1, SecondTrue, PTL
=============================================================================
