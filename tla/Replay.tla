------------------------------- MODULE Replay -------------------------------
(***************************************************************************)
(* reliability/replay.py with Session.checkpoint and resume_from: a run    *)
(* over a RecordingEnvironment, and a second run of the same strategy over *)
(* what it recorded, in one of the three ReplayModes.                      *)
(*                                                                         *)
(* A strategy is deterministic: what it asks is a function of the answers  *)
(* it has seen.  So the second run asks what the first one asked for as    *)
(* long as its answers are the first one's, and anything after that.  The  *)
(* recorded environment is the one whose counters the checkpoint reads.    *)
(***************************************************************************)
EXTENDS Naturals, SequencesExt

CONSTANTS
  Values,     \* contents of a response, a tool result or a list of snippets
  Requests,   \* a tool's name and arguments
  Credentialed, \* the requests whose arguments get a token written into them
  RunBound    \* bound: answers to one run

Refused == "refused"   \* the result of a call that a gate refused or answered
Empty == "empty"       \* no snippets

ASSUME ReplayAssumption ==
  /\ RunBound \in Nat
  /\ Credentialed \subseteq Requests
  /\ Refused \notin Values
  /\ Empty \notin Values

VARIABLES
  mode,      \* the ReplayMode of the second run
  phase,     \* "recording", "recorded", "replaying", "done"
  trail,     \* the first run's questions and answers (history)
  cut,       \* the question whose exception ended the first run, or NoCut
  charged,   \* model_call_count and tool_call_count of the first environment
  recorded,  \* model_responses, tool_calls and retrievals
  stamped,   \* the model_responses with a token in a tool call's arguments
  cp,        \* the last session.checkpoint event, or NoCheckpoint
  again,     \* the second run's questions and answers; live: who answered
  idx,       \* _model_idx, _tool_idx, _retrieval_idx
  switched,  \* ResumableEnvironment._switched
  diverged,  \* RerunEnvironment has recorded a divergence
  raised     \* what ended the second run: "", "exhausted", "index", "live"

vars == <<mode, phase, trail, cut, charged, recorded, stamped, cp, again, idx,
          switched, diverged, raised>>
firstRun == <<trail, cut, charged, recorded, stamped, cp>>
secondRun == <<again, idx, switched, diverged, raised>>

Kinds == {"model", "tool", "retrieve"}
NoRequest == "no request"
Questions == [kind : {"model", "retrieve"}, req : {NoRequest}]
               \union [kind : {"tool"}, req : Requests]
NoCut == [kind |-> "none", req |-> NoRequest]
NoCheckpoint == [model |-> 0, tool |-> 0, at |-> RunBound + 1]

Answer(q, v) == [kind |-> q.kind, req |-> q.req, resp |-> v]
Answers(q) == IF q.kind = "tool" THEN Values \union {Refused} ELSE Values

-----------------------------------------------------------------------------
(* Mutant: a call is recorded only if it ran.                                *)
RecordsExecuted(q, v) == v # Refused

(* RecordingEnvironment: every answer is recorded, a refusal like any other. *)
Records(q, v) == TRUE

(* The environment counts each model answer and each charged tool call.      *)
Counted(q, v) ==
  [model |-> IF q.kind = "model" THEN charged.model + 1 ELSE charged.model,
   tool |-> IF q.kind = "tool" /\ v # Refused THEN charged.tool + 1 ELSE charged.tool]

(* A call that runs leaves a token in the caller's own dict of arguments:    *)
(* the one recorded with it.                                                 *)
Stamps(q, v) == q.kind = "tool" /\ q.req \in Credentialed /\ v # Refused

(* That dict may be part of the recorded model response that asked for it.   *)
Stamping(q, v) ==
  {stamped} \union
    {stamped \union {i} : i \in IF Stamps(q, v) THEN DOMAIN recorded["model"] ELSE {}}

(* A question of the first run is answered and recorded.                     *)
Record(q) ==
  /\ phase = "recording"
  /\ Len(trail) < RunBound
  /\ \E v \in Answers(q) :
       /\ trail' = Append(trail, Answer(q, v))
       /\ charged' = Counted(q, v)
       /\ recorded' = IF Records(q, v)
                        THEN [recorded EXCEPT ![q.kind] = Append(@, Answer(q, v))]
                        ELSE recorded
       /\ stamped' \in Stamping(q, v)
  /\ UNCHANGED <<mode, phase, cut, cp, secondRun>>

(* A question raises out of the strategy: after its charge (BudgetExceeded)  *)
(* or before it.  Nothing is recorded.                                       *)
CutShort(q) ==
  /\ phase = "recording"
  /\ \E v \in Values : charged' \in {charged, Counted(q, v)} /\ stamped' \in Stamping(q, v)
  /\ cut' = q
  /\ phase' = "recorded"
  /\ UNCHANGED <<mode, trail, recorded, cp, secondRun>>

FinishFirst ==
  /\ phase = "recording"
  /\ phase' = "recorded"
  /\ UNCHANGED <<mode, firstRun, secondRun>>

(* Session.checkpoint, between two questions or after the run.  Only RESUME  *)
(* reads it.                                                                 *)
Checkpoint ==
  /\ phase \in {"recording", "recorded"}
  /\ mode = "resume"
  /\ cp' = [model |-> charged.model, tool |-> charged.tool, at |-> Len(trail)]
  /\ UNCHANGED <<mode, phase, trail, cut, charged, recorded, stamped, secondRun>>

(* resume_from refuses to resume without a checkpoint.                       *)
StartSecond ==
  /\ phase = "recorded"
  /\ mode = "resume" => cp # NoCheckpoint
  /\ phase' = "replaying"
  /\ UNCHANGED <<mode, firstRun, secondRun>>

-----------------------------------------------------------------------------
(* The first n answers of the second run are those of the first.             *)
FollowsUpTo(n) ==
  /\ n <= Len(trail)
  /\ \A i \in 1..n : Answer(again[i], again[i].resp) = trail[i]
Follows == FollowsUpTo(Len(again))

(* What the strategy may ask next.                                           *)
Asked ==
  IF ~Follows THEN Questions
  ELSE IF Len(again) < Len(trail)
    THEN LET next == trail[Len(again) + 1] IN {[kind |-> next.kind, req |-> next.req]}
    ELSE {cut} \ {NoCut}

Replaying(m) == phase = "replaying" /\ mode = m /\ Len(again) < RunBound

(* The second run sees an answer.                                            *)
See(q, v, live) ==
  again' = Append(again, [kind |-> q.kind, req |-> q.req, resp |-> v, live |-> live])

(* The second run ends with an exception.                                    *)
Raise(why) == raised' = why /\ phase' = "done" /\ UNCHANGED again

(* Mutant: one index for calls and queries.                                  *)
AdvancedTogether(kind) ==
  [k \in Kinds |-> IF (k = "retrieve") = (kind = "retrieve") THEN idx[k] + 1 ELSE idx[k]]

Advanced(kind) == [idx EXCEPT ![kind] = @ + 1]

Exhausted(kind) == idx[kind] >= Len(recorded[kind])
NextRecorded(kind) == recorded[kind][idx[kind] + 1].resp

(* ReplayEnvironment: the next recorded answer of the kind, whatever was     *)
(* asked; none left is an error, except for retrievals.                      *)
Audit(q) ==
  /\ Replaying("audit")
  /\ \/ /\ ~Exhausted(q.kind)
        /\ See(q, NextRecorded(q.kind), FALSE)
        /\ idx' = Advanced(q.kind)
        /\ UNCHANGED <<phase, raised>>
     \/ /\ Exhausted(q.kind)
        /\ q.kind = "retrieve"
        /\ See(q, Empty, FALSE)
        /\ UNCHANGED <<phase, idx, raised>>
     \/ /\ Exhausted(q.kind)
        /\ q.kind # "retrieve"
        /\ Raise("exhausted")
        /\ UNCHANGED idx
  /\ UNCHANGED <<mode, firstRun, switched, diverged>>

(* Mutant: each kind switches for itself.                                    *)
FromRecordingByKind(kind) == kind # "retrieve" /\ idx[kind] < cp[kind]

(* ResumableEnvironment: recorded answers until either kind has reached its  *)
(* index in the checkpoint; retrievals are live throughout.                  *)
FromRecording(kind) == kind # "retrieve" /\ ~switched /\ idx[kind] < cp[kind]

ResumeRecorded(q) ==
  /\ Replaying("resume")
  /\ FromRecording(q.kind)
  /\ IF Exhausted(q.kind)
       THEN Raise("index") /\ UNCHANGED idx
       ELSE /\ See(q, NextRecorded(q.kind), FALSE)
            /\ idx' = Advanced(q.kind)
            /\ UNCHANGED <<phase, raised>>
  /\ UNCHANGED <<mode, firstRun, switched, diverged>>

ResumeLive(q) ==
  /\ Replaying("resume")
  /\ ~FromRecording(q.kind)
  /\ \E v \in Answers(q) : See(q, v, TRUE)
  /\ switched' = (switched \/ q.kind # "retrieve")
  /\ UNCHANGED <<mode, phase, firstRun, idx, diverged, raised>>

(* Mutant: the comparison ignores calls past the recording's end.            *)
DiffersWithin(q, v) ==
  ~Exhausted(q.kind) /\ recorded[q.kind][idx[q.kind] + 1] # Answer(q, v)

(* RerunEnvironment's comparisons: past the recording's end, or another      *)
(* name, argument or result.                                                 *)
Differs(q, v) ==
  Exhausted(q.kind) \/ recorded[q.kind][idx[q.kind] + 1] # Answer(q, v)

HoldsToken(kind, i) ==
  IF kind = "model" THEN i \in stamped ELSE Stamps(recorded[kind][i], recorded[kind][i].resp)

(* What the comparison finds.  Two tokens are never equal, and a token       *)
(* equals nothing else: a recorded entry that holds one differs from the     *)
(* live one, unless a scripted model gave both runs the same dict.           *)
Comparisons(q, v) ==
  IF Differs(q, v) THEN {TRUE}
  ELSE IF HoldsToken(q.kind, idx[q.kind] + 1) THEN BOOLEAN ELSE {FALSE}

(* Every answer is live; retrievals are not compared.                        *)
Rerun(q) ==
  /\ Replaying("rerun")
  /\ \E v \in Answers(q) :
       /\ See(q, v, TRUE)
       /\ IF q.kind = "retrieve"
            THEN UNCHANGED <<idx, diverged>>
            ELSE /\ \E found \in Comparisons(q, v) : diverged' = (diverged \/ found)
                 /\ idx' = Advanced(q.kind)
  /\ UNCHANGED <<mode, phase, firstRun, switched, raised>>

(* A live environment raises, in the modes that have one.                    *)
LiveRaises(q) ==
  /\ Replaying(mode)
  /\ \/ mode = "rerun"
     \/ mode = "resume" /\ ~FromRecording(q.kind)
  /\ Raise("live")
  /\ UNCHANGED <<mode, firstRun, idx, switched, diverged>>

Answered(q) == Audit(q) \/ ResumeRecorded(q) \/ ResumeLive(q) \/ Rerun(q) \/ LiveRaises(q)

(* The strategy has its answer; also the end of every run at the bound.      *)
FinishSecond ==
  /\ phase = "replaying"
  /\ Asked = {} \/ ~Follows \/ Len(again) = RunBound
  /\ phase' = "done"
  /\ UNCHANGED <<mode, firstRun, secondRun>>

Finished == phase = "done" /\ UNCHANGED vars

-----------------------------------------------------------------------------
Init ==
  /\ mode \in {"audit", "resume", "rerun"}
  /\ phase = "recording"
  /\ trail = <<>>
  /\ cut = NoCut
  /\ charged = [model |-> 0, tool |-> 0]
  /\ recorded = [k \in Kinds |-> <<>>]
  /\ stamped = {}
  /\ cp = NoCheckpoint
  /\ again = <<>>
  /\ idx = [k \in Kinds |-> 0]
  /\ switched = FALSE
  /\ diverged = FALSE
  /\ raised = ""

Next ==
  \/ \E q \in Questions : Record(q) \/ CutShort(q)
  \/ FinishFirst \/ Checkpoint \/ StartSecond
  \/ phase = "replaying" /\ \E q \in Asked : Answered(q)
  \/ FinishSecond \/ Finished

Spec == Init /\ [][Next]_vars

-----------------------------------------------------------------------------
Contents == Values \union {Refused, Empty}
AnswerType == [kind : Kinds, req : Requests \union {NoRequest}, resp : Contents]
SeenType == [kind : Kinds, req : Requests \union {NoRequest}, resp : Contents, live : BOOLEAN]

(* Types; an index points into its list, or past its end in a rerun.         *)
TypeOK ==
  /\ mode \in {"audit", "resume", "rerun"}
  /\ phase \in {"recording", "recorded", "replaying", "done"}
  /\ trail \in Seq(AnswerType)
  /\ cut \in Questions \union {NoCut}
  /\ charged \in [model : Nat, tool : Nat]
  /\ recorded \in [Kinds -> Seq(AnswerType)]
  /\ stamped \subseteq Nat
  /\ cp \in [model : Nat, tool : Nat, at : Nat]
  /\ again \in Seq(SeenType)
  /\ idx \in [Kinds -> Nat]
  /\ mode # "rerun" => \A k \in Kinds : idx[k] <= Len(recorded[k])
  /\ switched \in BOOLEAN /\ diverged \in BOOLEAN
  /\ raised \in {"", "exhausted", "index", "live"}

(* An audit sees the first run again: the same answer to each question, as   *)
(* far as the first run went, and the divergence error only at the question  *)
(* that ended it.  (ReplayEnvironment.)                                      *)
AuditFaithful ==
  mode = "audit" =>
    /\ FollowsUpTo(IF Len(again) < Len(trail) THEN Len(again) ELSE Len(trail))
    /\ raised = "exhausted" => Len(again) >= Len(trail) /\ cut # NoCut

(* Once a resumed run has gone live it never returns to the recording: the   *)
(* recorded results would belong to another course of events.                *)
(* (ResumableEnvironment._switched, common to both kinds.)                   *)
NoReturnToRecording ==
  \A i, j \in DOMAIN again :
    i < j /\ again[i].live /\ again[i].kind # "retrieve" /\ again[j].kind # "retrieve"
      => again[j].live

(* How many of the first n questions were of a kind.                         *)
Questioned(kind, n) == Cardinality({i \in 1..n : trail[i].kind = kind})

(* The checkpoint's indices count the answers recorded before it: no call    *)
(* was refused and no exception came after a charge.                         *)
Aligned ==
  /\ cp # NoCheckpoint
  /\ \A k \in {"model", "tool"} : cp[k] = Questioned(k, cp.at)

(* An aligned checkpoint splits the resumed run exactly: recorded answers up *)
(* to it, live ones after it.  (Session.checkpoint, ResumableEnvironment.)   *)
ResumeExactWhenAligned ==
  mode = "resume" /\ Aligned =>
    \A i \in DOMAIN again :
      again[i].kind # "retrieve" /\ FollowsUpTo(i - 1) => (again[i].live <=> i > cp.at)

(* A resumption runs out of the recording only when the first run ended in   *)
(* an exception after a charge, and the checkpoint is later.                 *)
ResumeInsideRecording == raised = "index" => cut # NoCut /\ cp.at = Len(trail)

HasRetrieval == \E i \in DOMAIN again : again[i].kind = "retrieve"

(* One of the recorded answers compared so far holds a token.                *)
TokenCompared ==
  \E k \in {"model", "tool"} :
    \E i \in DOMAIN recorded[k] : i <= idx[k] /\ HoldsToken(k, i)

(* A rerun reports a divergence once its course differs from the recorded    *)
(* one, retrievals apart, and makes one up only about arguments that a       *)
(* credential token was written into.  (RerunEnvironment.)                   *)
RerunExact ==
  mode = "rerun" =>
    /\ diverged => ~Follows \/ TokenCompared
    /\ ~Follows /\ ~HasRetrieval => diverged

-----------------------------------------------------------------------------
(* ResumableEnvironment: "Serves recorded responses up to a checkpoint, then *)
(* delegates to live env."  A call that ran before the checkpoint is not run *)
(* again.                                                                    *)
ResumeServesPrefix ==
  mode = "resume" =>
    \A i \in DOMAIN again :
      again[i].kind = "tool" /\ FollowsUpTo(i - 1) /\ i <= cp.at /\ trail[i].resp # Refused
        => ~again[i].live

(* RerunEnvironment: "Differences in call count, tool name, arguments, or    *)
(* result are captured as divergences."  A rerun that reports none made as   *)
(* many calls and queries as were recorded.                                  *)
RerunCountsCalls ==
  mode = "rerun" /\ phase = "done" /\ raised = "" /\ ~diverged =>
    \A k \in {"model", "tool"} : idx[k] = Len(recorded[k])
=============================================================================
