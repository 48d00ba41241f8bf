------------------------ MODULE ContractEvaluation -------------------------
(***************************************************************************)
(* The contract harness: core/contract_evaluator.py, with the admission of *)
(* mechanism atoms and the known-bad fixtures built on it.                 *)
(*                                                                         *)
(* An output is a function on the sections it has.  Lists are sequences,   *)
(* so that their order can matter, and where it must not they compare as   *)
(* bags.  Malformed is null, for whatever is neither a list nor a mapping; *)
(* a string or a mapping in the place of a list is a list of what is no    *)
(* mapping, for that is how the code walks it.  The gate and the           *)
(* attestation are functions on their paths, of keys and of positions in   *)
(* lists of lists, each leading to a list of scalars or to null.           *)
(***************************************************************************)
EXTENDS Naturals, Sequences, FiniteSets, Optional

CONSTANTS
  Outputs,         \* outputs of a model, golden outputs and known-bad ones
  Malformed,       \* null
  Strings, Numbers \* scalars that sort among their own kind only

Sections == {"state_inventory", "evidence_bindings", "transition_record", "transition_gate",
             "retention_attestation"}

VARIABLES
  reference,  \* ContractHarness.reference
  evaluation  \* the one call of this harness, its outputs and its answer, or None

contractVars == <<reference, evaluation>>

-----------------------------------------------------------------------------
Section(output, name, default) == IF name \in DOMAIN output THEN output[name] ELSE default

Empty == [key \in {} |-> None]

IsList(x) == x \in Seq({x[i] : i \in DOMAIN x})

Bindings(output) == Section(output, "evidence_bindings", <<>>)

Inventory(output) == Section(output, "state_inventory", Empty)

Record(output) == Section(output, "transition_record", Empty)

(* What does not parse is no output, and JSON has no other lists than these. *)
ASSUME ContractAssumption ==
  /\ None \notin Outputs
  /\ \A output \in Outputs :
     /\ Bindings(output) = Malformed \/ IsList(Bindings(output))
     /\ Inventory(output) # Malformed =>
          \A name \in {"unknown_state", "forbidden_inferences"} :
            LET list == Section(Inventory(output), name, <<>>) IN
            list = Malformed \/ IsList(list)
     /\ \A section \in {"transition_gate", "retention_attestation"} :
          LET lists == Section(output, section, Empty) IN
          \A path \in DOMAIN lists : lists[path] = Malformed \/ IsList(lists[path])

Count(x, list) == Cardinality({i \in DOMAIN list : list[i] = x})

(* sorted(a) == sorted(b).                                                   *)
SameBag(a, b) ==
  Len(a) = Len(b) /\ \A i \in DOMAIN a : Count(a[i], a) = Count(a[i], b)

SchemaValid(output) == Sections \subseteq DOMAIN output

(* Mutant: zip without a look at the lengths.                                *)
EvidencePreservedSoFar(output) ==
  \A i \in DOMAIN Bindings(output) \cap DOMAIN Bindings(reference) :
    Bindings(output)[i] = Bindings(reference)[i]

(* Order matters, of the bindings and of the ids in each.                    *)
EvidencePreserved(output) ==
  /\ Len(Bindings(output)) = Len(Bindings(reference))
  /\ \A i \in DOMAIN Bindings(output) : Bindings(output)[i] = Bindings(reference)[i]

(* A pair of bindings one of which is no mapping, or whose slots agree and   *)
(* the ids of one cannot be listed.                                          *)
PairRaises(one, other) ==
  \/ Malformed \in {one, other}
  \/ one.slot = other.slot /\ Malformed \in {one.ids, other.ids}

(* Nothing to take the length of, or a pair that raises before one differs.  *)
EvidenceRaises(output) ==
  \/ Malformed \in {Bindings(output), Bindings(reference)}
  \/ /\ Len(Bindings(output)) = Len(Bindings(reference))
     /\ \E i \in DOMAIN Bindings(output) :
          /\ PairRaises(Bindings(output)[i], Bindings(reference)[i])
          /\ \A j \in 1..i-1 : Bindings(output)[j] = Bindings(reference)[j]

VocabularyLists == {"unknown_state", "forbidden_inferences"}

(* A list that is missing counts as empty.                                   *)
Vocabulary(output) ==
  [name \in VocabularyLists |-> Section(Inventory(output), name, <<>>)]

VocabularyPreserved(output) ==
  \A name \in VocabularyLists :
    LET ours == Vocabulary(output)[name]
        theirs == Vocabulary(reference)[name]
    IN  Malformed \notin {ours, theirs} /\ SameBag(ours, theirs)

(* sorted raises for two elements that are not of one kind.                  *)
Sorts(list) ==
  \/ Len(list) < 2
  \/ \E scalars \in {Strings, Numbers} : \A i \in DOMAIN list : list[i] \in scalars

VocabularyRaises(output) ==
  \/ Malformed \in {Inventory(output), Inventory(reference)}
  \/ \E name \in VocabularyLists :
       LET lists == {Vocabulary(output)[name], Vocabulary(reference)[name]} IN
       Malformed \notin lists /\ \E list \in lists : ~Sorts(list)

(* The event, the status and the ordered evidence stand for the six fields.  *)
TransitionFields == {"event_id", "to_status", "evidence_ids"}

TransitionAccurate(output) ==
  \A field \in TransitionFields :
    Section(Record(output), field, None) = Section(Record(reference), field, None)

TransitionRaises(output) == Malformed \in {Record(output), Record(reference)}

AreStrings(list) == list \notin {Malformed, <<>>} /\ \A i \in DOMAIN list : list[i] \in Strings

(* _norm: lists of strings alone compare as bags, anything else as it is.    *)
SameNormalized(a, b) ==
  /\ DOMAIN a = DOMAIN b
  /\ \A path \in DOMAIN a :
       IF AreStrings(a[path]) /\ AreStrings(b[path])
         THEN SameBag(a[path], b[path])
         ELSE a[path] = b[path]

GateAccurate(output) ==
  SameNormalized(Section(output, "transition_gate", Empty),
                 Section(reference, "transition_gate", Empty))

RetentionAccurate(output) ==
  SameNormalized(Section(output, "retention_attestation", Empty),
                 Section(reference, "retention_attestation", Empty))

Checks == {"schema", "evidence", "vocabulary", "transition", "gate", "retention"}

(* The six evaluators.                                                       *)
Metrics(output) ==
  [schema |-> SchemaValid(output), evidence |-> EvidencePreserved(output),
   vocabulary |-> VocabularyPreserved(output), transition |-> TransitionAccurate(output),
   gate |-> GateAccurate(output), retention |-> RetentionAccurate(output)]

(* The seventh: all the others.                                              *)
MutationSucceeds(metrics) == \A name \in DOMAIN metrics : metrics[name]

StrictPass(output) == MutationSucceeds(Metrics(output))

FailedChecks(output) == {name \in DOMAIN Metrics(output) : ~Metrics(output)[name]}

(* ContractHarness.evaluate: every evaluator runs, and what one raises       *)
(* leaves the harness.                                                       *)
Verdict(output) ==
  IF EvidenceRaises(output) \/ VocabularyRaises(output) \/ TransitionRaises(output) THEN "crash"
  ELSE IF StrictPass(output) THEN "pass" ELSE "fail"

-----------------------------------------------------------------------------
Evaluated(call, outputs, answer) ==
  /\ evaluation = None
  /\ evaluation' = [call |-> call, outputs |-> outputs, answer |-> answer]
  /\ UNCHANGED reference

(* evaluate_raw: what does not parse fails every check.                      *)
EvaluateRaw ==
  \E output \in Outputs \cup {None} :
    Evaluated("evaluate", <<output>>, IF output = None THEN "fail" ELSE Verdict(output))

(* MechanismAtom.admit, with one known-bad output.                           *)
Admission(golden, bad) ==
  CASE Verdict(golden) = "crash" -> "crash"
    [] Verdict(golden) = "fail" -> "rejected"
    [] Verdict(golden) = "pass" ->
         [crash |-> "crash", pass |-> "rejected", fail |-> "admitted"][Verdict(bad)]

AdmitAtom ==
  \E golden, bad \in Outputs : Evaluated("admit", <<golden, bad>>, Admission(golden, bad))

(* validate_known_bad raises for a fixture that passes, and else says        *)
(* whether it fails for the reason it names.                                 *)
Validated(output, reason) ==
  CASE Verdict(output) = "crash" -> "crash"
    [] Verdict(output) = "pass" -> "raises"
    [] Verdict(output) = "fail" ->
         IF reason \in FailedChecks(output) THEN "confirmed" ELSE "refuted"

ValidateKnownBad ==
  \E output \in Outputs, reason \in Checks :
    Evaluated("validate", <<output>>, Validated(output, reason))

(* A harness for another reference, which nobody validates.                  *)
NewHarness == reference' \in Outputs /\ evaluation' = None

ContractInit == reference \in Outputs /\ evaluation = None

ContractNext == EvaluateRaw \/ AdmitAtom \/ ValidateKnownBad \/ NewHarness

ContractSpec == ContractInit /\ [][ContractNext]_contractVars

-----------------------------------------------------------------------------
Bag(list) == [x \in {list[i] : i \in DOMAIN list} |-> Count(x, list)]

(* Evidence, inventory and record can be read through, and the two lists of  *)
(* the inventory are lists that sort.                                        *)
WellFormed(output) ==
  /\ Malformed \notin {Bindings(output), Inventory(output), Record(output)}
  /\ \A i \in DOMAIN Bindings(output) :
       Bindings(output)[i] # Malformed /\ Bindings(output)[i].ids # Malformed
  /\ \A name \in VocabularyLists :
       Vocabulary(output)[name] # Malformed /\ Sorts(Vocabulary(output)[name])

(* What of an output counts: lists of strings and the vocabulary as bags,    *)
(* all the rest in its order.                                                *)
Canonical(output) ==
  LET norm(lists) ==
        [path \in DOMAIN lists |-> IF AreStrings(lists[path]) THEN [bag |-> Bag(lists[path])]
                                    ELSE [list |-> lists[path]]]
  IN [evidence |-> Bindings(output),
      vocabulary |-> [name \in VocabularyLists |-> Bag(Vocabulary(output)[name])],
      transition |-> [field \in TransitionFields |-> Section(Record(output), field, None)],
      gate |-> norm(Section(output, "transition_gate", Empty)),
      retention |-> norm(Section(output, "retention_attestation", Empty))]

Agrees(output) ==
  /\ SchemaValid(output)
  /\ WellFormed(output) /\ WellFormed(reference)
  /\ Canonical(output) = Canonical(reference)

(* A strict pass means that output and reference agree in everything that    *)
(* counts, and in nothing else: a shuffled list of strings passes; shuffled  *)
(* evidence, a list cut short, a missing or a malformed part does not.  So   *)
(* the golden output of an admitted atom agrees with the reference and its   *)
(* known-bad one does not, and a fixture raises just when it agrees.  No     *)
(* verdict comes, for an evaluator raises out of the harness, only where the *)
(* reference or an output is not well formed; text that does not parse       *)
(* fails and never raises.  (evaluate, evaluate_raw, admit and               *)
(* validate_known_bad.)                                                      *)
VerdictsExact ==
  evaluation # None =>
    LET first == evaluation.outputs[1] IN
    /\ evaluation.answer = "crash" =>
         /\ first # None
         /\ \E o \in {evaluation.outputs[i] : i \in DOMAIN evaluation.outputs} \cup {reference} :
              ~WellFormed(o)
    /\ evaluation.answer # "crash" =>
         /\ evaluation.call = "evaluate" =>
              (evaluation.answer = "pass" <=> first # None /\ Agrees(first))
         /\ evaluation.call = "admit" =>
              (evaluation.answer = "admitted" <=> Agrees(first) /\ ~Agrees(evaluation.outputs[2]))
         /\ evaluation.call = "validate" =>
              (evaluation.answer = "raises" <=> Agrees(first))
=============================================================================
