----------------------------- MODULE Retrieval ------------------------------
(***************************************************************************)
(* RuntimeEnvironment.retrieve over a retriever that the sessions of an    *)
(* agent share: a MemoryRetriever, alone or inside a CRAGRetriever or an   *)
(* AdaptiveRetriever, that documents are still being added to.  The        *)
(* environment writes the session's event emitter into the shared object   *)
(* before it asks.                                                         *)
(*                                                                         *)
(* There is one question.  A document has its scores for the question and  *)
(* for the question refined, in percent, and the share of the question it  *)
(* covers.                                                                 *)
(***************************************************************************)
EXTENDS Naturals, Sequences, SequencesExt, FiniteSets, Optional

CONSTANTS
  Sessions,
  Subjects,      \* session -> [clearance, tenant, roles]
  Documents,     \* [content, score, refined, coverage, meta]
  WebResults,    \* sequences of documents a web search returns
  TopKs,         \* top_k of a call
  DocumentBound, CallBound  \* bounds: documents, calls of a session

VARIABLES
  kind,      \* of the retriever: "memory", "crag", "adaptive"
  documents, \* MemoryRetriever._documents
  emitter,   \* the retriever's events: a session, or None
  retrievePc,\* session -> where its call stands
  topK,      \* session -> top_k of its call
  base,      \* session -> what the first retrieval returned
  verdict,   \* session -> assessment or classification
  snippets,  \* session -> what the call returns
  logs,      \* session -> its events: the session they are of
  met,       \* observed: pairs of sessions whose calls overlapped
  calls      \* session -> calls made

retrievalVars == <<kind, documents, emitter, retrievePc, topK, base, verdict, snippets,
                   logs, met, calls>>

Clearances == [public |-> 0, internal |-> 1, secret |-> 3]

-----------------------------------------------------------------------------
(* MemoryRetriever.add.                                                      *)
AddDocument ==
  /\ Len(documents) < DocumentBound
  /\ \E document \in Documents : documents' = Append(documents, document)
  /\ UNCHANGED <<kind, emitter, retrievePc, topK, base, verdict, snippets, logs, met,
                 calls>>

(* MemoryRetriever.retrieve: the k highest scores, first come first of       *)
(* equals; documents that share no word with the question are among them.    *)
Best(score, k) ==
  LET before(i, j) == \/ documents[i][score] > documents[j][score]
                      \/ documents[i][score] = documents[j][score] /\ i < j
      place(i) == Cardinality({j \in DOMAIN documents : before(j, i)}) + 1
      count == IF k < Len(documents) THEN k ELSE Len(documents)
  IN  [n \in 1 .. count |-> documents[CHOOSE i \in DOMAIN documents : place(i) = n]]

(* _default_evaluator.                                                       *)
Assess(found) ==
  LET covers(percent) == \E i \in DOMAIN found : found[i].coverage >= percent IN
  IF covers(50) THEN "relevant" ELSE IF covers(20) THEN "ambiguous" ELSE "irrelevant"

(* The first occurrence of every content.                                    *)
Distinct(list) ==
  FoldLeft(LAMBDA kept, d : IF \E i \in DOMAIN kept : kept[i].content = d.content
                              THEN kept ELSE Append(kept, d), <<>>, list)

(* _merge and the end of _iterative_retrieval: the length is compared after  *)
(* a snippet has been added.                                                 *)
Merge(first, second, k) ==
  LET all == Distinct(first \o second)
      room == IF k = 0 THEN 1 ELSE k
  IN  SubSeq(all, 1, IF Len(all) < room THEN Len(all) ELSE room)

(* ClearanceRetrievalPolicy._allowed.                                        *)
Allowed(document, subject) ==
  LET meta == document.meta IN
  /\ Clearances[meta.clearance] <= Clearances[subject.clearance]
  /\ meta.tenant \in {None, subject.tenant}
  /\ meta.roles = {} \/ meta.roles \cap subject.roles # {}

-----------------------------------------------------------------------------
At(s, pc) == retrievePc' = [retrievePc EXCEPT ![s] = pc]

(* An event of the call of s, in the log of whoever is the emitter now.      *)
EmitShared(s) ==
  logs' = IF emitter = None THEN logs ELSE [logs EXCEPT ![emitter] = Append(@, s)]

(* Mutant: an emitter that is there stays.                                   *)
InjectOnce(s) == IF emitter = None THEN s ELSE emitter

(* object.__setattr__(retriever, "events", self.events).                     *)
Inject(s) == s

(* _fetch_snippets, up to the retriever's own code.                          *)
BeginRetrieve(s) ==
  /\ retrievePc[s] = "idle" /\ calls[s] < CallBound
  /\ \E k \in TopKs : topK' = [topK EXCEPT ![s] = k]
  /\ emitter' = IF kind = "memory" THEN emitter ELSE Inject(s)
  /\ At(s, IF kind = "adaptive" THEN "classify" ELSE "base")
  /\ calls' = [calls EXCEPT ![s] = @ + 1]
  /\ met' = met \cup {{s, t} : t \in {u \in Sessions \ {s} : retrievePc[u] # "idle"}}
  /\ UNCHANGED <<kind, documents, base, verdict, snippets, logs>>

(* AdaptiveRetriever.retrieve classifies; "none" retrieves nothing.          *)
Classify(s) ==
  /\ retrievePc[s] = "classify"
  /\ \E class \in {"no_retrieval", "single_step", "multi_step"} :
       /\ verdict' = [verdict EXCEPT ![s] = class]
       /\ At(s, IF class = "no_retrieval" THEN "route" ELSE "base")
  /\ EmitShared(s)
  /\ base' = [base EXCEPT ![s] = <<>>]
  /\ snippets' = [snippets EXCEPT ![s] = <<>>]
  /\ UNCHANGED <<kind, documents, emitter, topK, met, calls>>

(* The base retrieval.                                                       *)
RetrieveBase(s) ==
  /\ retrievePc[s] = "base"
  /\ LET found == Best("score", topK[s]) IN
     /\ base' = [base EXCEPT ![s] = found]
     /\ snippets' = [snippets EXCEPT ![s] = found]
     /\ At(s, CASE kind = "memory" -> "finalize"
                [] kind = "crag" -> "evaluate"
                [] kind = "adaptive" -> IF verdict[s] = "multi_step" /\ found # <<>>
                                          THEN "again" ELSE "route")
  /\ UNCHANGED <<kind, documents, emitter, topK, verdict, logs, met, calls>>

(* CRAGRetriever.retrieve evaluates.                                         *)
Evaluate(s) ==
  /\ retrievePc[s] = "evaluate"
  /\ verdict' = [verdict EXCEPT ![s] = Assess(base[s])]
  /\ EmitShared(s)
  /\ At(s, IF verdict'[s] = "relevant" THEN "route" ELSE "search")
  /\ UNCHANGED <<kind, documents, emitter, topK, base, snippets, met, calls>>

Merging(s, second) ==
  snippets' = [snippets EXCEPT ![s] = Merge(base[s], second, topK[s])]

(* The web search: combined with an ambiguous base, in the place of an       *)
(* irrelevant one, and then of any length.                                   *)
SearchWeb(s) ==
  /\ retrievePc[s] = "search"
  /\ \E web \in WebResults :
       IF verdict[s] = "ambiguous" THEN Merging(s, web)
       ELSE snippets' = [snippets EXCEPT ![s] = web]
  /\ At(s, "route")
  /\ UNCHANGED <<kind, documents, emitter, topK, base, verdict, logs, met, calls>>

(* _iterative_retrieval's second round.                                      *)
RetrieveAgain(s) ==
  /\ retrievePc[s] = "again"
  /\ Merging(s, Best("refined", topK[s]))
  /\ At(s, "route")
  /\ UNCHANGED <<kind, documents, emitter, topK, base, verdict, logs, met, calls>>

(* crag.route, adaptive.route.                                               *)
EmitRoute(s) ==
  /\ retrievePc[s] = "route"
  /\ EmitShared(s)
  /\ At(s, "finalize")
  /\ UNCHANGED <<kind, documents, emitter, topK, base, verdict, snippets, met, calls>>

(* _apply_retrieval_policy and _finalize_retrieval.                          *)
FinalizeRetrieval(s) ==
  /\ retrievePc[s] = "finalize"
  /\ snippets' = [snippets EXCEPT ![s] = SelectSeq(@, LAMBDA d : Allowed(d, Subjects[s]))]
  /\ logs' = [logs EXCEPT ![s] = Append(@, s)]
  /\ At(s, "idle")
  /\ UNCHANGED <<kind, documents, emitter, topK, base, verdict, met, calls>>

RetrievalInit ==
  /\ kind \in {"memory", "crag", "adaptive"}
  /\ documents = <<>> /\ emitter = None
  /\ retrievePc = [s \in Sessions |-> "idle"] /\ topK = [s \in Sessions |-> 0]
  /\ base = [s \in Sessions |-> <<>>] /\ verdict = [s \in Sessions |-> None]
  /\ snippets = [s \in Sessions |-> <<>>]
  /\ logs = [s \in Sessions |-> <<>>] /\ met = {} /\ calls = [s \in Sessions |-> 0]

RetrievalNext ==
  \/ AddDocument
  \/ \E s \in Sessions :
       \/ BeginRetrieve(s) \/ Classify(s) \/ RetrieveBase(s) \/ Evaluate(s) \/ SearchWeb(s)
       \/ RetrieveAgain(s) \/ EmitRoute(s) \/ FinalizeRetrieval(s)

RetrievalSpec == RetrievalInit /\ [][RetrievalNext]_retrievalVars

-----------------------------------------------------------------------------
(* An event of one session's retrieval is in another session's log only if   *)
(* calls of the two overlapped.  (_fetch_snippets writes the emitter into    *)
(* the shared retriever before every call.)                                  *)
ForeignOnlyByOverlap ==
  \A s, t \in Sessions : s # t /\ t \in ToSet(logs[s]) => {s, t} \in met

=============================================================================
