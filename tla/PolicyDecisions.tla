-------------------------- MODULE PolicyDecisions --------------------------
(***************************************************************************)
(* The policy an environment consults: a YamlPolicy (policies/engine.py)   *)
(* that its owner loads, validates (policies/validator.py), tests          *)
(* (policies/test_runner.py) and tells of the tools, alone or composed     *)
(* with the others of permissions/, and the gate that asks it              *)
(* (core/permission_gate.py).                                              *)
(***************************************************************************)
EXTENDS PolicyConditions, FiniteSetsExt, Arrangement

CONSTANTS
  Applies(_, _, _), \* whether a when block applies to a request and a tool's metadata
  Files,          \* contents of policy files
  ToolAttributes, \* function from tools to their metadata
  Queries,        \* what the gate is asked: who calls, which tool, which args
  Cases,          \* test cases: a query and the metadata the case declares
  Members,        \* sequences of policies to compose
  Whitelist,      \* DenyByDefaultPolicy.allowed_tools
  RiskDefaults,   \* RiskClassificationPolicy.defaults
  Stores          \* whether there is an approval store

Raws(contents) == Get(contents, "rules", <<>>)

(* Rules are a list where they are not malformed, and priorities are numbers.*)
ASSUME PolicyAssumption ==
  \A contents \in Files :
    LET raws == Raws(contents) IN
    raws # Malformed =>
      /\ raws \in Seq({raws[i] : i \in DOMAIN raws})
      /\ \A i \in DOMAIN raws :
           raws[i] = Malformed \/ Get(raws[i], "priority", 0) \in Int \union {Malformed}

VARIABLES
  file,       \* the file the policy was loaded from
  refused,    \* the file from_string has just raised on, or EmptyDict
  rules,      \* _rules
  metadata,   \* _tool_metadata
  members,    \* the composite's policies, <<"yaml">> for the policy alone
  decided     \* the last decision, of the gate or of a test case, and its query, or
              \* Undecided

policyVars == <<file, refused, rules, metadata, members, decided>>

-----------------------------------------------------------------------------
(* _EFFECT_PRECEDENCE, the most restrictive first.                           *)
Precedence == <<"deny", "require_approval", "partial_allow", "degrade", "mask", "allow">>
Effects == {Precedence[i] : i \in DOMAIN Precedence}
Restrictiveness(effect) == CHOOSE i \in DOMAIN Precedence : Precedence[i] = effect

Decision(effect) == [effect |-> effect, allowed |-> None, mask |-> {}]

(* Mutant: the file's spelling of the effect is taken as it is.              *)
EffectAsWritten(raw) == Get(raw, "effect", "ALLOW")

(* DecisionEffect(effect_value.lower()); a file spells an effect its own way.*)
Lower(text) ==
  CASE text = "ALLOW" -> "allow" [] text = "DENY" -> "deny" [] OTHER -> text
EffectOf(raw) == Lower(Get(raw, "effect", "ALLOW"))

(* _parse_rule.  A when that is no mapping counts as empty, one that matches *)
(* everything.                                                               *)
ParseRule(raw) ==
  [priority |-> Get(raw, "priority", 0),
   when     |-> IF Get(raw, "when", None) \in {None, Malformed} THEN EmptyDict ELSE raw.when,
   effect   |-> EffectOf(raw),
   allowed  |-> Get(raw, "allowed_fields", None),
   mask     |-> Get(raw, "input_mask_fields", {})]

(* A rule's lists become tuples: a number or, but for allowed_fields, a null *)
(* does not convert.                                                         *)
ListsConvert(raw) ==
  /\ Get(raw, "allowed_fields", None) # Malformed
  /\ \A f \in {"input_mask_fields", "output_mask_fields", "event_mask_fields"} :
       Get(raw, f, {}) \notin {None, Malformed}

(* from_string raises on rules that are no list of mappings, on an effect it *)
(* does not know, on a list that does not convert and on priorities that do  *)
(* not compare.                                                              *)
Loads(raws) ==
  /\ raws # Malformed
  /\ \A i \in DOMAIN raws : raws[i] # Malformed /\ ListsConvert(raws[i])
  /\ \A i \in DOMAIN raws : EffectOf(raws[i]) \in Effects
  /\ Len(raws) > 1 => \A i \in DOMAIN raws : Get(raws[i], "priority", 0) # Malformed

(* Mutant: the rules stay in the file's order.                               *)
InFileOrder(parsed) == parsed

(* sorted(rules, key=priority, reverse=True).                                *)
ByPriority(parsed) == HighestFirst(parsed)

Parsed(contents) == [i \in DOMAIN Raws(contents) |-> ParseRule(Raws(contents)[i])]

(* validate_policy finds no error.                                           *)
RuleValid(raw) ==
  /\ raw # Malformed
  /\ "name" \in DOMAIN raw
  /\ "effect" \in DOMAIN raw /\ Lower(raw.effect) \in Effects
  /\ Get(raw, "priority", 0) # Malformed

Valid(contents) ==
  /\ {"version", "name", "rules"} \subseteq DOMAIN contents
  /\ contents.version # Malformed
  /\ contents.rules # Malformed
  /\ \A i \in DOMAIN contents.rules : RuleValid(contents.rules[i])

MetaOf(tool) == Get(metadata, tool, EmptyDict)

(* YamlPolicy.evaluate: the first rule that matches.                         *)
YamlEvaluate(q, meta) ==
  LET matching == {i \in DOMAIN rules : Applies(rules[i].when, q, meta)}
      winner == rules[Min(matching)]
  IN  IF matching = {} THEN Decision("allow")
      ELSE [effect |-> winner.effect, allowed |-> winner.allowed, mask |-> winner.mask]

-----------------------------------------------------------------------------
DefaultAllow == Decision("allow")

DenyByDefault(q) == Decision(IF q.tool \in Whitelist THEN "allow" ELSE "deny")

(* RiskClassificationPolicy.evaluate reads the risk off the resource.        *)
RiskClassification(q) ==
  Decision(IF q.riskLevel = None THEN "allow" ELSE Get(RiskDefaults, q.riskLevel, "allow"))

MemberEvaluate(member, q) ==
  CASE member = "yaml" -> YamlEvaluate(q, MetaOf(q.tool))
    [] member = "default" -> DefaultAllow
    [] member = "whitelist" -> DenyByDefault(q)
    [] member = "risk" -> RiskClassification(q)

MostRestrictive(effects) == Precedence[Min({Restrictiveness(e) : e \in effects})]

(* CompositePolicy.evaluate: the effect alone; what the member's decision    *)
(* says besides, its allowed fields and masks, is dropped.                   *)
Compose(q) ==
  IF members = <<>> THEN Decision("allow")
  ELSE Decision(MostRestrictive({MemberEvaluate(members[i], q).effect : i \in DOMAIN members}))

Evaluate(q) == IF members = <<"yaml">> THEN MemberEvaluate("yaml", q) ELSE Compose(q)

(* PermissionGate.evaluate's tuple: without an execution context an          *)
(* anonymous subject, and always a public resource and a context without     *)
(* risks.                                                                    *)
Asked(query) ==
  [tool |-> query.tool, args |-> query.args, roles |-> query.roles,
   clearance |-> "public", tenant |-> query.tenant, classification |-> "public", tags |-> {},
   riskLevel |-> None, sessionRisk |-> 0, promptRisk |-> 0]

(* REQUIRE_APPROVAL without a store is a DENY.                               *)
Resolve(decision, hasStore) ==
  IF decision.effect = "require_approval" /\ ~hasStore
    THEN [decision EXCEPT !.effect = "deny"] ELSE decision

-----------------------------------------------------------------------------
Undecided == [query |-> None]

(* The owner loads a file: a new YamlPolicy, which knows no tool.            *)
LoadPolicy ==
  \E contents \in Files :
    IF Loads(Raws(contents))
      THEN /\ file' = contents
           /\ rules' = ByPriority(Parsed(contents))
           /\ metadata' = EmptyDict
           /\ decided' = Undecided
           /\ refused' = EmptyDict
           /\ UNCHANGED members
      ELSE /\ refused' = contents
           /\ decided' = Undecided
           /\ UNCHANGED <<file, rules, metadata, members>>

Registered(tool, attributes) == [t \in DOMAIN metadata \cup {tool} |->
                                   IF t = tool THEN attributes ELSE metadata[t]]

(* register_tools.                                                           *)
RegisterTool ==
  /\ \E tool \in DOMAIN ToolAttributes : metadata' = Registered(tool, ToolAttributes[tool])
  /\ decided' = Undecided /\ refused' = EmptyDict
  /\ UNCHANGED <<file, rules, members>>

(* PermissionGate.evaluate.                                                  *)
Decide ==
  /\ \E query \in Queries, hasStore \in Stores :
       LET evaluated == Evaluate(Asked(query)) IN
       decided' = [query |-> query, evaluated |-> evaluated,
                   decision |-> Resolve(evaluated, hasStore)]
  /\ refused' = EmptyDict
  /\ UNCHANGED <<file, rules, metadata, members>>

(* run_test_case, on the policy itself.  The metadata a case declares stay   *)
(* for the cases that follow; one that declares none finds what is there.    *)
RunTestCase ==
  /\ members = <<"yaml">>
  /\ \E case \in Cases :
       LET evaluated == YamlEvaluate(Asked(case.query), Get(metadata', case.query.tool, EmptyDict)) IN
       /\ metadata' = IF case.declares = EmptyDict \/ case.query.tool = None THEN metadata
                      ELSE Registered(case.query.tool, case.declares)
       /\ decided' = [query |-> case.query, evaluated |-> evaluated, decision |-> evaluated]
  /\ refused' = EmptyDict
  /\ UNCHANGED <<file, rules, members>>

PolicyInit ==
  /\ file = [rules |-> <<>>] /\ rules = <<>> /\ metadata = EmptyDict
  /\ refused = EmptyDict /\ members \in Members /\ decided = Undecided

PolicyNext == LoadPolicy \/ RegisterTool \/ Decide \/ RunTestCase

PolicySpec == PolicyInit /\ [][PolicyNext]_policyVars

-----------------------------------------------------------------------------
(* Among the rules of the file that match, the highest priority decides and  *)
(* of equals the one that comes first.  (YamlPolicy.__init__ and evaluate.)  *)
PriorityDecides ==
  decided # Undecided /\ members = <<"yaml">> =>
    LET parsed == Parsed(file)
        q == Asked(decided.query)
        applies(i) == Applies(parsed[i].when, q, MetaOf(q.tool))
        beaten(i) == \E j \in DOMAIN parsed \ {i} :
                       /\ applies(j)
                       /\ \/ parsed[j].priority > parsed[i].priority
                          \/ parsed[j].priority = parsed[i].priority /\ j < i
    IN  \A i \in DOMAIN parsed :
          applies(i) /\ ~beaten(i) =>
            /\ decided.evaluated.effect = parsed[i].effect
            /\ decided.evaluated.allowed = parsed[i].allowed
            /\ decided.evaluated.mask = parsed[i].mask

(* A file the validator has nothing to say against fails to load only over a *)
(* list field, which the validator does not look at.  (validate_policy and   *)
(* from_string, which share no code.)                                        *)
ValidFilesLoad ==
  Valid(refused) => \E i \in DOMAIN refused.rules : ~ListsConvert(refused.rules[i])
=============================================================================
