----------------------------- MODULE MCAgents -----------------------------
(***************************************************************************)
(* Model checking of what an agent is made of and nothing else shares: its *)
(* strategy, the agents it delegates to, the selection of its tools, its   *)
(* retriever, the contracts its outputs are held to, the dataclasses they  *)
(* are parsed into, and the schemas of its tools: those of an MCP server,  *)
(* pinned, and those that arguments are checked against.  A behaviour      *)
(* exercises the part that focus names and leaves the others in their      *)
(* initial state.                                                          *)
(***************************************************************************)
EXTENDS Strategies, Delegation, ToolSelection, Retrieval, ContractEvaluation, StructuredOutput,
        SchemaPins, ToolSchemas, TLC

CONSTANTS s1, s2, one, two

VARIABLE focus

(* Delegation: the lead is strict; its wrappers have a context and a budget  *)
(* of their own, and bad's agent cannot be built.                            *)
Ctx(s, r) == [subject |-> s, roles |-> r]

Agent(ctx, isStrict, isLenient, ts, only) ==
  [context |-> ctx, strict |-> isStrict, lenient |-> isLenient, tools |-> ts, filter |-> only]

MCAgentTable ==
  "lead" :> Agent(Ctx("ann", {"a", "b"}), TRUE, FALSE, {"ask", "bad"}, None)
  @@ "open" :> Agent(None, FALSE, TRUE, {"ask", "bad"}, None)
  @@ "aide" :> Agent(Ctx("bob", {"b", "c"}), FALSE, FALSE, {"peer", "free"}, {"free"})

Limits(tk, tc) == [tokens |-> tk, toolCalls |-> tc]

Wrapper(agent, ctx, limits, isStrict, ts) ==
  [agent |-> agent, context |-> ctx, budget |-> limits, strict |-> isStrict,
   delegated |-> ts]

MCWrappers ==
  "ask" :> Wrapper("aide", Ctx("ann", {"a", "b"}), Limits(1, 1), TRUE, {"peer", "free"})
  @@ "peer" :> Wrapper("aide", Ctx("anonymous", {}), Limits(0, 0), FALSE, None)
  @@ "free" :> Wrapper("open", None, None, FALSE, {"bad"})
  @@ "bad" :> Wrapper("open", Ctx("ann", {"a"}), None, TRUE, None)

MCRootBudget == Limits(1, 1)

(* ToolSelection: tools of one name from different sources.                  *)
T(n, i) == [name |-> n, id |-> i]

MCEntries ==
  {[tool |-> T("sort", 1), intents |-> {"order"}, priority |-> 0],
   [tool |-> T("sort", 2), intents |-> {"order", "path"}, priority |-> 1],
   [tool |-> T("plan", 3), intents |-> {"path"}, priority |-> 1]}
MCTasks == {{"order"}, {"order", "path"}, {}}
MCExplicit == {<<>>, <<T("plan", 4)>>}
MCDiscovered == {<<T("plan", 5), T("sort", 6)>>}
MCFilters == {None, {"sort"}}

(* Retrieval: an internal, a tenant's and a public document.                 *)
MCSessions == {s1, s2}
Meta(c, t, r) == [clearance |-> c, tenant |-> t, roles |-> r]
Doc(words, score, refined, coverage, meta) ==
  [content |-> words, score |-> score, refined |-> refined, coverage |-> coverage,
   meta |-> meta]
Public == Doc(one, 10, 10, 10, Meta("public", None, {}))
MCDocuments == {Doc(one, 30, 10, 30, Meta("internal", None, {})),
                Doc(two, 10, 40, 60, Meta("public", "acme", {"staff"})), Public}
MCWebResults == {<<>>, <<Public, Public, Doc(two, 10, 40, 60, Meta("public", "acme", {"staff"}))>>}
MCSubjects == [s \in MCSessions |-> [clearance |-> "public", tenant |-> "acme", roles |-> {"staff"}]]

(* Contracts: one output and what may be wrong with another.                 *)
MCStrings == {one, two}
Binding(s, ids) == [slot |-> s, ids |-> ids]
Good == [state_inventory |-> [unknown_state |-> <<one, two>>, forbidden_inferences |-> <<1, 2>>],
  evidence_bindings |-> <<Binding("a", <<1, 2>>), Binding("b", <<>>)>>,
  transition_record |-> [event_id |-> 1, to_status |-> 2],
  transition_gate |-> [allowed |-> <<one, two>>, steps |-> <<1, 2>>],
  retention_attestation |-> [kept |-> <<one>>]]
Cut(s) == [k \in DOMAIN Good \ {s} |-> Good[k]]
MCOutputs == {Good, Cut("state_inventory"), Cut("transition_gate")}
  \cup {[Good EXCEPT ![s] = Malformed] :
          s \in {"state_inventory", "evidence_bindings", "transition_record"}}
  \cup {[Good EXCEPT ![s] = "" :> Malformed] : s \in {"transition_gate", "retention_attestation"}}
  \cup {[Good EXCEPT !.state_inventory.unknown_state = list] :
          list \in {<<two, one>>, <<two, two>>, Malformed, <<one, 1>>, <<None, None>>}}
  \cup {[Good EXCEPT !.evidence_bindings = list] :
          list \in {<<Binding("a", <<1, 2>>)>>, <<Binding("a", <<2, 1>>), Binding("b", <<>>)>>,
                    <<Malformed, Malformed>>, <<Malformed>>, <<Binding("b", <<>>), Malformed>>,
                    <<Binding("a", Malformed), Binding("b", <<>>)>>}}
  \cup {[Good EXCEPT !.transition_record.to_status = 3],
        [Good EXCEPT !.transition_gate.allowed = <<two, one>>],
        [Good EXCEPT !.transition_gate.steps = <<2, 1>>],
        [Good EXCEPT !.transition_gate = [allowed |-> <<one>>, denied |-> <<>>]],
        [Good EXCEPT !.retention_attestation = [kept |-> <<>>]]}

(* Structured output: objects of two fields, one of them written nested, a   *)
(* list of objects and a scalar; dataclasses of every type of field.         *)
Scalar(k) == [json |-> k]
Object(fields) == [json |-> "object", fields |-> fields]
List(items) == [json |-> "list", items |-> items]

MCScalars == {Scalar(k) : k \in {"null", "bool", "int", "huge", "float", "infinite"} \cup JsonTexts}
MCFields ==
  MCScalars \cup {List(<<Scalar("text")>>), List(<<Object("note" :> Scalar("text"))>>),
                  Object("note" :> Scalar("text"))}
MCAnswers ==
  [place : {"alone", "fence", "prose"},
   value : {Object("total" :> field @@ "note" :> Scalar("text")) : field \in MCFields}
             \cup {Object("total" :> List(<<Scalar("int")>>) @@ "note" :> Object("x" :> Scalar("int"))),
                   Object("total" :> Scalar("int")), Scalar("int"),
                   List(<<Object("total" :> Scalar("int")), Scalar("int")>>), List(<<>>)}]

Field(t, need) == [type |-> t, required |-> need]
MCTypes == {"any", "int", "float", "str", "bool", "list", "optional int", "list of str"}
MCOutputTypes ==
  {"total" :> Field(t, TRUE) : t \in MCTypes}
  \cup {"total" :> Field("int", TRUE) @@ "note" :> Field("str", need) : need \in BOOLEAN}

(* Pins: a server that adds, drops, doubles and changes its tools.           *)
Listed(n, s, c) == [name |-> n, schema |-> s, capabilities |-> c]
MCListings == {<<>>, <<Listed("read", "plain", {"fs:read"})>>,
               <<Listed("read", "strict", {"fs:read", "shell"})>>,
               <<Listed("read", None, {}), Listed("find", EmptyDict, {"other"})>>,
               <<Listed("read", "strict", {}), Listed("read", "plain", {"shell"})>>}
MCRiskMap == "fs:read" :> {"low"} @@ "shell" :> {"high"} @@ "other" :> {}

(* Schemas: objects of up to two fields, one of them an object or a list of  *)
(* types, that of PathPlanner, and arguments that fit them, or nearly do.    *)
Within(root, parts) ==
  [path \in {<<>>} \cup UNION {{<<f>> \o p : p \in DOMAIN parts[f]} : f \in DOMAIN parts} |->
     IF path = <<>> THEN root ELSE parts[path[1]][Tail(path)]]
Narrowed(t, values, need, more, rejected) ==
  [type |-> t, enum |-> values, required |-> need, additional |-> more, further |-> rejected]
Part(t, values, need, more) == Narrowed(t, values, need, more, {})
Alone(root) == <<>> :> root
Leaf(t, values) == Alone(Part(t, values, {}, TRUE))
MCLeaves == {Leaf(t, None) : t \in {"string", "integer", "number", "boolean", "array", "null",
                                    "object", "unknown", None, Union}}
              \cup {Leaf("string", {"text"}), Leaf(None, {"int", "null"}),
                    Leaf("integer", {"bool"}), Leaf("number", {"integral", "float"})}
MCPathPlanner ==
  Within(Part("object", None, {"start", "goal", "edges"}, TRUE),
         "start" :> Leaf("string", None) @@ "goal" :> Leaf("string", None)
           @@ "edges" :> Alone(Narrowed("array", None, {}, TRUE, {"other list"})))
MCNested == {Within(Part("object", None, need, more), "x" :> leaf) :
               leaf \in MCLeaves, need \in {{}, {"x"}, {"z"}}, more \in BOOLEAN}
MCToolInputs ==
  MCNested \cup {MCPathPlanner}
    \cup {Within(Part("object", None, {}, TRUE), "x" :> Alone(Narrowed(t, None, {}, TRUE, kinds))) :
            t \in {"string", "integer", None}, kinds \in {{"other text"}, {"int", "null"}}}
    \cup {Within(Part("object", None, {"y"}, FALSE), "x" :> part @@ "y" :> Leaf("string", None)) :
            part \in MCNested}
    \cup {Within(Part(t, None, {"x"}, FALSE), "x" :> Leaf("integer", None)) : t \in {None, "array"}}
MCLeafValues == {Alone(k) : k \in {"text", "other text", "int", "bool", "float", "integral", "null",
                                    "list", "other list", "object"}}
MCFlat == {Within("object", "x" :> v) : v \in MCLeafValues}
MCArguments ==
  MCFlat \cup {Alone("list"), Alone("object")}
    \cup {Within("object", "x" :> v @@ "y" :> Alone("text")) : v \in MCFlat \cup {Alone("object")}}
    \cup {Within("object", "x" :> v @@ "z" :> Alone("int")) : v \in MCLeafValues}
    \cup {Within("object", "start" :> Alone("text") @@ "goal" :> Alone("text") @@ "edges" :> v) :
            v \in MCLeafValues}

-----------------------------------------------------------------------------
MCInit ==
  /\ StrategyInit /\ DelegationInit /\ SelectionInit /\ RetrievalInit /\ ContractInit
  /\ StructuredInit /\ PinsInit /\ ValidatorInit
  /\ focus \in {"strategy", "delegation", "selection", "retrieval", "contracts", "structured",
                "pins", "schemas"}
  /\ focus # "strategy" => inner = "react" /\ ~reflexion
  /\ focus # "delegation" => Top.agent = "lead"
  /\ focus # "retrieval" => kind = "memory"
  /\ focus # "contracts" => reference = Good
  /\ focus # "pins" => offered = <<>>

MCNext ==
  /\ UNCHANGED focus
  /\ \/ /\ focus = "strategy" /\ StrategyNext
        /\ UNCHANGED <<delegationVars, selectionVars, retrievalVars, contractVars,
                       structuredVars, schemaVars, validatorVars>>
     \/ /\ focus = "delegation" /\ DelegationNext
        /\ UNCHANGED <<strategyVars, selectionVars, retrievalVars, contractVars,
                       structuredVars, schemaVars, validatorVars>>
     \/ /\ focus = "selection" /\ SelectionNext
        /\ UNCHANGED <<strategyVars, delegationVars, retrievalVars, contractVars,
                       structuredVars, schemaVars, validatorVars>>
     \/ /\ focus = "retrieval" /\ RetrievalNext
        /\ UNCHANGED <<strategyVars, delegationVars, selectionVars, contractVars,
                       structuredVars, schemaVars, validatorVars>>
     \/ /\ focus = "contracts" /\ ContractNext
        /\ UNCHANGED <<strategyVars, delegationVars, selectionVars, retrievalVars,
                       structuredVars, schemaVars, validatorVars>>
     \/ /\ focus = "structured" /\ StructuredNext
        /\ UNCHANGED <<strategyVars, delegationVars, selectionVars, retrievalVars,
                       contractVars, schemaVars, validatorVars>>
     \/ /\ focus = "pins" /\ PinsNext
        /\ UNCHANGED <<strategyVars, delegationVars, selectionVars, retrievalVars,
                       contractVars, structuredVars, validatorVars>>
     \/ /\ focus = "schemas" /\ ValidatorNext
        /\ UNCHANGED <<strategyVars, delegationVars, selectionVars, retrievalVars,
                       contractVars, structuredVars, schemaVars>>

MCSpec ==
  MCInit /\ [][MCNext]_<<strategyVars, delegationVars, selectionVars, retrievalVars,
                        contractVars, structuredVars, schemaVars, validatorVars, focus>>
=============================================================================
