------------------------- MODULE MCPolicies --------------------------------
(***************************************************************************)
(* A few policy files, tools and queries for PolicyDecisions, and a file   *)
(* under reload.  The two share nothing: a behaviour exercises the one     *)
(* that focus names and leaves the other in an initial state.              *)
(***************************************************************************)
EXTENDS PolicyCombinators, HotReload, TLC

CONSTANTS pay, read, finance, intern, u1, w1, w2, p1, p2

VARIABLE focus

MCGenericKeys == "action.args.payee_eq" :> "payee"

MCToolAttributes ==
  (pay :> ("tool.side_effect" :> TRUE @@ "tool.external_egress" :> TRUE
           @@ "tool.requires_credentials" :> TRUE @@ "tool.risk_level" :> "critical"
           @@ "tool.capabilities" :> {"network"}))
  @@ (read :> ("tool.side_effect" :> FALSE @@ "tool.external_egress" :> FALSE
           @@ "tool.requires_credentials" :> FALSE @@ "tool.risk_level" :> None
           @@ "tool.capabilities" :> {}))

Rule(priority, when, effect) ==
  [name |-> "rule", priority |-> priority, when |-> when, effect |-> effect]

Blocks ==
  { "action.tool_name" :> pay,
    "tool.side_effect" :> TRUE,
    "not" :> ("tool.side_effect" :> TRUE),
    "any" :> <<"action.tool_name" :> read, "action.args.amount_gte" :> 10>>
      @@ "subject.role_in" :> {finance},
    "all" :> <<"subject.role_not_in" :> {intern}, "action.args.amount_gt" :> 5>>,
    "subject.role_count_gte" :> 1 @@ "subject.clearance_eq" :> "public"
      @@ "resource.classification_eq" :> "public",
    "resource.tags_contains" :> {"pii"},
    "tool.risk_level_eq" :> "critical" @@ "tool.capabilities_contains" :> {"network"},
    "context.session_risk_gt" :> 0,
    "action.args.amount_eq" :> NotANumber,
    "action.args.payee_eq" :> None,
    "action.nonsense" :> TRUE,
    "any" :> Malformed }

DefaultRule == Rule(0, EmptyDict, "ALLOW")

FileOf(raws) == [version |-> "1", name |-> "policy", rules |-> raws]

MCFiles ==
  { FileOf(<<DefaultRule, Rule(9, when, "DENY")>>) : when \in Blocks }
  \cup
  { FileOf(<<Rule(1, "tool.side_effect" :> TRUE, "mask"),
               Rule(n, "subject.role_in" :> {finance}, "partial_allow"),
               Rule(1, "action.args.amount_lte" :> 10, "degrade"),
               Rule(2, "action.args.amount_lt" :> 0, "deny")>>) : n \in 0 .. 2 }
  \cup
  { FileOf(<<Rule(3, "tool.side_effect" :> TRUE, "require_approval"), DefaultRule>>),
    FileOf(<<DefaultRule, [name |-> "rule", when |-> Malformed]>>),
    FileOf(<<DefaultRule, Rule(9, EmptyDict, "BOGUS")>>),
    FileOf(<<DefaultRule, Rule(Malformed, EmptyDict, "deny")>>),
    FileOf(<<Rule(Malformed, EmptyDict, "deny")>>),
    FileOf(<<Rule(1, Malformed, "deny"), DefaultRule>>),
    FileOf(<<DefaultRule, [name |-> "rule", effect |-> "mask", input_mask_fields |-> None]>>),
    FileOf(<<DefaultRule, [name |-> "rule", effect |-> "deny", allowed_fields |-> Malformed]>>),
    FileOf(<<DefaultRule, Malformed>>), FileOf(Malformed),
    [rules |-> <<DefaultRule>>], EmptyDict }

MCQueries ==
  [tool : {pay, read}, tenant : {"default"},
   roles : {{}, {finance}, {finance, intern}},
   args : {EmptyDict, "amount" :> 10 @@ "payee" :> "bob", "amount" :> NotANumber}]

MCCases ==
  [query : {[tool |-> pay, tenant |-> "default", roles |-> {finance},
             args |-> "amount" :> 10]},
   declares : {EmptyDict, MCToolAttributes[pay], MCToolAttributes[read]}]

MCMembers ==
  {<<>>, <<"yaml">>, <<"yaml", "risk">>, <<"default", "yaml">>, <<"whitelist", "yaml">>,
   <<"yaml", "default", "whitelist", "risk">>}

MCWhitelist == {read}
MCRiskDefaults == "critical" :> "require_approval" @@ "high" :> "require_approval"
                  @@ "medium" :> "allow" @@ "low" :> "allow"

MCUsers == {u1}
MCWatchers == {w1, w2}
MCPolicies == {p1, p2}

MCInit ==
  /\ PolicyInit /\ ReloadInit
  /\ \/ focus = "decisions" /\ content = "missing"
     \/ focus = "reload" /\ members = <<"yaml">>

(* A decision changes nothing that later ones see: after it only a file that *)
(* the loader refuses is tried.                                              *)
MCNext ==
  /\ UNCHANGED focus
  /\ \/ /\ focus = "decisions" /\ UNCHANGED reloadVars
        /\ IF decided = Undecided THEN PolicyNext ELSE LoadPolicy /\ UNCHANGED file
     \/ focus = "reload" /\ ReloadNext /\ UNCHANGED policyVars

MCSpec == MCInit /\ [][MCNext]_<<policyVars, reloadVars, focus>> /\ ReloadFair
=============================================================================
