-------------------------- MODULE PolicyConditions --------------------------
(***************************************************************************)
(* policies/conditions.py: the matchers of a policy rule's when block.     *)
(*                                                                         *)
(* A when block is a function from its keys to their values.  A request q  *)
(* is what the policy is asked about: the subject's roles, clearance and   *)
(* tenant, the action's tool and args, the resource's classification and   *)
(* tags, the context's risks.  meta is the metadata of the tool.           *)
(***************************************************************************)
EXTENDS Integers, FiniteSets, Sequences, Optional

CONSTANTS
  NotANumber, \* a text that float does not read
  Malformed,  \* a value of a type the key does not take
  GenericKeys \* function from keys action.args.<field>_eq to their fields

ASSUME ConditionAssumption == None # NotANumber /\ None # Malformed

Get(f, key, default) == IF key \in DOMAIN f THEN f[key] ELSE default

EmptyDict == [key \in {} |-> None]

Numeric(v) == v \notin {None, NotANumber, Malformed}

-----------------------------------------------------------------------------
ToolNameMatches(v, q) == q.tool = v

RoleIn(v, q) == v \cap q.roles # {}
RoleNotIn(v, q) == ~RoleIn(v, q)

Amount(q) == Get(q.args, "amount", 0)

AmountOrder(key, v, q) ==
  /\ Numeric(Amount(q)) /\ Numeric(v)
  /\ \/ key = "action.args.amount_gt" /\ Amount(q) > v
     \/ key = "action.args.amount_lt" /\ Amount(q) < v

(* tool_metadata is empty for a tool that nobody registered.                 *)
ToolFlag(key, v, meta) == meta # EmptyDict /\ meta[key] = v

AmountCompares(key, v, q) ==
  /\ Numeric(Amount(q)) /\ Numeric(v)
  /\ \/ key = "action.args.amount_eq" /\ Amount(q) = v
     \/ key = "action.args.amount_gte" /\ Amount(q) >= v
     \/ key = "action.args.amount_lte" /\ Amount(q) <= v

SubjectMatches(key, v, q) ==
  \/ key = "subject.role_count_gte" /\ Numeric(v) /\ Cardinality(q.roles) >= v
  \/ key = "subject.clearance_eq" /\ q.clearance = v
  \/ key = "subject.tenant_id_eq" /\ q.tenant = v

ResourceMatches(key, v, q) ==
  \/ key = "resource.classification_eq" /\ q.classification = v
  \/ key = "resource.tags_contains" /\ v \cap q.tags # {}

RiskLevelMatches(v, meta) ==
  meta # EmptyDict /\ meta["tool.risk_level"] # None /\ meta["tool.risk_level"] = v

CapabilitiesContain(v, meta) == meta # EmptyDict /\ v \cap meta["tool.capabilities"] # {}

RequiresCredentials(v, meta) == ToolFlag("tool.requires_credentials", v, meta)

RiskAbove(key, v, q) ==
  /\ Numeric(v)
  /\ \/ key = "context.session_risk_gt" /\ q.sessionRisk > v
     \/ key = "context.prompt_risk_gt" /\ q.promptRisk > v

-----------------------------------------------------------------------------
(* match_condition: the matcher of the key, or else the generic prefix       *)
(* matcher action.args.<field>_eq.  A key of neither kind never matches.     *)
MatchCondition(key, v, q, meta) ==
  \/ key = "action.tool_name" /\ ToolNameMatches(v, q)
  \/ key = "subject.role_in" /\ RoleIn(v, q)
  \/ key = "subject.role_not_in" /\ RoleNotIn(v, q)
  \/ AmountOrder(key, v, q)
  \/ key \in {"tool.side_effect", "tool.external_egress"} /\ ToolFlag(key, v, meta)
  \/ key = "tool.requires_credentials" /\ RequiresCredentials(v, meta)
  \/ AmountCompares(key, v, q)
  \/ SubjectMatches(key, v, q)
  \/ ResourceMatches(key, v, q)
  \/ key = "tool.risk_level_eq" /\ RiskLevelMatches(v, meta)
  \/ key = "tool.capabilities_contains" /\ CapabilitiesContain(v, meta)
  \/ RiskAbove(key, v, q)
  \/ key \in DOMAIN GenericKeys /\ Get(q.args, GenericKeys[key], None) = v
=============================================================================
