----------------------------- MODULE SchemaPins -----------------------------
(***************************************************************************)
(* mcp/schema_pin.py, risk_mapper.py, allowlist.py and what client.py makes*)
(* of them: the tools an MCPClient has listed, the schemas its embedder    *)
(* pins, and the tools handed out.  The server may list other tools at any *)
(* time; the client lists them when it connects and reconnects, and        *)
(* verifies the list it holds.                                             *)
(*                                                                         *)
(* A schema is a value, the hash of it the value itself: sorted keys make  *)
(* equal objects one text, and SHA-256 is taken to have no collisions.     *)
(***************************************************************************)
EXTENDS Naturals, Sequences, SequencesExt, Optional

CONSTANTS
  Commands,   \* commands of servers, as connect_stdio is given them
  Allowlist,  \* MCPAllowlist: the set of a strict one, None for any other
  Listings,   \* what a server may list: [name, schema, capabilities] in a sequence
  EmptyDict,  \* the schema {}
  RiskMap,    \* MCPRiskMapper: the levels of the patterns a capability matches
  PinBound    \* bound: times the embedder pins

Capabilities == DOMAIN RiskMap
RiskLevels == <<"low", "medium", "high", "critical">>

ASSUME SchemaPinsAssumption ==
  /\ Allowlist = None \/ Allowlist \subseteq Commands
  /\ \A c \in Capabilities : RiskMap[c] \subseteq ToSet(RiskLevels)
  /\ \A l \in Listings : /\ l \in Seq({l[i] : i \in DOMAIN l})
                         /\ \A i \in DOMAIN l : l[i].capabilities \subseteq Capabilities

VARIABLES
  offered,   \* what the server lists at present
  mapped,    \* whether the client has a risk mapper
  mcpTools,  \* MCPClient._tools by name, None before the client exists
  live,      \* whether the client has a transport
  pins,      \* SchemaPin._pinned by name, None before pin_schemas
  handed,    \* the tools last handed out by discover_tools
  drifts,    \* tools that verify_schemas has last found to have drifted, None before
  listing,   \* observed: the listing the client's tools were built from
  changed,   \* observed: whether the server has changed its tools since
  pinnedAt,  \* observed: the listing at which they were pinned
  current,   \* observed: whether handed and drifts are of the present tools and pins
  pinned     \* number of times they were pinned

toolVars == <<mapped, mcpTools, live, listing>>
serverVars == <<offered, changed>>
pinVars == <<pins, pinnedAt, pinned>>
verdictVars == <<handed, drifts, current>>
schemaVars == <<serverVars, toolVars, pinVars, verdictVars>>

(* _build_tools: the last of the tools of one name stands for it.            *)
Built(tools) ==
  [name \in {tools[i].name : i \in DOMAIN tools} |->
     tools[CHOOSE i \in DOMAIN tools :
             tools[i].name = name /\ \A n \in DOMAIN tools : tools[n].name = name => n <= i]]

-----------------------------------------------------------------------------
(* is_allowed.                                                               *)
IsAllowed(command) == Allowlist = None \/ command \in Allowlist

(* The client lists the tools: what was found before is of another list.     *)
ListTools ==
  /\ mcpTools' = Built(offered)
  /\ listing' = offered /\ changed' = FALSE
  /\ live' = TRUE
  /\ current' = [handed |-> FALSE, drifts |-> FALSE]

(* connect_stdio, whose client has no mapper; MCPClient(transport=...) may.  *)
Connect ==
  /\ mcpTools = None
  /\ \E command \in Commands : IsAllowed(command)
  /\ ListTools
  /\ mapped' \in BOOLEAN
  /\ UNCHANGED <<offered, pinVars, handed, drifts>>

(* MCPClient.reconnect.                                                      *)
Reconnect ==
  /\ live
  /\ ListTools
  /\ UNCHANGED <<offered, mapped, pinVars, handed, drifts>>

(* The new server does not answer, or the client is closed: its tools stay.  *)
LoseTransport ==
  /\ live
  /\ live' = FALSE
  /\ UNCHANGED <<serverVars, mapped, mcpTools, listing, pinVars, verdictVars>>

ServerChanges ==
  /\ offered' \in Listings /\ changed' = TRUE
  /\ UNCHANGED <<toolVars, pinVars, verdictVars>>

-----------------------------------------------------------------------------
(* _extract: a schema that is no dict counts as the empty one.               *)
SchemaOf(schema) == IF schema = None THEN EmptyDict ELSE schema

PinSchemas ==
  /\ mcpTools # None /\ pinned < PinBound
  /\ pins' = [name \in DOMAIN mcpTools |-> SchemaOf(mcpTools[name].schema)]
  /\ pinnedAt' = listing
  /\ pinned' = pinned + 1
  /\ current' = [current EXCEPT !.drifts = FALSE]
  /\ UNCHANGED <<serverVars, toolVars, handed, drifts>>

(* Mutant: a tool that is gone has not drifted.                              *)
DriftedListed(tools) ==
  {name \in DOMAIN tools :
     name \in DOMAIN pins => pins[name] # SchemaOf(tools[name].schema)}

(* SchemaPin.verify: not pinned, drifted, or removed.                        *)
Drifted(tools) ==
  {name \in DOMAIN tools :
     name \in DOMAIN pins => pins[name] # SchemaOf(tools[name].schema)}
    \cup (DOMAIN pins \ DOMAIN tools)

(* verify_schemas: without pins nothing has drifted.                         *)
VerifySchemas ==
  /\ mcpTools # None
  /\ drifts' = IF pins = None THEN {} ELSE Drifted(mcpTools)
  /\ current' = [current EXCEPT !.drifts = TRUE]
  /\ UNCHANGED <<serverVars, toolVars, pinVars, handed>>

-----------------------------------------------------------------------------
(* MCPRiskMapper.classify: the highest of the levels matched, by default     *)
(* medium.                                                                   *)
ClassifyRisk(capabilities) ==
  LET matched == UNION {RiskMap[c] : c \in capabilities}
      levels == SelectSeq(RiskLevels, LAMBDA level : level \in matched)
  IN  IF levels = <<>> THEN "medium" ELSE Last(levels)

(* discover_tools: without a mapper the risk of a listed tool is low.        *)
DiscoverTools ==
  /\ mcpTools # None
  /\ handed' = [name \in DOMAIN mcpTools |->
                  [schema |-> mcpTools[name].schema,
                   risk |-> IF mapped THEN ClassifyRisk(mcpTools[name].capabilities) ELSE "low"]]
  /\ current' = [current EXCEPT !.handed = TRUE]
  /\ UNCHANGED <<serverVars, toolVars, pinVars, drifts>>

PinsInit ==
  /\ offered \in Listings /\ mapped = FALSE /\ mcpTools = None /\ live = FALSE
  /\ pins = None /\ handed = None /\ drifts = None /\ listing = <<>> /\ pinnedAt = <<>>
  /\ changed = FALSE
  /\ current = [handed |-> FALSE, drifts |-> FALSE] /\ pinned = 0

PinsNext ==
  \/ Connect \/ Reconnect \/ LoseTransport \/ ServerChanges
  \/ PinSchemas \/ VerifySchemas \/ DiscoverTools

PinsSpec == PinsInit /\ [][PinsNext]_schemaVars

-----------------------------------------------------------------------------
(* The names of a listing and the schema each stands for, as an agent sees   *)
(* them: a later tool hides an earlier one of its name.                      *)
Signature(tools) ==
  {<<tools[i].name, SchemaOf(tools[i].schema)>> :
     i \in {k \in DOMAIN tools : \A n \in DOMAIN tools : n > k => tools[n].name # tools[k].name}}

(* Verifying finds a drift exactly when the client last listed other names   *)
(* or other schemas than were pinned, through any number of reconnections    *)
(* that failed or succeeded in between.  What the server now lists otherwise *)
(* than it was pinned goes unfound only when the server has changed since    *)
(* the client last listed it, for verifying asks nothing of the server; and  *)
(* the tools handed out of a list without drift have the schemas that were   *)
(* pinned.  (SchemaPin.pin and verify, reconnect, discover_tools.)           *)
DriftReported ==
  pins # None /\ current.drifts =>
    /\ drifts = {} <=> Signature(listing) = Signature(pinnedAt)
    /\ drifts = {} /\ Signature(offered) # Signature(pinnedAt) => changed
    /\ drifts = {} /\ current.handed =>
         {<<name, SchemaOf(handed[name].schema)>> : name \in DOMAIN handed}
           = Signature(pinnedAt)
=============================================================================
