--------------------------- MODULE ToolSelection ----------------------------
(***************************************************************************)
(* Which tools a session gets and which of them runs under a name:         *)
(* tools/registry.py, tools/catalog.py, Agent.session and the environment's *)
(* tools() and _find_tool.  Sessions are opened while tools are still      *)
(* being registered.  A task is the set of its words.                      *)
(***************************************************************************)
EXTENDS Integers, Sequences, SequencesExt, FiniteSets, FiniteSetsExt, Arrangement, Optional

CONSTANTS
  Entries,       \* entries that are registered: [tool, intents, priority]
  Tasks,         \* sets of words
  Explicit,      \* sequences of tools an agent or a catalog is built with
  Discovered,    \* sequences of tools an MCP client has discovered
  Filters,       \* sets of names, or None
  RegistryBound  \* bound: entries

ASSUME SelectionAssumption ==
  /\ \A entry \in Entries : entry.priority \in Int
  /\ \A tools \in Explicit \cup Discovered : tools \in Seq({tools[i] : i \in DOMAIN tools})

VARIABLES
  registry,  \* ToolRegistry._entries
  catalog,   \* whether the session's agent has a CapabilityCatalog
  explicit,  \* the tools its agent, or catalog, was built with
  task, snapshot, \* observed: the task it was opened for, the registry then
  selected,  \* its tools
  filter,    \* its tool_filter
  shown,     \* tools(): what the model is told of
  called     \* observed: the last call, its name and the tool that ran

selectionVars == <<registry, catalog, explicit, task, snapshot, selected, filter, shown, called>>

Names(tools) == {tools[i].name : i \in DOMAIN tools}

Keep(tools, names) == Kept(tools, {i \in DOMAIN tools : tools[i].name \in names})

(* for t in tools: if t.name == name: return t                               *)
First(tools, name) == tools[Min({i \in DOMAIN tools : tools[i].name = name})]

ToolsOf(entries) == [i \in DOMAIN entries |-> entries[i].tool]

-----------------------------------------------------------------------------
(* ToolRegistry.register, register_many one by one.                          *)
Register ==
  /\ Len(registry) < RegistryBound
  /\ \E entry \in Entries : registry' = Append(registry, entry)
  /\ UNCHANGED <<catalog, explicit, task, snapshot, selected, filter, shown, called>>

Matching(entries, words) ==
  Kept(entries, {i \in DOMAIN entries : entries[i].intents \cap words # {}})

(* Mutant: the lowest priority first.                                        *)
ByPriorityUp(entries) == SortSeq(entries, LAMBDA d, e : d.priority < e.priority)

(* matched.sort(key=priority, reverse=True).                                 *)
ByPriorityDown(entries) == HighestFirst(entries)

(* IntentRouter.route: no match, no tools.                                   *)
Route(words, entries) == ToolsOf(ByPriorityDown(Matching(entries, words)))

(* The first tool of each name.                                              *)
FirstOfName(tools) ==
  Kept(tools, {i \in DOMAIN tools : \A j \in 1 .. i - 1 : tools[j].name # tools[i].name})

(* CapabilityCatalog.all_tools: priorities and intents play no part.         *)
AllTools(tools, entries, discovered) == FirstOfName(tools \o ToolsOf(entries) \o discovered)

(* CapabilityCatalog.resolve: registered tools alone where one matches.      *)
Resolve(words, tools, entries, discovered) ==
  LET routed == FirstOfName(Route(words, entries)) IN
  IF routed = <<>> THEN AllTools(tools, entries, discovered) ELSE routed

(* Agent.session: what the router selects supplements the explicit tools;    *)
(* it may hold a name twice.                                                 *)
Supplemented(tools, routed) ==
  tools \o Kept(routed, {i \in DOMAIN routed : routed[i].name \notin Names(tools)})

(* RuntimeEnvironment.tools.                                                 *)
Visible(tools, names) == IF names = None THEN tools ELSE Keep(tools, names)

OpenSession ==
  /\ catalog' \in BOOLEAN /\ explicit' \in Explicit /\ task' \in Tasks /\ filter' \in Filters
  /\ snapshot' = registry
  /\ \E discovered \in Discovered :
       selected' = IF catalog' THEN AllTools(explicit', registry, discovered)
                   ELSE Supplemented(explicit', Route(task', registry))
  /\ shown' = Visible(selected', filter')
  /\ called' = None
  /\ UNCHANGED registry

(* An embedder builds its agent from what the catalog resolves for a task.   *)
OpenResolved ==
  /\ catalog' = FALSE /\ task' \in Tasks /\ filter' \in Filters
  /\ snapshot' = registry
  /\ \E tools \in Explicit, discovered \in Discovered :
       explicit' = Resolve(task', tools, registry, discovered)
  /\ selected' = explicit'
  /\ shown' = Visible(selected', filter')
  /\ called' = None
  /\ UNCHANGED registry

(* _find_tool: the first of the session's tools, the hidden ones included.   *)
FindTool(name) == First(selected, name)

Call ==
  /\ selected # <<>>
  /\ \E name \in Names(selected) : called' = [name |-> name, tool |-> FindTool(name)]
  /\ UNCHANGED <<registry, catalog, explicit, task, snapshot, selected, filter, shown>>

SelectionInit ==
  /\ registry = <<>> /\ catalog = FALSE /\ explicit = <<>> /\ task = {} /\ snapshot = <<>>
  /\ selected = <<>> /\ filter = None /\ shown = <<>> /\ called = None

SelectionNext == Register \/ OpenSession \/ OpenResolved \/ Call

SelectionSpec == SelectionInit /\ [][SelectionNext]_selectionVars

-----------------------------------------------------------------------------
(* The tool that runs under a name is the agent's own one of that name;      *)
(* failing that, without a catalog, a tool registered for the task when the  *)
(* session was opened, and none of that name was registered for it with a    *)
(* higher priority: duplicates, and tools registered since, change nothing.  *)
(* And it is one of those shown, unless the filter hides its name.  (route,  *)
(* the merge in Agent.session, _find_tool, tools.)                           *)
RunsPreferred ==
  called # None =>
    LET name == called.name
        rivals == {e \in ToSet(snapshot) : e.intents \cap task # {} /\ e.tool.name = name}
    IN  /\ name \in Names(explicit) => called.tool = First(explicit, name)
        /\ name \notin Names(explicit) /\ ~catalog =>
             \E e \in rivals : /\ e.tool = called.tool
                               /\ \A rival \in rivals : rival.priority <= e.priority
        /\ called.tool \in ToSet(shown) \/ (filter # None /\ name \notin filter)
=============================================================================
