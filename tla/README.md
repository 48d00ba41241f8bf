# petfishFramework in TLA+

A verification development for the Python package `src/src/petfishframework`
(98 files, 12,045 lines): TLA+ modules translated from the source, TLC
configurations that check them on small instances, and theorems that TLAPS
proves for every value of the constants. Paths below are relative to
`src/src/petfishframework/`.

## 1. The system

petfishFramework runs an LLM agent. An `Agent` builds a `Session`; the session
builds a `RuntimeEnvironment` and hands it to a reasoning strategy; everything
the strategy does to the outside (tool calls, model queries, retrieval) goes
through that environment, the *chokepoint*, which gates, meters and records.

| Component | State | Operations | Interacts with |
|---|---|---|---|
| RuntimeEnvironment (`core/environment.py`, `core/permission_gate.py`) | `_model_calls`, accountant, `_state_lock` | `call`, `call_async`, `query_model`, `query_model_stream`, `retrieve` | policy, stores, broker, event log, tools, model |
| Budget (`core/budget_guard.py`, `reliability/cost.py`) | usage, tool-call count | record, check | environment, under its lock |
| Event log and store (`core/events.py`, `core/event_store.py`) | event list, sinks, JSON-lines file | emit, subscribe, clear; append, get_all | everything that emits |
| Retry, timeout, breaker (`reliability/`) | attempt counter; worker thread; breaker state | wrap a callable; allow, record | environment, models |
| Idempotency store, rate limiter (`tools/`) | entries with expiry; stamps per tool | get, put; check | gates 2 and 3 of a tool call, shared by sessions |
| Approval store (`permissions/approval.py`) | requests by id | create, approve, deny, consume | permission gate, human |
| Policies (`permissions/`, `policies/`) | rules; watched file | evaluate; reload | permission gate |
| Credentials (`credentials/`) | issued tokens | issue, validate, check, revoke, clean up | environment, session end |
| Session, conversation (`core/session.py`, `core/conversation.py`) | environment, history | run, finalize, checkpoint | all of the above |
| Record and replay (`reliability/replay.py`) | recorded responses and indices | record, replay, resume, rerun | takes the environment's place |
| MCP client (`mcp/`) | subprocess, request ids, tools, pins | request, reconnect, close, verify | tools |
| Strategies (`reasoning/`) | messages, trees, reflections | run | environment |
| Contracts (`core/contract_evaluator.py` ...) | none | evaluate | audit, reports |
| Retrieval (`retrieval/`) | documents, emitter | retrieve | environment |
| Structured output (`core/structured.py`) | none | parse, coerce | agent |
| Tool selection (`tools/registry.py`, `tools/catalog.py`, `core/agent.py`) | entries; a session's tools | register, route, find | environment, MCP tools |
| Agents as tools (`tools/agent_tool.py`) | none of its own: a child session per call | execute | sessions |
| Schemas (`tools/schema_validator.py`, `mcp/schema_pin.py`) | pins | validate, pin, verify | gate 1 of a tool call, MCP client |
| Secret cache (`credentials/vault_adapter.py`) | cached secrets | read, clear | credentials |

What is hard about it, and what makes each part correct:

* **Chokepoint.** One environment may be used by several threads: a tool call is
  a dozen steps over shared stores and only the counters are locked. Every call
  must leave one terminal event, every execution one charge, the limits may be
  passed only by what was in flight, a key must not run twice, a stream must be
  closed on every exit of its generator, and a call must end in spite of retries
  and timers.
* **Budget.** It is checked after the fact; the overshoot must stay bounded.
* **Event store.** A crash in the middle of a line; file order against log order.
* **Breaker.** Concurrent callers around the half-open trial; late results.
* **Approvals, credentials.** Single use, expiry, revocation by another session.
* **Sessions.** Load, load and save of a shared conversation; cleanup that an
  exception skips.
* **Replay.** Indices that the log and the recording count differently.
* **Hot reload.** Callbacks under a lock that is not reentrant; a watcher that
  dies; two watchers.
* **MCP.** Two threads on one pipe; a reconnection that fails half way.
* **Limiter, retry statistics, secret cache.** A clock read before the lock;
  fields of an object that concurrent queries share; a check and a read with
  nothing between them to keep the answer fresh.
* **Policies.** Order of equal priorities, combinators, two judges of one file.
* **Delegation, strategies.** Nested budgets, and an exception that every level
  treats in a way of its own.

`PROJECT.json` lists every hazard at its line with the properties that cover it.

## 2. Modules

| Modules | Model | Composed and checked in | Theorems in |
|---|---|---|---|
| `EnvironmentState`, `ToolGate`, `ModelGate`, `RuntimeEnvironment`; `BudgetMeter`, `SlidingWindow` | the chokepoint; what it promises of a counted resource and of a limited tool | `MCRuntimeEnvironment` | `RuntimeEnvironmentProofs` |
| `Replay` | recording, checkpoint, the three replaying environments | `MCReplay` | `ReplayProofs` |
| `Credentials`, `Sessions` | the broker; sessions that share it and a conversation | `MCSessions` | `SessionsProofs` |
| `CircuitBreaker`, `RateLimiter`, `EventLog`, `ApprovalStore`, `ModelRetry`, `VaultCache` | services that threads share | `MCServices` | `ServicesProofs` |
| `McpClient` | client, transports and server processes | `MCServices` | `McpClientProofs` |
| `PolicyConditions`, `PolicyDecisions`, `PolicyCombinators`; `HotReload` | what a policy decides; its file | `MCPolicies` | `PoliciesProofs` |
| `Strategies`, `Delegation`, `ToolSelection`, `Retrieval`, `ContractEvaluation`, `StructuredOutput`, `SchemaPins`, `ToolSchemas` | what an agent is made of | `MCAgents` | `AgentsProofs` |

`Optional` declares Python's `None`. `Arrangement` has the lists that a filter or a
stable sort by priority makes, for `PolicyDecisions` and `ToolSelection`, and
`OrderLemmas` what the proofs need of them. `ToolGate` and `ModelGate` extend
`EnvironmentState`, `RuntimeEnvironment` extends both and implements
`BudgetMeter` and, for each limited tool, `SlidingWindow`, which `RateLimiter`
implements too; `Sessions` extends `Credentials`; `PolicyDecisions` extends
`PolicyConditions` and is parameterised by `Applies`, whether a `when` block applies
to a request, for which the configurations put `Holds` of `PolicyCombinators`. So what
`PoliciesProofs` says of priorities holds whatever a block means.

*Focus.* Parts that share no state are checked in one run: a behaviour of
`MCServices`, `MCPolicies` or `MCAgents` takes the steps of the part that the
variable `focus` names and leaves the others in their initial state. The state
spaces of the parts add up, and a property of one part says nothing of behaviours
that exercise another.

### The chokepoint

**EnvironmentState** holds what both gates share. `pc[c]` is the point of the
handler at which thread `c` stands; each action between two points touches
shared state once, so the interleavings of the model are those of the threads.
`events` counts events by kind: the properties compare counts. `Charge` is
`BudgetGuard.track_*` under `_state_lock`: record, then check, and raise.

**ToolGate** is `call` and `call_async`. One action per exit:

| Action | Code in `core/environment.py` |
|---|---|
| `BeginCall` | `_prepare_tool_call`: look the tool up, evaluate the policy, create the approval request |
| `Block` | `_block_tool`, with the effect `call` and `call_async` each pass for an unknown tool |
| `DegradeFails`, `Degrade`, `DegradeWithoutCredential`, `FallbackReturns`, `FallbackRaises` | `_handle_degrade_sync/_async` |
| `SchemaRejects`, `CacheHit`, `CacheMiss`, `RateRejects`, `Admit`, `AdmitWithoutCredential` | the gates of `_prepare_execution`, in their order |
| `Attempt`, `AttemptReturns`, `BackOff`, `RetriesExhausted`, `AttemptFails`, `AssertionRaised` | `_execute_sync/_async` over `with_retry` |
| `SyncTimeout`, `AsyncTimeout` | `with_timeout` (the worker runs on), `asyncio.wait_for` (cancels in the backoff sleep only, the tool itself being synchronous) |
| `PutResult` | `_finalize_execution` up to the mask |
| `RecordEvent`, `TrackToolCall` | `_record_tool_call`: the event outside the lock, the charge inside |
| `KeyExpires`, `WindowSlides` | time, as the stores see it |

The policy, the tools, the model and the secret provider belong to the embedder;
their answers are chosen by `\E` over every value the gate tells apart. A call's
arguments are abstracted to the `_idempotency_key`: `PARTIAL_ALLOW` may drop it,
masks are taken to concern payload fields only. A caller whose call raised takes
no further call: the strategies that catch `BudgetExceeded` (`reasoning/lats.py`,
`reasoning/llm_plus_p.py`) return at once and the others do not catch it. Reflexion around one that catches
it makes one more query, which raises again (`StopsWhenOut` of `Strategies`
bounds it by one); the overshoots below are those of strategies without it.

**ModelGate** is the model side. The points of a stream whose model has no
`query_stream` are those of `query_model` with the prefix `s_`; `LeaveStream` is
either the end of a one-chunk stream or `GeneratorExit` at a `yield`.

**BudgetMeter** is the abstract promise of the chokepoint about one counted
resource: one unit at a time, and a charge that passes the limit halts the
caller that made it. `RuntimeEnvironment` implements it with
`charged <- toolCalls` and `halted` the callers that met `BudgetExceeded`.

**SlidingWindow** is the abstract promise of a rate limit for one tool: stamps leave
the window at any time, and a call is admitted only when there is room.
`RateLimiter` implements it (`Limiter`), and so does the window that the chokepoint
counts for a tool (`WindowOf(t)`), which stands for it there: both keep this promise.

### Replay and sessions

**Replay** is `reliability/replay.py` with `Session.checkpoint` and
`resume_from`: a first run over a `RecordingEnvironment` (answers, refusals,
exceptions before and after the charge, a checkpoint anywhere) and a second run
over its recording in one of the three `ReplayMode`s. Assumed: the strategy is
deterministic, so that what it asks is a function of the answers it has had; the
environment recorded is the session's own; the checkpoint is taken between two
questions or after the run. For a tool that requires a credential (`Credentialed`)
the environment writes a new token into the very dict that the caller passed
(`Stamps`), which is also the one recorded; a scripted model that answers with the
same dicts twice shares them with the run before (`stamped`). A rerun compares the
dicts after its call, so what it finds of an entry with a token is nondeterministic
only where the two may be one dict, and otherwise a difference (`Comparisons`).

**Credentials** and **Sessions** are `credentials/broker.py`, `token.py`,
`core/session.py` and `core/conversation.py`: sessions of one agent, each in a
thread of its own as under `server/app.py`, with a broker and a conversation in
common and no lock on either.

| Action | Code |
|---|---|
| `Inject`, `InjectIntoRule` | `_maybe_inject_credential`, into the call's arguments or into the `fallback_args` of the policy rule, one dict for all calls that the rule degrades (`policies/engine.py:125` passes it on by reference) |
| `TakeToken`, `BeginUse`, `CountUse`, `EndUse`, `NoUse` | the tool reads the token; `use` reads, writes and reads the counter again, with a switch between each two |
| `Retry`, `CallReturns`, `StrategyRaises`, `StrategyReturns` | `with_retry`; the ways out of the call and of `reasoning.run` |
| `LoadPrevious`, `SaveTurn`, `ClearConversation` | `_save_conversation_history`, the store |
| `BeginCollect`, `EndCollect`, `IterationRaises`, `DeleteToken`, `DeleteRaises`, `EndStage` | `_cleanup_credentials`: `cleanup_expired`, then `revoke_all_for_tool` for each tool, as iteration over the dict and deletion of what it collected |
| `Operator`, `Clock` | `revoke_token` and `revoke_all` by an embedder; a TTL that passes |

A strategy is any sequence of credentialed calls that ends in an answer or an
exception. CPython's iteration is abstracted to its begin and end: it raises if
the size differs when it goes on, may raise if the dict changed at all, and
otherwise collects what was there throughout and any part of what came or went.
That a resized dict may skip an old entry is not modelled. A use of an
already revoked token is (`get_secret` does not ask the broker).

### Services

**CircuitBreaker** is `reliability/circuit_breaker.py` between the threads that
share one breaker: `Allow`, `RecordSuccess`, `RecordFailure`, `Reset`, with
`Elapse` for the recovery time and `Abandon` for a caller that records nothing.
The lock makes each method one action; what interleaves is the calls made
between `allow` and the outcome. Nothing in `src/` calls the breaker, so its
callers follow its docstring.

**RateLimiter** is `tools/rate_limiter.py` for one tool. `ReadClock` and `AdmitCall` or
`RefuseCall` are the two halves of `check`, before the lock and under it, so that
stamps enter the deque late and out of order; `Remaining` prunes as well,
`ResetWindow` is `reset`. A deque of stamps is the tail of a log of admissions,
which keeps for the properties what was popped.

**EventLog** is `core/events.py` over `core/event_store.py`. `emit` is three steps:
`LogEvent` under the emitter's lock, `StoreEvent`, `StoreRaises` or `StoreTears`
under the store's, `CallSinks`. A process may die in the middle of a line
(`CrashEmitters`) and a later one appends to the same file, a sequence of pieces with
or without their newline. `get_all` parses every line and catches nothing: `Readable`
says whether all lines parse (`Parses`), without which it raises and gives no event
at all, and `Stored` is what the file holds.

**ApprovalStore** is `permissions/approval.py`: create, approve, deny and consume in any
order. **ModelRetry** is `RetryModelAdapter` with the statistics that all queries of
one adapter share. **VaultCache** is the cache of `credentials/vault_adapter.py`
for one path: look up, ask Vault, store, with a rotation or `clear_cache` between
any two.

### MCP client

**McpClient** is `mcp/client.py` and `mcp/stdio_transport.py` with the loop of
`mcp/server.py` at the other end. `_send_request` is `TakeId` (the unlocked
counter), `WriteRequest` and a loop of `TakeAnswer`, `TakeError` and
`DropMessage` over the pipe; `close` and `reconnect` replace the transport under
threads that use it; `Exit` is the death of a process. An error in answer to
`initialize`, which this server never gives, is left out: it would raise out of the
handshake as the other failures do. A robbed thread is one
whose answer another has read and dropped.

### Policies

**PolicyConditions** is each matcher of `policies/conditions.py`, **PolicyCombinators** its
`any`, `all` and `not`, which nest.
**PolicyDecisions** is the way from a file to a decision: `LoadPolicy`
(`from_string`, with what `policies/validator.py` says of the same file, and the
conversions of list fields, `ListsConvert`, which only the loader makes),
`RegisterTool`, `Decide` (the composition of `permissions/`, then
`core/permission_gate.py`), `RunTestCase` (`policies/test_runner.py`).

**HotReload** is `policies/hot_reload.py`. A reload is `Stat`, `ReadFile` and one step per
callback (`CallbackReturns`, `CallbackRaises`, `CallbackReenters`) under the lock;
`Start`, `Stop`, `JoinReturns` and `JoinTimesOut` are the user's, `CheckRunning` and
`Wake` the watcher's, and `WriteFile` happens at any time, within one tick of the
clock too. Times only grow: an editor that restores an older modification time is
left out. A thread that asks for the lock it holds is `"stuck"`.

### What an agent is made of

| Module | Code | Actions |
|---|---|---|
| `Strategies` | `reasoning/` | one per query or tool call of ReAct, LATS and LLM+P, with its way of meeting `BudgetExceeded`; `StartAttempt`, `Reflect`, `TryAgain`, `GiveUp` of Reflexion around them |
| `Delegation` | `tools/agent_tool.py`, the identity checks of `core/agent.py` | `Query` (a response of any size of `Usages`), `Recover` (a strategy that catches `BudgetExceeded` and goes on once), `Delegate`, `Answer`, `ToolAsserts`, `Unwind` on a stack of sessions |
| `ToolSelection` | `tools/registry.py`, `tools/catalog.py`, `Agent.session`, `_find_tool` | `Register`, `OpenSession`, `OpenResolved`, `Call` |
| `Retrieval` | `retrieval/`, `RuntimeEnvironment.retrieve` | the points of `MemoryRetriever`, `CRAGRetriever` and `AdaptiveRetriever` at which the shared object is read or written, and the filter at the end |
| `ContractEvaluation` | `core/contract_evaluator.py`, the admission of atoms, the known-bad fixtures | `EvaluateRaw`, `AdmitAtom`, `ValidateKnownBad` |
| `StructuredOutput` | `core/structured.py`, `Agent.run_structured` | `RunStructured` |
| `SchemaPins` | `mcp/schema_pin.py`, `risk_mapper.py`, `allowlist.py`, `client.py` | `Connect`, `Reconnect`, `LoseTransport`, `PinSchemas`, `VerifySchemas`, `DiscoverTools`, and `ServerChanges` |
| `ToolSchemas` | `tools/schema_validator.py` | `Validate`, with both validators |

The pure ones (contracts, structured output, schemas, conditions) are operators
that translate the code, checked against a definition of what they are for:
agreement of two outputs (`Agrees`), an object that fits (`FittingObject`), the rules of Draft
2020-12 (`DraftAccepts`), AND semantics (`Says`). In `ContractEvaluation` any part of an output
may be malformed (`Malformed`, which has none of the methods the evaluators call) and
a verdict is then `"crash"` where one of them raises. In `StructuredOutput` a value is
known by its kind: `"huge"` is an integer beyond the floats, `"braced"` a text with a brace
in it. In `ToolSchemas` a schema and the
arguments of a call, which nest, are tables from the path of each part to what that part says,
so that the validator's descent is a set of paths (`Visited`). The two validators agree
where every part of the schema has a type and no further keyword (`further` says which
kinds of value `items`, `minItems`, bounds and patterns reject, all of which the built-in
validator ignores), and Python's equality is JSON's: no value is a
bool or a float of integral value, and no enum lists a bool, which equals 1 to the
built-in validator.

## 3. Runs

| Run | Instance | Shows |
|---|---|---|
| `env_tools` | a sync and an async caller, one tool with every attribute (keyed, limited to 1, retried once) and one with a credential, 3 tool calls, budget of 1 call | audit trail, keys, refinement of `BudgetMeter` |
| `env_models` | the same callers, 3 model calls or streams, 1 tool call, 2 tokens, no approval store | token overshoot, streams, termination of calls |
| `replay` | runs of up to three answers, two contents, a plain and a credentialed tool request | an audit is faithful; a resumption does not return to the recording and is exact when the counters agree; a rerun reports what differs, and besides only tokens |
| `sessions` | two sessions, one tool, one credentialed call each retried once, one clear | one use per token; no tokens left by a session that ended; answers lost by races only; turns lost by overlap or clear only; cleared turns stay cleared |
| `services` | two threads on limiter, log, adapter and cache, three on the breaker, two requests for approval; two threads of an MCP client, two transports one after the other, four requests each | the window is kept in spite of late clocks; an event lost is counted, and only a torn write makes the file unreadable; the file keeps the order of emits that did not overlap; an approval is used once; statistics belong to a query that ran alone; an old secret is served only if a reader held it; the breaker recovers; an MCP answer is mistaken only for one of the same id, a process is orphaned only by a failed handshake or by threads that contend, requests end unless robbed |
| `policies` | 28 files, two tools, 18 queries, 6 compositions; two watchers, a user, a callback | priority decides; valid files load unless a list field is no list; one watcher; a policy is stale only within a tick; changes are noticed |
| `agents` | the eight parts of an agent, see below | no calls after the budget; LATS executes the best scored; spending of nested agents; `BudgetExceeded` is one's own; which tool runs; events in a foreign log; exact verdicts; parsed answers; drift against the last listing; agreement of the validators |
| `doc_audited` | 1 tool call | violated: "all calls audited" |
| `doc_stream_charged` | 1 stream | violated: "budget is checked ... after it ends" |
| `doc_resume` | as `replay` | violated: "Serves recorded responses up to a checkpoint" |
| `doc_every_key` | as `policies` | violated: "every key in a `when:` block must match" |
| `doc_rerun` | as `replay` | violated: "Differences in call count ... are captured as divergences" |

*Bounds of the chokepoint.* `ToolCallBound` and `ModelCallBound` cap the calls begun;
nothing else is cut. Two callers meet every race of the handlers, because each
race is between one step and another caller's; three calls let one caller call
again after the race (a cached key, a full window, a spent budget) while the other
is still inside. Budget 1 and 2 tokens are passed within the bound by both callers;
`MaxRetries = 1` has an attempt that is repeated and one that is exhausted.

*Replay and sessions.* A run of three answers has one before the checkpoint, one
that the counters and the recording count differently, and one after it, in all
three kinds; one of the two tool requests is of a tool with a credential. Two sessions meet every race over the broker and the conversation,
each being between two accesses of one and an access of the other; `TokenBound`,
`CallBound` and `ClearBound` cap tokens, calls and clears. A single tool has the
two stages of the cleanup (expired, by name); the clear of an empty conversation
changes nothing and is left out. The sessions are symmetric and the run has
invariants only, so `SYMMETRY` is sound.

*Services.* Two calls in a window of three ticks, seven ticks of clock (`ClockBound`)
and a delay of one (`MaxDelay`) let a window fill, slide and fill again with stamps
out of order. Three events (`EventBound`) and two torn writes (`TornBound`) tear a
line, have it swallow the next event and leave one after both. A breaker with three callers
has one in an old call, one in a trial and one that asks; a count of 5
(`FailureBound`) passes the threshold of 2 by more than the callers in flight.
`MaxRetries = 2` repeats a query twice and then exhausts it; `VersionBound = 2`
rotates the secret past an answer held across a clear. `GrantBound` would show a second use.

*MCP.* Two transports (`TransportBound`) are one reconnection; four requests
(`RequestBound`) on a transport are the two of its handshake and one of each thread.

*Policies.* The files hold every key and combinator, equal priorities, spellings
of effects and the malformed shapes the loader tells apart. `MtimeBound = 2` and
`CallbackBound = 1` give two versions with writes inside a tick, and a callback
that returns, raises or re-enters, in the watcher or in the user's call. Two
watchers (as many as `Watchers` has) are what a start during a stop leaves.

*Agents.* Strategies: two reflections, breadth and simulations of 2, two steps, 8 queries,
3 tool calls; three tool calls in a response (`CallsBound`), two sessions
(`SessionBound`). A budget runs out in each phase of each strategy. Delegation: three sessions deep (`DepthBound`),
six tokens or tool calls for a session with no limit (`WorkBound`), responses of one and of two
tokens (`Usages`, `MaxUsage`: a slice of one is passed by the larger), wrappers with and
without a budget, an agent that cannot be built. Contracts: two strings and two
numbers, whose mixture does not sort. Selection: three entries, two of
one name (`RegistryBound`). Retrieval: two sessions with one call each
(`CallBound`), up to two of the documents (`DocumentBound`). Schemas: five
listings, two times of pinning (`PinBound`); the schemas of arguments include that of the
path planner. A shape of data that an operator tells
apart has a member in the sets `MCAgents` gives it.

*Deadlock* is checked, except in `agents`: there runs and stacks of sessions come to
their end. In `RuntimeEnvironment`, `Replay` and `Sessions` a stutter (`Finished`)
stands for the end, so that everything else that stops is reported; threads of the MCP
client, which may wait for ever, may stutter in `MCServices`.

*Fairness.* `FairSpec` of the chokepoint has weak fairness of each caller's steps
inside a call: a thread in a call is scheduled, and tools, adapters and stream
consumers finish. Beginning a call, the timers and the passing of time are not
fair. Under it `CallsEnd` holds because `with_retry`'s loop is bounded.
`BreakerFair` (in `MCServices` of the behaviours that exercise the breaker,
`FocusedBreakerFair`) has weak fairness of time (`Elapse`) and of a caller that asks
(`Allow`), and strong fairness of its success: a breaker whose dependency keeps
answering closes again (`Recovers`), whatever trials are abandoned. `ReloadFair` has
weak fairness of a thread inside the lock and strong fairness of a watcher's
steps, since a lock that is free again and again is got by who waits for it;
nothing is assumed of users, of the editor or of callbacks, which may block for
ever (`ChangeNoticed` then promises nothing). `McpFair` has weak fairness of a
thread inside an operation and of a server that has a request: both are
scheduled; `Exit` and new operations are not fair. The other runs check safety
only.

## 4. What is proved

`RuntimeEnvironmentProofs` proves, for any finite set of callers, tools, keys and
limits, from the named assumptions `EnvironmentAssumption`, `ToolGateAssumption`
and `ModelGateAssumption`:

| Theorem | Argument |
|---|---|
| `TypeCorrect` | step by step |
| `AuditTrailHolds`, `MeteredTrailHolds`, `DiagnosticsBelongHolds`, `StreamsBalancedHolds` | each is inductive once type correctness is known. Every action moves one caller between classes of points (`CountMove`: the cardinality of a class changes by at most one, in the way the class membership of the caller says), and emits the matching event |
| `ImplementsMeter`, `ToolOvershootHolds`, `TokenOvershootHolds` | a charge past the limit puts its caller among the halted (`HaltedMove`), who charge no more; so the sum is `limit + halted` |
| `ImplementsWindow` | for each limited tool, `Admit` finds room in its window (`StampAdmits`), `WindowSlides` drops, and nothing else touches it (`WindowOfStep`) |
| `CallsAreShort` | a variant: every step of a caller inside its call makes fewer the steps it may still take, of which a call has `2 * MaxRetries + 9` at most, and no step of another makes them more. With a scheduler that is fair this is why `CallsEnd` |
| `KeyRunsHold` | `KeyRunsOncePerCaller` is not inductive; `KeyInv` adds where the caller of a counted run stands: if the key is not cached, its run is not yet stored and it is the call the caller is still in |

The actions are grouped into shapes first (a caller begins, advances, is
refused, records, charges ...), and the invariants are proved over shapes.

`ReplayProofs`, from `ReplayAssumption`, for runs of any length: `TypeCorrect`
(the invariant ties the indices of an audit or a resumption to the lengths of
the lists it reads) and

| Theorem | Argument |
|---|---|
| `NoReturnHolds` | live answers of models and tools imply `switched`, and what follows is live |
| `ResumeInsideHolds` | the counters of the checkpoint exceed the recording only by a charge that raised |
| `AuditFaithfulHolds`, `RerunExactHolds`, `ResumeExactHolds` | `RecordedInv`: the n-th answer stands in the list of its kind at the place `KindCount` counts, so that an index in step with the count reads the answer that followed. `SecondInv` says how long it stays in step: of an audit always, of a rerun while it follows the first run, of an aligned resumption until it switches, which is not before the checkpoint. A divergence that a rerun makes up is put down to an entry with a token (`TokenKept`) |

`SessionsProofs`, from `CredentialsAssumption` and `SessionsAssumption`, for any
sessions, tools, retries and clears:

| Theorem | Argument |
|---|---|
| `TypeCorrect` | with `UseInv`, which says that what a tool holds was issued |
| `UsedOnceHolds` | `UseInv`: a token in a call's own arguments is its session's alone, so the counter read is the counter written and every later check finds it above one (`OwnCall`); a token in a rule's dict is replaced by a later one before the session is degraded again (`RuleCall`) |
| `TurnsKeptHolds` | `TurnsInv` follows each turn from the conversation into what a session has loaded and back: a session that is in the log loads no more, so what was overwritten stays overwritten (`OverwrittenStays`) |
| `ClearedStayClearedHolds` | `ClearedInv` says the same of the conversation and of every history a session has loaded, each against the part of the log it was loaded at |
| `AnswerLostOnlyByRaceHolds` | `RaceInv`: a session that nobody has disturbed since it began to iterate finds the dict as it left it, and all the ids it has collected |
| `EndedLeaveNoTokensHolds` | `CleanupInv`: an active token belongs to a tool whose turn in its session's cleanup is still to come, or is found and collected in that turn |

`ServicesProofs`, each from the assumption of its module, the type correctness of
the six services (`BreakerTypeCorrect`, `RateTypeCorrect`, `ApprovalTypeCorrect`,
`RetryTypeCorrect`, `VaultTypeCorrect`, `EventTypeCorrect`) and

| Theorem | Argument |
|---|---|
| `OneUseHolds` | `ApprovalInv`: a request that is pending or approved has no grant and was never denied |
| `StatsBelongHolds` | `RetryInv` with `AloneFresh`: a query that no other has overlapped is the only one under way, and finds the statistics as it reset them |
| `StaleOnlyWhenHeldHolds` | `VaultInv` with `AnswersHeld`: what a reader has from Vault is as new as the last clear or was held across it |
| `FileOrderHolds` | `LogInv`: an event is appended by the thread that emits it and before its emit returns, so nothing that returned earlier can follow it in the file |
| `LossVisibleHolds` | `LossInv`: an event that has passed the store without a whole piece of its own was counted (`LostEvents`), and a line fails to parse only where a piece lacks its newline, which only a torn write leaves (`TornOnly`, `WholePieces`) |
| `ClosedBelowThresholdHolds` | the circuit is closed exactly below the threshold, since a half-open one keeps the count that tripped it |
| `WindowKeptHolds`, `RefusedWhenBusyHolds` | `RateInv`: the log is in the order of admission (though not of stamps), a stamp is at most `MaxDelay` older than its admission, what was popped is older than the window, and the deque is never longer than the limit |
| `ImplementsLimiter` | the refinement of `SlidingWindow`: popping old stamps makes the deque shorter, and a call is admitted into a deque below the limit |

`McpClientProofs`, from `McpAssumption`: `McpTypeCorrect` (with the messages in the
pipes, and a transport for every thread at a request) and

| Theorem | Argument |
|---|---|
| `AnswersBelongHolds` | `IdsInv`, as long as no id was given twice: a thread about to write has the next id of its transport and is the only one there, ids in use are smaller, and of the threads that wait only the asker has the id of a message in either pipe |
| `OrphanOnlyByFailureHolds` | a thread that connects is alone (`ConnectsAlone`); without contention one thread at a time closes or replaces the transport, and drops only one it has closed (`ClosesAlone`); so a process that runs has an owner (`Owned`) unless its handshake raised |
| `RequestNotLostHolds` | the safety half of `RequestsEnd`: who waits on a process that has not exited is robbed, or its request or its answer is in a pipe |

`PoliciesProofs`, with `ReloadTypeCorrect`, from `ReloadAssumption` and `PolicyAssumption` (a file's rules are a list
and priorities are integers or malformed):

| Theorem | Argument |
|---|---|
| `StaleWithinTickHolds` | `FileInv`: times that were read are never in the future, so the file that is read is no older than its time |
| `OneWatcherHolds` | `WatcherInv`: a `start`, whose test and creation are under the lock, finds alive only watchers that a stop waits for or has given up |
| `ReloadsExclude` | `LockInv`: the lock's holder is the one thread at a point between taking and leaving it, so reloads do not overlap even when a watcher has outlived its stop |
| `PriorityDecidesHolds` | the sorted rules are a permutation in which each precedes those of lower priority and later ones of its own (`RulesSorted`), so the first rule that applies beats the others |
| `ValidFilesLoadHolds` | what the validator accepts the loader parses, rule by rule, but for list fields that do not convert |

`AgentsProofs`, from the assumptions of its modules, `StrategyTypeCorrect` and

| Theorem | Argument |
|---|---|
| `StopsWhenOutHolds` | `StopInv`: nothing is charged before the budget has run out; then the strategy has ended, and only Reflexion may charge once more |
| `StrategiesEnd` | a variant, bounded by `TurnInv`: every step is a later attempt, a later turn of the same or leaves less of the turn (`LeftOfTurn`, `LongestTurn` at most) |
| `BestScoredHolds` | `ScoreInv`: every child's average is the score the model gave it, since (t + t div v) div (v + 1) = t div v (`AverageKept`) |
| `OwnBudgetOnlyHolds` | `DelegationInv`: only the session on top can be over a limit, and only while its exception is on its way |
| `SpendBoundedHolds` | `SpendInv`: there is an allowance for each prefix of the stack, what its sessions may still spend, and what is spent and the allowance of the whole are within the grants; a child adds its limit and an overshoot of two responses, the one that passes the limit and, where a strategy caught `BudgetExceeded`, the one after it; what it leaves falls to its parent |
| `ForeignOnlyByOverlapHolds` | `RetrievalInv`: whoever is the retriever's emitter during a call is the caller or has met it |
| `VerdictsExactHolds` | lists that count their elements alike inject into one another, by bijections glued over the elements (`CountedInto`), so comparing counts is comparing bags; lists that are not all strings are compared in order, as `_norm` leaves them (`NormIsEquality`); where no evaluator raises, each check is then one conjunct of `Agrees` (`PassIsAgreement`), and one raises only over a part that is not well formed (`CrashIsMalformed`) |
| `AnswersParsedHolds` | a whole object or none is extracted, a list in prose apart (`ExtractedWhole`); fields that fit coerce to themselves (`FittingIsData`); only a number that overflows its field raises (`RaisedByOverflow`) |
| `DriftReportedHolds` | `PinsInv`: pins are the schemas of the listing they were taken of, which as a graph are its signature (`SignatureIsBuilt`): of a name that occurs twice both keep the last. `changed` records that the server has changed its tools since the client listed them, without which it lists what it listed |
| `RunsPreferredHolds` | `SelectionInv`: whatever its name, the session's first tool of that name is the right one. Dropping duplicates, adding to the end and keeping what includes the first of a name leave the first of that name (`FirstOfNameFirst`, `FirstOfLeft`, `KeptFirst`), and the first that the router gives has the highest priority (`RoutedFirst`) |
| `ValidatorsAgreeHolds` | for any schema and arguments, however nested: part by part the two say the same (`PartsAgree`, `ClosedAgree`), and where the built-in validator does not descend, a part on the way has the wrong type, which both report (`VerdictsAgree`). The attempt to prove it showed that an enum that lists `True` tells them apart on the argument 1; `Plain` excludes it. Keywords that the built-in validator does not know are excluded by `Covered` |

The lists of the last two modules rest on `OrderLemmas`: in a strict order of finitely
many indices every index has a place of its own, one more than the number of those
before it (`PlacesInOrder`), so a list arranged by the order is a permutation in that
order (`ArrangedInOrder`). Keeping some entries is arranging them by index
(`KeptInOrder`); sorting by priority is arranging by priority and index
(`SortedByPriority`). Defined so, by places and not by recursion over the list, both
can be reasoned about without induction.

*Assumptions on constants* say what the code's types say (limits are numbers or
`None`, lists are lists, priorities integers, a JSON value is not Python's `None`), what a bound must be
(natural numbers), and once what a caller must not ask: `Breadth > 0`, without
which LATS takes `max()` of nothing. The modules that `AgentsProofs`, `PoliciesProofs`
and `ServicesProofs` extend share no state; a theorem names the specification of one.

Model-checked only: `CallsEnd`, `Recovers`, `RequestsEnd` and `ChangeNoticed`, which are
liveness under fairness and so beyond this prover, though `CallsAreShort`,
`RequestNotLostHolds` and `ReloadsExclude` prove the safety they rest on; and the
meaning of a `when` block (`Holds` against `Says`, which `doc_every_key` compares), since
conditions nest and what a recursive operator computes is an induction over data. `PolicyCombinators`
alone holds recursive operators and no module with a theorem uses it.

## 5. Findings

Five statements of the documentation that the code does not keep, each with a run
that TLC refutes; `findings` in `PROJECT.json` has the lines.

* A tool call may end without any event (`doc_audited`).
* A stream that is abandoned is neither charged nor checked (`doc_stream_charged`).
* A resumption after a refused call repeats a call made before the checkpoint
  (`doc_resume`).
* A combinator in a `when` block makes the block's other keys count for nothing
  (`doc_every_key`).
* A rerun that makes fewer queries or calls than were recorded reports nothing (`doc_rerun`).

What else came to light, each in the model as the code has it:

* A rerun that repeats a run with a credentialed tool reports a divergence of the
  arguments, into which each call wrote its own token: `RerunExact` allows for that, and a
  test says "full replay matches original trajectory" (`tests/test_replay_rerun.py:62`).
* A policy file that validates may raise when it is loaded: `ValidFilesLoad` names the case.
* The built-in schema validator ignores `items` and `minItems`, which the path planner's
  schema uses (`tools/path_planner.py:31`), where its docstring
  (`tools/schema_validator.py:4-5`) says that it covers the native tools: `Covered`
  keeps `ValidatorsAgree` to schemas without such keywords.
* `call_async` asks for an approval of an unknown tool, where `call` denies it.
* A half-open breaker lets every caller through.
* A session that shares its broker may raise in its cleanup and lose its answer;
  `AnswerLostOnlyByRace` says that nothing else loses one.
* `read_secret` looks an entry up and then reads it: `clear_cache` in between is a
  `KeyError`.
* A composition of policies drops the masks of its members; the default of the
  engine is ALLOW, where `permissions/model.py:18` says DENY.
* A wrapper gives its agent the whole slice again on each call.
* `IntentRouter` returns no tools when nothing matches; its docstring
  (`tools/registry.py:97`) says all of them.
* Structured output: a field `list[str]` never parses; `Optional` is not seen
  through; `null` for a string is `"None"`; of a list in prose the first object is
  taken, and an object with a closing brace inside (a field that is an object, a list of
  objects, a text) is not found in prose; an infinite number for an `int`, and an integer
  too large for a `float`, leave `run_structured` as `OverflowError`.
* One torn line in the event store makes `get_all` and `since` raise from then on.
* A malformed section (a null, a text, a number) of a contract output raises out of
  the harness, and so does a vocabulary that mixes strings and numbers.
* The built-in schema validator accepts anything where a schema has no type, and
  a list of types is a `TypeError` that leaves the call.
* A pin holds neither capabilities nor risk, and is verified against the list the
  client holds, not against what the server would list.
* The frozen protocol's docstring (`core/frozen_protocol.py:62`) names a temperature
  and a model that are never compared.

## 6. Abstractions, and what is not modelled

* A caller's arguments are its idempotency key; texts are empty or not; a document
  carries its scores; a schema is its own hash (SHA-256 without collisions).
* UCB1 may prefer any child of a node, and the totals of the root are left out:
  the choice of what to simulate is then any, which covers the code's. Averages
  compare by integers.
* Lengths of delays (backoff, jitter) are left out; that they end is kept.
* What `RetryModelAdapter` assigns when a query ends is one step. A query between
  the assignments would overlap, and `StatsBelong` says nothing of those.
* `_next_id` of the MCP transport is read in one step and incremented in another;
  two increments at once do not lose one.
* A `tool_filter` is a set of names; a callable, which may return what it likes, is left out.
  A session resolves one registry; `CapabilityCatalog` may search several, in order.
* In a contract output a gate or an attestation is a table from paths to what stands there;
  the items of a list are not lists themselves. Keywords of a schema beyond type, enum,
  required, properties and additionalProperties are the kinds of value they reject.
* Capabilities of MCP tools and their risk levels are modelled name by name, as
  `risk_mapper.py` has them; no property depends on the names.
* Three ranks of clearance stand for the table of names.

Not modelled: the MCP HTTP transport (requests to posts, an id and a header);
model adapters (formats of two vendors); sinks, reports, HTTP server and command
line (formatting and I/O around what is modelled); tools and sandboxes (to the
environment a tool is any function); packs, scripts and examples (no part of the
package). Of partly modelled components: redaction and the filters of the event
store's query; the static secret providers; configuration files and context
compilation; obligation matrix, frozen protocol and repair loop, which are tables
and a loop over functions the caller supplies; `tools/metadata_policy.py`; the
wording of every message.

What would come next: the chokepoint over `RateLimiter` and `ApprovalStore` in place of its
own counts; a session under `server/app.py`'s timeouts.
