----------------------------- MODULE McpClient -----------------------------
(***************************************************************************)
(* mcp/client.py, mcp/stdio_transport.py and mcp/server.py: threads that   *)
(* share one MCPClient, its stdio transports one after another, and the    *)
(* server process at the other end of each.  Nothing is locked: a thread   *)
(* may take the id of another, read and drop its answer, and close or      *)
(* replace the transport under it.                                         *)
(*                                                                         *)
(* Transports are numbered in the order of their creation, each with a     *)
(* process of its own.  The contents of calls are left out.                *)
(***************************************************************************)
EXTENDS Naturals, Sequences, FiniteSets

CONSTANTS
  Clients,         \* threads that share the MCPClient
  TransportBound,  \* bound: transports created
  RequestBound     \* bound: requests sent on a transport

ASSUME McpAssumption == TransportBound \in Nat /\ RequestBound \in Nat \ {0}

Transports == 1 .. TransportBound
Methods == {"initialize", "tools/list", "tools/call", "ping"}

VARIABLES
  created,      \* number of transports created
  process,      \* process[g]: "none", "running", "exited" or "reaped" by close
  transport,    \* the client's _transport, 0 for None
  toolsOf,      \* the transport that the client's tools call, 0 before any
  nextId,       \* nextId[g]: _next_id
  toServer,     \* toServer[g]: stdin of the process
  toClient,     \* toClient[g]: its stdout
  mcpPc,        \* where each thread stands
  doing,        \* doing[u]: "connect", "reconnect", "close", "call", "ping", "none"
  using,        \* using[u]: the transport u is at
  method,       \* method[u]: of the request u makes
  requestId,    \* requestId[u]
  failed,       \* observed: transports whose handshake raised
  contended,    \* observed: two threads were closing or reconnecting at once
  sameId,       \* observed: two threads have had one id on one transport
  misled,       \* observed: threads that took an answer meant for another
  robbed        \* observed: waiting threads whose answer another has read

pipeVars == <<nextId, toServer, toClient>>
seenVars == <<failed, contended, sameId, misled, robbed>>
mcpVars == <<created, process, transport, toolsOf, pipeVars, mcpPc, doing, using,
             method, requestId, seenVars>>

At(u, pc) == mcpPc' = [mcpPc EXCEPT ![u] = pc]

(* The thread is back with its caller.                                       *)
Leave(u) ==
  /\ doing' = [doing EXCEPT ![u] = "none"]
  /\ using' = [using EXCEPT ![u] = 0]
  /\ requestId' = [requestId EXCEPT ![u] = 0]
  /\ method' = [method EXCEPT ![u] = "ping"]
  /\ At(u, "idle")

(* The threads that wait for a message that is now gone.                     *)
Robbed(g, message) ==
  {v \in Clients : /\ v = message.asker /\ mcpPc[v] = "wait"
                   /\ using[v] = g /\ requestId[v] = message.id}

-----------------------------------------------------------------------------
(* StdioMCPClient(...), _spawn: the request that follows is initialize.      *)
Spawn(u, what) ==
  /\ created < TransportBound
  /\ created' = created + 1
  /\ process' = [process EXCEPT ![created + 1] = "running"]
  /\ using' = [using EXCEPT ![u] = created + 1]
  /\ doing' = [doing EXCEPT ![u] = what]
  /\ method' = [method EXCEPT ![u] = "initialize"]
  /\ At(u, "request")

(* connect_stdio, when there is no client yet; Popen may raise.              *)
Connect(u) ==
  /\ mcpPc[u] = "idle"
  /\ toolsOf = 0 /\ \A v \in Clients : doing[v] = "none"
  /\ Spawn(u, "connect")
  /\ UNCHANGED <<transport, toolsOf, pipeVars, requestId, seenVars>>

(* MCPToolWrapper.execute of a tool that discover_tools has handed out, and  *)
(* health.  The tool stays with the transport it was discovered on.          *)
CallTool(u) ==
  /\ mcpPc[u] = "idle" /\ toolsOf # 0
  /\ \E g \in 1 .. toolsOf :
       /\ g \notin failed
       /\ using' = [using EXCEPT ![u] = g]
  /\ doing' = [doing EXCEPT ![u] = "call"]
  /\ method' = [method EXCEPT ![u] = "tools/call"]
  /\ At(u, "request")
  /\ UNCHANGED <<created, process, transport, toolsOf, pipeVars, requestId, seenVars>>

Ping(u) ==
  /\ mcpPc[u] = "idle" /\ transport # 0
  /\ process[transport] = "running"
  /\ using' = [using EXCEPT ![u] = transport]
  /\ doing' = [doing EXCEPT ![u] = "ping"]
  /\ method' = [method EXCEPT ![u] = "ping"]
  /\ At(u, "request")
  /\ UNCHANGED <<created, process, transport, toolsOf, pipeVars, requestId, seenVars>>

(* MCPClient.close and reconnect begin; reconnect raises without a transport.*)
BeginClose(u) ==
  /\ mcpPc[u] = "idle" /\ transport # 0
  /\ \E what \in {"close", "reconnect"} : doing' = [doing EXCEPT ![u] = what]
  /\ contended' = (contended \/ \E v \in Clients : doing[v] \in {"close", "reconnect"})
  /\ At(u, "closing")
  /\ UNCHANGED <<created, process, transport, toolsOf, pipeVars, using, method,
                 requestId, failed, sameId, misled, robbed>>

(* Mutant: reconnect leaves the old process to itself.                       *)
ClosedOnClose(u, g) ==
  IF doing[u] = "close" THEN [process EXCEPT ![g] = "reaped"] ELSE process

(* StdioMCPClient.close: terminate, or kill, and wait.                       *)
Closed(u, g) == [process EXCEPT ![g] = "reaped"]

(* transport.close(), if there is one by now.                                *)
CloseTransport(u) ==
  /\ mcpPc[u] = "closing"
  /\ IF transport = 0 THEN UNCHANGED <<process, pipeVars>>
     ELSE /\ process' = Closed(u, transport)
          /\ toServer' = [toServer EXCEPT ![transport] = <<>>]
          /\ toClient' = [toClient EXCEPT ![transport] = <<>>]
          /\ UNCHANGED nextId
  /\ At(u, "closed")
  /\ UNCHANGED <<created, transport, toolsOf, doing, using, method, requestId, seenVars>>

(* _transport = None; close returns and reconnect spawns, which may raise.   *)
EndClose(u) ==
  /\ mcpPc[u] = "closed"
  /\ transport' = 0
  /\ \/ doing[u] = "reconnect" /\ Spawn(u, "reconnect") /\ UNCHANGED requestId
     \/ Leave(u) /\ UNCHANGED <<created, process>>
  /\ UNCHANGED <<toolsOf, pipeVars, seenVars>>

-----------------------------------------------------------------------------
(* _send_request: request_id = self._next_id.                                *)
TakeId(u) ==
  /\ mcpPc[u] = "request"
  /\ process[using[u]] # "reaped"
  /\ nextId[using[u]] <= RequestBound
  /\ requestId' = [requestId EXCEPT ![u] = nextId[using[u]]]
  /\ sameId' = (sameId \/ \E v \in Clients \ {u} :
                  /\ mcpPc[v] \in {"write", "wait"}
                  /\ using[v] = using[u] /\ requestId[v] = nextId[using[u]])
  /\ At(u, "write")
  /\ UNCHANGED <<created, process, transport, toolsOf, pipeVars, doing, using, method,
                 failed, contended, misled, robbed>>

(* self._next_id += 1, and the message is written.                           *)
WriteRequest(u) ==
  LET g == using[u] IN
  /\ mcpPc[u] = "write"
  /\ process[g] = "running"
  /\ nextId' = [nextId EXCEPT ![g] = @ + 1]
  /\ toServer' = [toServer EXCEPT ![g] =
                    Append(@, [id |-> requestId[u], method |-> method[u], asker |-> u])]
  /\ At(u, "wait")
  /\ UNCHANGED <<created, process, transport, toolsOf, toClient, doing, using, method,
                 requestId, seenVars>>

(* What a message is to serve_as_mcp: a request is answered under its id, a  *)
(* notification is not.  A tool's AssertionError ends the server.            *)
Answers(request) ==
  {[id |-> request.id, asker |-> request.asker, ok |-> TRUE]}
  \cup IF request.method = "tools/call"
         THEN {[id |-> request.id, asker |-> request.asker, ok |-> FALSE]} ELSE {}

(* One turn of the server's loop.                                            *)
Serve(g) ==
  /\ process[g] = "running" /\ toServer[g] # <<>>
  /\ \E answer \in Answers(Head(toServer[g])) :
       toClient' = [toClient EXCEPT ![g] = Append(@, answer)]
  /\ toServer' = [toServer EXCEPT ![g] = Tail(@)]
  /\ UNCHANGED <<created, process, transport, toolsOf, nextId, mcpPc, doing, using,
                 method, requestId, seenVars>>

(* The process ends: an AssertionError, a line that is no object, a crash.   *)
Exit(g) ==
  /\ process[g] = "running"
  /\ process' = [process EXCEPT ![g] = "exited"]
  /\ toServer' = [toServer EXCEPT ![g] = <<>>]
  /\ UNCHANGED <<created, transport, toolsOf, nextId, toClient, mcpPc, doing, using,
                 method, requestId, seenVars>>

(* Mutant: the first message to arrive is taken for the answer.              *)
MatchesAny(u, message) == TRUE

(* response.get("id") == request_id.                                         *)
Matches(u, message) == message.id = requestId[u]

(* _read_message finds a message for someone else and drops it.              *)
DropMessage(u) ==
  LET g == using[u] IN
  /\ mcpPc[u] = "wait" /\ toClient[g] # <<>> /\ process[g] # "reaped"
  /\ ~Matches(u, Head(toClient[g]))
  /\ toClient' = [toClient EXCEPT ![g] = Tail(@)]
  /\ robbed' = robbed \cup (Robbed(g, Head(toClient[g])) \ {u})
  /\ UNCHANGED <<created, process, transport, toolsOf, nextId, toServer, mcpPc, doing,
                 using, method, requestId, failed, contended, sameId, misled>>

(* What follows an answer: the end of a call or a ping; after initialize the *)
(* notification and tools/list, which reconnect sends with _transport set;   *)
(* after tools/list the tools.                                               *)
AfterAnswer(u) ==
  IF method[u] = "initialize"
    THEN /\ method' = [method EXCEPT ![u] = "tools/list"]
         /\ transport' = IF doing[u] = "reconnect" THEN using[u] ELSE transport
         /\ At(u, "request")
         /\ UNCHANGED <<doing, using, requestId, toolsOf>>
    ELSE /\ transport' = IF doing[u] = "connect" THEN using[u] ELSE transport
         /\ toolsOf' = IF method[u] = "tools/list" THEN using[u] ELSE toolsOf
         /\ Leave(u)

(* _send_request returns the result.                                         *)
TakeAnswer(u) ==
  LET g == using[u] message == Head(toClient[g]) IN
  /\ mcpPc[u] = "wait" /\ toClient[g] # <<>> /\ process[g] # "reaped"
  /\ Matches(u, message)
  /\ message.ok
  /\ toClient' = [toClient EXCEPT ![g] = Tail(@)]
  /\ misled' = IF message.asker = u THEN misled ELSE misled \cup {u}
  /\ robbed' = (robbed \cup Robbed(g, message)) \ {u}
  /\ AfterAnswer(u)
  /\ UNCHANGED <<created, process, nextId, toServer, failed, contended, sameId>>

(* What an exception leaves behind: a new transport whose handshake failed   *)
(* belongs to nobody, except for reconnect's once it is _transport.  call    *)
(* returns an error result and ping False.                                   *)
Raise(u) ==
  /\ failed' = IF \/ doing[u] = "connect"
                  \/ doing[u] = "reconnect" /\ method[u] = "initialize"
                 THEN failed \cup {using[u]} ELSE failed
  /\ Leave(u)

(* The answer is a JSON-RPC error.                                           *)
TakeError(u) ==
  LET g == using[u] message == Head(toClient[g]) IN
  /\ mcpPc[u] = "wait" /\ toClient[g] # <<>> /\ process[g] # "reaped"
  /\ Matches(u, message)
  /\ ~message.ok
  /\ toClient' = [toClient EXCEPT ![g] = Tail(@)]
  /\ misled' = IF message.asker = u THEN misled ELSE misled \cup {u}
  /\ robbed' = (robbed \cup Robbed(g, message)) \ {u}
  /\ Raise(u)
  /\ UNCHANGED <<created, process, transport, toolsOf, nextId, toServer, contended,
                 sameId>>

(* Mutant: an empty line is read again.                                      *)
EndOverlooked(u) == FALSE

(* readline returns an empty string: the process has ended.                  *)
EndOfFile(u) ==
  mcpPc[u] = "wait" /\ process[using[u]] = "exited" /\ toClient[using[u]] = <<>>

(* Not initialised, broken pipe, end of file; or an answer that the          *)
(* handshake cannot use.                                                     *)
RequestRaises(u) ==
  LET g == using[u] IN
  /\ \/ mcpPc[u] \in {"request", "write", "wait"} /\ process[g] = "reaped"
     \/ mcpPc[u] = "write" /\ process[g] = "exited"
     \/ EndOfFile(u)
     \/ mcpPc[u] = "request" /\ method[u] = "tools/list"
  /\ robbed' = robbed \ {u}
  /\ Raise(u)
  /\ UNCHANGED <<created, process, transport, toolsOf, pipeVars, contended, sameId,
                 misled>>

McpInit ==
  /\ created = 0
  /\ process = [g \in Transports |-> "none"]
  /\ transport = 0 /\ toolsOf = 0
  /\ nextId = [g \in Transports |-> 1]
  /\ toServer = [g \in Transports |-> <<>>]
  /\ toClient = [g \in Transports |-> <<>>]
  /\ mcpPc = [u \in Clients |-> "idle"]
  /\ doing = [u \in Clients |-> "none"]
  /\ using = [u \in Clients |-> 0]
  /\ method = [u \in Clients |-> "ping"]
  /\ requestId = [u \in Clients |-> 0]
  /\ failed = {} /\ contended = FALSE /\ sameId = FALSE /\ misled = {} /\ robbed = {}

Begin(u) == Connect(u) \/ CallTool(u) \/ Ping(u) \/ BeginClose(u)

Proceed(u) ==
  \/ CloseTransport(u) \/ EndClose(u)
  \/ TakeId(u) \/ WriteRequest(u) \/ DropMessage(u) \/ TakeAnswer(u) \/ TakeError(u)
  \/ RequestRaises(u)

McpNext ==
  \/ \E u \in Clients : Begin(u) \/ Proceed(u)
  \/ \E g \in Transports : Serve(g) \/ Exit(g)

(* A thread inside an operation is scheduled, and a server that lives        *)
(* answers.                                                                  *)
McpFair ==
  /\ \A u \in Clients : WF_mcpVars(Proceed(u))
  /\ \A g \in Transports : WF_mcpVars(Serve(g))

McpSpec == McpInit /\ [][McpNext]_mcpVars /\ McpFair

-----------------------------------------------------------------------------
McpTypeOK ==
  /\ created \in 0 .. TransportBound
  /\ process \in [Transports -> {"none", "running", "exited", "reaped"}]
  /\ transport \in 0 .. TransportBound /\ toolsOf \in 0 .. TransportBound
  /\ nextId \in [Transports -> Nat]
  /\ mcpPc \in [Clients -> {"idle", "closing", "closed", "request", "write", "wait"}]
  /\ doing \in [Clients -> {"none", "connect", "reconnect", "close", "call", "ping"}]
  /\ using \in [Clients -> 0 .. TransportBound]
  /\ method \in [Clients -> Methods]
  /\ requestId \in [Clients -> Nat]
  /\ failed \subseteq Transports /\ contended \in BOOLEAN /\ sameId \in BOOLEAN
  /\ misled \subseteq Clients /\ robbed \subseteq Clients

(* A thread takes another's answer for its own only if the two have had the  *)
(* same id, which the unlocked counter lets happen: the id check keeps       *)
(* answers of other ids apart.  (_send_request, stdio_transport.py:96-115.)  *)
AnswersBelong == misled # {} => sameId

(* Processes that live and that no client or thread will ever close.         *)
Orphans ==
  {g \in Transports :
     /\ process[g] = "running"
     /\ transport # g
     /\ \A u \in Clients : doing[u] \in {"connect", "reconnect"} => using[u] # g}

(* A process is left behind only by a handshake that raised, or by two       *)
(* threads that close or reconnect at once.  (close, reconnect.)             *)
OrphanOnlyByFailure == \A g \in Orphans : g \in failed \/ contended

(* A request ends, with an answer or with an exception when the server is    *)
(* gone, unless another thread has read the answer.  (_send_request.)        *)
RequestsEnd ==
  \A u \in Clients : (mcpPc[u] = "wait") ~> (mcpPc[u] # "wait" \/ u \in robbed)

=============================================================================
