--------------------------- MODULE McpClientProofs ---------------------------
(***************************************************************************)
(* Theorems about McpClient, for any threads and bounds: whose answer a    *)
(* thread takes, which processes nobody closes, and that no request is     *)
(* lost.                                                                   *)
(***************************************************************************)
EXTENDS McpClient, SequenceTheorems, TLAPS

Message == [id : Nat, method : Methods, asker : Clients]
Answer == [id : Nat, asker : Clients, ok : BOOLEAN]

(* A thread at a request is at a transport.                                  *)
AtTransport == \A u \in Clients : mcpPc[u] \in {"request", "write", "wait"} => using[u] \in Transports

ThreadTypes == McpTypeOK /\ AtTransport

PipeTypes ==
  /\ toServer \in [Transports -> Seq(Message)]
  /\ toClient \in [Transports -> Seq(Answer)]

McpTypes == ThreadTypes /\ PipeTypes

-----------------------------------------------------------------------------
(* What the threads keep of the operations they are in.                      *)
Handling(pc, what, g, m, id) ==
  /\ pc \in [Clients -> {"idle", "closing", "closed", "request", "write", "wait"}]
  /\ what \in [Clients -> {"none", "connect", "reconnect", "close", "call", "ping"}]
  /\ g \in [Clients -> 0 .. TransportBound]
  /\ m \in [Clients -> Methods]
  /\ id \in [Clients -> Nat]

LEMMA InitTypes == McpInit => McpTypes
  <1>1. McpInit => ThreadTypes
    <2> SUFFICES ASSUME McpInit PROVE ThreadTypes
      OBVIOUS
    <2>1. 0 \in 0 .. TransportBound /\ 0 \in Nat /\ 1 \in Nat
      BY McpAssumption
    <2>2. /\ created \in 0 .. TransportBound
          /\ transport \in 0 .. TransportBound /\ toolsOf \in 0 .. TransportBound
          /\ process \in [Transports -> {"none", "running", "exited", "reaped"}]
          /\ nextId \in [Transports -> Nat]
      BY <2>1 DEF McpInit
    <2>3. Handling(mcpPc, doing, using, method, requestId)
      BY <2>1 DEF McpInit, Handling, Methods
    <2>4. /\ failed \subseteq Transports /\ contended \in BOOLEAN /\ sameId \in BOOLEAN
          /\ misled \subseteq Clients /\ robbed \subseteq Clients
      BY DEF McpInit
    <2>5. AtTransport
      BY DEF McpInit, AtTransport
    <2> QED
      BY <2>2, <2>3, <2>4, <2>5 DEF ThreadTypes, McpTypeOK, Handling
  <1>2. McpInit => PipeTypes
    BY DEF McpInit, PipeTypes
  <1> QED
    BY <1>1, <1>2 DEF McpTypes

(* What the actions that put a message into a pipe, or take one, do to it.   *)
LEMMA PipeUpdates ==
  ASSUME NEW S, NEW pipe \in [Transports -> Seq(S)], NEW g \in Transports
  PROVE  /\ \A m \in S : [pipe EXCEPT ![g] = Append(@, m)] \in [Transports -> Seq(S)]
         /\ [pipe EXCEPT ![g] = <<>>] \in [Transports -> Seq(S)]
         /\ pipe[g] # <<>> =>
              /\ Head(pipe[g]) \in S
              /\ [pipe EXCEPT ![g] = Tail(@)] \in [Transports -> Seq(S)]
  <1>1. pipe[g] \in Seq(S)
    OBVIOUS
  <1>2. \A m \in S : Append(pipe[g], m) \in Seq(S)
    BY <1>1
  <1>3. pipe[g] # <<>> => Head(pipe[g]) \in S /\ Tail(pipe[g]) \in Seq(S)
    BY <1>1
  <1>4. <<>> \in Seq(S)
    OBVIOUS
  <1> QED
    BY <1>2, <1>3, <1>4

(* A thread that leaves an operation has no request.                         *)
LEMMA LeaveTypes ==
  ASSUME ThreadTypes, NEW u \in Clients, Leave(u)
  PROVE  /\ Handling(mcpPc', doing', using', method', requestId')
         /\ AtTransport'
  <1>1. 0 \in 0 .. TransportBound /\ 0 \in Nat /\ "ping" \in Methods
    BY McpAssumption DEF Methods
  <1>2. Handling(mcpPc, doing, using, method, requestId)
    BY DEF ThreadTypes, McpTypeOK, Handling
  <1>3. Handling(mcpPc', doing', using', method', requestId')
    BY <1>1, <1>2 DEF Handling, Leave, At
  <1>4. AtTransport'
    BY <1>2 DEF ThreadTypes, AtTransport, Handling, Leave, At
  <1> QED
    BY <1>3, <1>4

LEMMA ThreadTypesStep == ThreadTypes /\ [McpNext]_mcpVars => ThreadTypes'
  <1> SUFFICES ASSUME ThreadTypes, [McpNext]_mcpVars PROVE ThreadTypes'
    OBVIOUS
  <1> USE McpAssumption DEF ThreadTypes, McpTypeOK, AtTransport, Transports
  <1>1. ASSUME NEW u \in Clients, Begin(u) PROVE ThreadTypes'
    <2>1. CASE Connect(u)
      BY <2>1 DEF Connect, Spawn, At, pipeVars, seenVars, Methods
    <2>2. CASE CallTool(u)
      BY <2>2 DEF CallTool, At, pipeVars, seenVars, Methods
    <2>3. CASE Ping(u)
      BY <2>3 DEF Ping, At, pipeVars, seenVars, Methods
    <2>4. CASE BeginClose(u)
      BY <2>4 DEF BeginClose, At, pipeVars, seenVars
    <2> QED
      BY <1>1, <2>1, <2>2, <2>3, <2>4 DEF Begin
  <1>2. ASSUME NEW u \in Clients, CloseTransport(u) PROVE ThreadTypes'
    BY <1>2 DEF CloseTransport, Closed, At, pipeVars, seenVars
  <1>3. ASSUME NEW u \in Clients, EndClose(u) PROVE ThreadTypes'
    <2>1. CASE Spawn(u, "reconnect") /\ UNCHANGED requestId
      BY <1>3, <2>1 DEF EndClose, Spawn, At, pipeVars, seenVars, Methods
    <2>2. CASE Leave(u) /\ UNCHANGED <<created, process>>
      BY <1>3, <2>2, LeaveTypes DEF EndClose, Handling, pipeVars, seenVars
    <2> QED
      BY <1>3, <2>1, <2>2 DEF EndClose
  <1>4. ASSUME NEW u \in Clients, TakeId(u) PROVE ThreadTypes'
    BY <1>4 DEF TakeId, At, pipeVars
  <1>5. ASSUME NEW u \in Clients, WriteRequest(u) PROVE ThreadTypes'
    BY <1>5 DEF WriteRequest, At, seenVars
  <1>6. ASSUME NEW g \in Transports, Serve(g) \/ Exit(g) PROVE ThreadTypes'
    BY <1>6 DEF Serve, Exit, seenVars
  <1>7. ASSUME NEW u \in Clients, DropMessage(u) PROVE ThreadTypes'
    BY <1>7 DEF DropMessage, Robbed
  <1>8. ASSUME NEW u \in Clients, TakeAnswer(u) PROVE ThreadTypes'
    <2>1. misled' \subseteq Clients /\ robbed' \subseteq Clients
      BY <1>8 DEF TakeAnswer, Robbed
    <2>2. AfterAnswer(u) /\ UNCHANGED <<created, process, nextId, failed, contended, sameId>>
      BY <1>8 DEF TakeAnswer
    <2>3. using[u] \in Transports
      BY <1>8 DEF TakeAnswer
    <2> QED
      <3>1. Handling(mcpPc', doing', using', method', requestId') /\ AtTransport'
        <4>1. CASE method[u] = "initialize"
          BY <2>2, <2>3, <4>1 DEF AfterAnswer, At, Methods, Handling
        <4>2. CASE method[u] # "initialize"
          BY <2>2, <4>2, LeaveTypes DEF AfterAnswer
        <4> QED
          BY <4>1, <4>2
      <3>2. transport' \in 0 .. TransportBound /\ toolsOf' \in 0 .. TransportBound
        BY <2>2 DEF AfterAnswer
      <3> QED
        BY <2>1, <2>2, <3>1, <3>2 DEF Handling
  <1>9. ASSUME NEW u \in Clients, TakeError(u) PROVE ThreadTypes'
    <2>1. misled' \subseteq Clients /\ robbed' \subseteq Clients
      BY <1>9 DEF TakeError, Robbed
    <2>2. /\ Raise(u)
          /\ UNCHANGED <<created, process, transport, toolsOf, nextId, contended, sameId>>
      BY <1>9 DEF TakeError
    <2>3. using[u] \in Transports
      BY <1>9 DEF TakeError
    <2> QED
      BY <2>1, <2>2, <2>3, LeaveTypes DEF Raise, Handling
  <1>10. ASSUME NEW u \in Clients, RequestRaises(u) PROVE ThreadTypes'
    <2>1. using[u] \in Transports
      BY <1>10 DEF RequestRaises, EndOfFile
    <2>2. /\ Raise(u) /\ robbed' = robbed \ {u}
          /\ UNCHANGED <<created, process, transport, toolsOf, nextId, contended, sameId, misled>>
      BY <1>10 DEF RequestRaises, pipeVars
    <2> QED
      BY <2>1, <2>2, LeaveTypes DEF Raise, Handling
  <1>11. CASE UNCHANGED mcpVars
    BY <1>11 DEF mcpVars, pipeVars, seenVars
  <1> QED
    BY <1>1, <1>2, <1>3, <1>4, <1>5, <1>6, <1>7, <1>8, <1>9, <1>10, <1>11
    DEF McpNext, Proceed

(* What a server answers to a request carries its id and asker.              *)
LEMMA AnswersTyped == ASSUME NEW request \in Message PROVE Answers(request) \subseteq Answer
  <1>1. request.id \in Nat /\ request.asker \in Clients
    BY DEF Message
  <1>2. \A ok \in BOOLEAN : [id |-> request.id, asker |-> request.asker, ok |-> ok] \in Answer
    BY <1>1 DEF Answer
  <1> QED
    BY <1>2 DEF Answers

(* The pipes are touched by a write, by the server and its end, by a reader  *)
(* and by close.                                                             *)
LEMMA PipeTypesStep == McpTypes /\ [McpNext]_mcpVars => PipeTypes'
  <1> SUFFICES ASSUME ThreadTypes, PipeTypes, [McpNext]_mcpVars PROVE PipeTypes'
    BY DEF McpTypes
  <1> USE DEF PipeTypes
  <1>1. AtTransport /\ transport \in 0 .. TransportBound /\ TransportBound \in Nat
    BY McpAssumption DEF ThreadTypes, McpTypeOK
  <1>2. ASSUME NEW u \in Clients, CloseTransport(u) PROVE PipeTypes'
    <2>1. CASE transport = 0
      BY <1>2, <2>1 DEF CloseTransport, pipeVars
    <2>2. CASE transport # 0
      <3>1. transport \in Transports
        BY <1>1, <2>2 DEF Transports
      <3>2. /\ toServer' = [toServer EXCEPT ![transport] = <<>>]
            /\ toClient' = [toClient EXCEPT ![transport] = <<>>]
        BY <1>2, <2>2 DEF CloseTransport
      <3> QED
        BY <3>1, <3>2, PipeUpdates
    <2> QED
      BY <2>1, <2>2
  <1>3. ASSUME NEW u \in Clients, WriteRequest(u) PROVE PipeTypes'
    <2> DEFINE message == [id |-> requestId[u], method |-> method[u], asker |-> u]
    <2>1. requestId[u] \in Nat /\ method[u] \in Methods
      BY DEF ThreadTypes, McpTypeOK
    <2>2. using[u] \in Transports /\ message \in Message
      BY <1>1, <1>3, <2>1 DEF WriteRequest, AtTransport, Message
    <2>3. /\ toServer' = [toServer EXCEPT ![using[u]] = Append(@, message)]
          /\ UNCHANGED toClient
      BY <1>3 DEF WriteRequest
    <2> QED
      BY <2>2, <2>3, PipeUpdates
  <1>4. ASSUME NEW g \in Transports, Serve(g) PROVE PipeTypes'
    <2>1. Head(toServer[g]) \in Message /\ toServer' \in [Transports -> Seq(Message)]
      BY <1>4, PipeUpdates DEF Serve
    <2>2. Answers(Head(toServer[g])) \subseteq Answer
      BY <2>1, AnswersTyped
    <2>3. PICK answer \in Answers(Head(toServer[g])) :
            toClient' = [toClient EXCEPT ![g] = Append(@, answer)]
      BY <1>4 DEF Serve
    <2> QED
      BY <2>1, <2>2, <2>3, PipeUpdates
  <1>5. ASSUME NEW g \in Transports, Exit(g) PROVE PipeTypes'
    BY <1>5, PipeUpdates DEF Exit
  <1>6. ASSUME NEW u \in Clients, DropMessage(u) \/ TakeAnswer(u) \/ TakeError(u)
        PROVE  PipeTypes'
    <2>1. /\ mcpPc[u] = "wait" /\ toClient[using[u]] # <<>>
          /\ toClient' = [toClient EXCEPT ![using[u]] = Tail(@)]
          /\ UNCHANGED toServer
      BY <1>6 DEF DropMessage, TakeAnswer, TakeError
    <2> QED
      BY <1>1, <2>1, PipeUpdates DEF AtTransport
  <1>7. ASSUME NEW u \in Clients, \/ Begin(u) \/ EndClose(u) \/ TakeId(u) \/ RequestRaises(u)
        PROVE  PipeTypes'
    BY <1>7 DEF Begin, Connect, CallTool, Ping, BeginClose, EndClose, TakeId, RequestRaises,
                pipeVars
  <1>8. CASE UNCHANGED mcpVars
    BY <1>8 DEF mcpVars, pipeVars
  <1> QED
    BY <1>2, <1>3, <1>4, <1>5, <1>6, <1>7, <1>8 DEF McpNext, Proceed

LEMMA TypesStep == McpTypes /\ [McpNext]_mcpVars => McpTypes'
  BY ThreadTypesStep, PipeTypesStep DEF McpTypes

(* The state is well typed, messages in the pipes included, and a thread at  *)
(* a request is at a transport that exists.                                  *)
THEOREM McpTypeCorrect == McpSpec => []McpTypes
  BY InitTypes, TypesStep, PTL DEF McpSpec

-----------------------------------------------------------------------------
(* While no two threads have had one id on one transport: a thread that has  *)
(* not written yet has the next id and is the only one, ids in use are       *)
(* smaller, and of those that wait only the asker has the id of a message.   *)
WritersApart ==
  \A u, v \in Clients :
    mcpPc[u] = "write" /\ mcpPc[v] = "write" /\ using[u] = using[v] => u = v

IdsInUse ==
  \A u \in Clients :
    /\ mcpPc[u] = "write" => requestId[u] = nextId[using[u]]
    /\ mcpPc[u] = "wait" => requestId[u] < nextId[using[u]]

Addressed(g, message) ==
  /\ message.id < nextId[g]
  /\ \A u \in Clients :
       mcpPc[u] = "wait" /\ using[u] = g /\ requestId[u] = message.id => message.asker = u

MessagesAddressed ==
  \A g \in Transports :
    \A message \in Range(toServer[g]) \cup Range(toClient[g]) : Addressed(g, message)

IdsInv == WritersApart /\ IdsInUse /\ MessagesAddressed

AnswerInv == McpTypes /\ (~sameId => IdsInv) /\ AnswersBelong

(* Reading and writing a pipe change its contents by one message.            *)
LEMMA PipeContents ==
  ASSUME NEW S, NEW s \in Seq(S)
  PROVE  /\ Range(s) \subseteq S /\ Range(<<>>) = {}
         /\ \A m \in S : Range(Append(s, m)) = Range(s) \cup {m}
         /\ s # <<>> => Head(s) \in Range(s) /\ Range(Tail(s)) \subseteq Range(s)
  <1>1. Len(s) \in Nat /\ DOMAIN s = 1 .. Len(s)
    OBVIOUS
  <1>2. Range(s) \subseteq S /\ Range(<<>>) = {}
    BY <1>1 DEF Range
  <1>3. ASSUME NEW m \in S PROVE Range(Append(s, m)) = Range(s) \cup {m}
    <2>1. /\ DOMAIN Append(s, m) = 1 .. Len(s) + 1
          /\ \A i \in 1 .. Len(s) : Append(s, m)[i] = s[i]
          /\ Append(s, m)[Len(s) + 1] = m
      BY <1>1
    <2> QED
      BY <1>1, <2>1 DEF Range
  <1>4. ASSUME s # <<>> PROVE Head(s) \in Range(s) /\ Range(Tail(s)) \subseteq Range(s)
    <2>1. /\ Head(s) = s[1] /\ 1 \in 1 .. Len(s)
          /\ DOMAIN Tail(s) = 1 .. Len(s) - 1
          /\ \A i \in 1 .. Len(s) - 1 : Tail(s)[i] = s[i + 1]
      BY <1>1, <1>4
    <2> QED
      BY <1>1, <2>1 DEF Range
  <1> QED
    BY <1>2, <1>3, <1>4

(* A step at which no thread begins to write or to wait, or changes what it  *)
(* writes or waits for, and no pipe gains a message.                         *)
LEMMA FewerInUse ==
  ASSUME IdsInv, nextId' = nextId,
         \A u \in Clients :
           mcpPc'[u] \in {"write", "wait"} =>
             mcpPc'[u] = mcpPc[u] /\ using'[u] = using[u] /\ requestId'[u] = requestId[u],
         \A g \in Transports :
           Range(toServer'[g]) \cup Range(toClient'[g]) \subseteq
             Range(toServer[g]) \cup Range(toClient[g])
  PROVE  IdsInv'
  BY DEF IdsInv, WritersApart, IdsInUse, MessagesAddressed, Addressed

(* Two threads that have had one id are never forgotten.                     *)
LEMMA SameIdStays == ASSUME [McpNext]_mcpVars, sameId PROVE sameId'
  BY DEF McpNext, Begin, Proceed, Connect, CallTool, Ping, BeginClose, CloseTransport, EndClose,
         TakeId, WriteRequest, Serve, Exit, DropMessage, TakeAnswer, TakeError, RequestRaises,
         mcpVars, seenVars

(* A step that gives no id twice keeps the ids apart.                        *)
LEMMA IdsStep ==
  ASSUME McpTypes, ~sameId => IdsInv, [McpNext]_mcpVars, ~sameId'
  PROVE  IdsInv'
  <1> USE DEF McpTypes, PipeTypes
  <1>1. /\ mcpPc \in [Clients -> {"idle", "closing", "closed", "request", "write", "wait"}]
        /\ using \in [Clients -> 0 .. TransportBound]
        /\ requestId \in [Clients -> Nat] /\ nextId \in [Transports -> Nat]
        /\ transport \in 0 .. TransportBound /\ AtTransport
    BY DEF ThreadTypes, McpTypeOK
  <1>2. ~sameId /\ IdsInv
    BY SameIdStays
  <1>3. ASSUME NEW u \in Clients, Begin(u) PROVE IdsInv'
    BY <1>1, <1>2, <1>3, FewerInUse
    DEF Begin, Connect, Spawn, CallTool, Ping, BeginClose, At, pipeVars
  <1>4. ASSUME NEW u \in Clients, CloseTransport(u) PROVE IdsInv'
    <2>1. \A g \in Transports :
            Range(toServer'[g]) \cup Range(toClient'[g])
              \subseteq Range(toServer[g]) \cup Range(toClient[g])
      <3>1. CASE transport = 0
        BY <1>4, <3>1 DEF CloseTransport, pipeVars
      <3>2. CASE transport # 0
        <4>1. /\ toServer' = [toServer EXCEPT ![transport] = <<>>]
              /\ toClient' = [toClient EXCEPT ![transport] = <<>>]
          BY <1>4, <3>2 DEF CloseTransport
        <4>2. Range(<<>>) = {}
          BY DEF Range
        <4> QED
          BY <4>1, <4>2
      <3> QED
        BY <3>1, <3>2
    <2> QED
      BY <1>1, <1>2, <1>4, <2>1, FewerInUse DEF CloseTransport, At, pipeVars
  <1>5. ASSUME NEW u \in Clients, EndClose(u) PROVE IdsInv'
    BY <1>1, <1>2, <1>5, FewerInUse DEF EndClose, Spawn, Leave, At, pipeVars
  <1>6. ASSUME NEW u \in Clients, TakeId(u) PROVE IdsInv'
    <2>1. /\ using[u] \in Transports /\ mcpPc' = [mcpPc EXCEPT ![u] = "write"]
          /\ requestId' = [requestId EXCEPT ![u] = nextId[using[u]]]
          /\ UNCHANGED <<using, nextId, toServer, toClient>>
      BY <1>1, <1>6 DEF TakeId, At, pipeVars, AtTransport
    <2>2. \A v \in Clients \ {u} : mcpPc[v] = "write" => using[v] # using[u]
      BY <1>2, <1>6 DEF TakeId, IdsInv, IdsInUse
    <2>3. WritersApart'
      BY <1>1, <1>2, <2>1, <2>2 DEF IdsInv, WritersApart
    <2>4. IdsInUse'
      BY <1>1, <1>2, <2>1 DEF IdsInv, IdsInUse
    <2>5. MessagesAddressed'
      BY <1>1, <1>2, <2>1 DEF IdsInv, MessagesAddressed, Addressed
    <2> QED
      BY <2>3, <2>4, <2>5 DEF IdsInv
  <1>7. ASSUME NEW u \in Clients, WriteRequest(u) PROVE IdsInv'
    <2> DEFINE h == using[u]
               written == [id |-> requestId[u], method |-> method[u], asker |-> u]
    <2>1. /\ h \in Transports /\ mcpPc[u] = "write" /\ requestId[u] = nextId[h]
          /\ mcpPc' = [mcpPc EXCEPT ![u] = "wait"]
          /\ nextId' = [nextId EXCEPT ![h] = @ + 1]
          /\ toServer' = [toServer EXCEPT ![h] = Append(@, written)]
          /\ UNCHANGED <<toClient, using, requestId>>
      BY <1>1, <1>2, <1>7 DEF WriteRequest, At, AtTransport, IdsInv, IdsInUse
    <2>2. method[u] \in Methods
      BY DEF ThreadTypes, McpTypeOK
    <2>3. written \in Message /\ written.id = nextId[h] /\ written.asker = u
      BY <1>1, <2>1, <2>2 DEF Message
    <2> HIDE DEF written
    <2>4. /\ nextId[h] \in Nat /\ nextId'[h] = nextId[h] + 1
          /\ \A g \in Transports \ {h} : nextId'[g] = nextId[g]
      BY <1>1, <2>1
    <2>5. WritersApart'
      BY <1>1, <1>2, <2>1 DEF IdsInv, WritersApart
    <2>6. IdsInUse'
      <3>1. ASSUME NEW v \in Clients, mcpPc'[v] = "write"
            PROVE  requestId'[v] = nextId'[using'[v]]
        <4>1. v # u /\ mcpPc[v] = "write" /\ using[v] # h
          BY <1>1, <1>2, <2>1, <3>1 DEF IdsInv, WritersApart
        <4>2. using[v] \in Transports \ {h}
          BY <1>1, <4>1 DEF AtTransport
        <4> QED
          BY <1>2, <2>1, <2>4, <4>1, <4>2 DEF IdsInv, IdsInUse
      <3>2. ASSUME NEW v \in Clients, mcpPc'[v] = "wait"
            PROVE  requestId'[v] < nextId'[using'[v]]
        <4>1. CASE v = u
          BY <2>1, <2>4, <4>1
        <4>2. CASE v # u
          <5>1. mcpPc[v] = "wait"
            BY <1>1, <2>1, <3>2, <4>2
          <5>2. using[v] \in Transports /\ requestId[v] < nextId[using[v]]
            BY <1>1, <1>2, <5>1 DEF AtTransport, IdsInv, IdsInUse
          <5>3. requestId[v] \in Nat /\ nextId[using[v]] \in Nat
            BY <1>1, <5>2
          <5> QED
            BY <2>1, <2>4, <5>2, <5>3
        <4> QED
          BY <4>1, <4>2
      <3> QED
        BY <3>1, <3>2 DEF IdsInUse
    <2>7. ASSUME NEW g \in Transports, NEW message \in Range(toServer'[g]) \cup Range(toClient'[g])
          PROVE  Addressed(g, message)'
      <3>1. toServer[g] \in Seq(Message) /\ toClient[g] \in Seq(Answer)
        OBVIOUS
      <3>2. CASE message \in Range(toServer[g]) \cup Range(toClient[g])
        <4>1. Addressed(g, message)
          BY <1>2, <3>2 DEF IdsInv, MessagesAddressed
        <4>2. message.id \in Nat
          <5>1. Range(toServer[g]) \subseteq Message /\ Range(toClient[g]) \subseteq Answer
            BY <3>1, PipeContents
          <5> QED
            BY <3>2, <5>1 DEF Message, Answer
        <4>3. message.id < nextId'[g]
          <5>1. message.id < nextId[g] /\ nextId[g] \in Nat
            BY <1>1, <4>1 DEF Addressed
          <5>2. nextId'[g] = nextId[g] \/ nextId'[g] = nextId[g] + 1
            BY <2>4
          <5> QED
            BY <4>2, <5>1, <5>2
        <4>4. g = h => requestId[u] # message.id
          BY <1>1, <2>1, <4>1, <4>2 DEF Addressed
        <4> QED
          BY <1>1, <2>1, <4>1, <4>3, <4>4 DEF Addressed
      <3>3. CASE g = h /\ message = written
        <4>1. \A v \in Clients \ {u} :
                mcpPc[v] = "wait" /\ using[v] = h => requestId[v] < nextId[h]
          BY <1>2 DEF IdsInv, IdsInUse
        <4> QED
          BY <1>1, <2>1, <2>3, <2>4, <3>3, <4>1 DEF Addressed
      <3>4. g = h => Range(toServer'[g]) = Range(toServer[g]) \cup {written}
        BY <2>1, <2>3, <3>1, PipeContents
      <3> QED
        BY <2>1, <3>2, <3>3, <3>4
    <2> QED
      BY <2>5, <2>6, <2>7 DEF IdsInv, MessagesAddressed
  <1>8. ASSUME NEW g \in Transports, Serve(g) PROVE IdsInv'
    <2>1. toServer[g] \in Seq(Message) /\ toClient[g] \in Seq(Answer) /\ toServer[g] # <<>>
      BY <1>8 DEF Serve
    <2> DEFINE request == Head(toServer[g])
    <2>2. PICK answer \in Answers(request) : toClient' = [toClient EXCEPT ![g] = Append(@, answer)]
      BY <1>8 DEF Serve
    <2>3. /\ toServer' = [toServer EXCEPT ![g] = Tail(@)]
          /\ UNCHANGED <<nextId, mcpPc, using, requestId>>
      BY <1>8 DEF Serve
    <2>4. request \in Range(toServer[g]) /\ request \in Message
      BY <2>1, PipeContents
    <2>5. answer \in Answer /\ answer.id = request.id /\ answer.asker = request.asker
      BY <2>2, <2>4, AnswersTyped DEF Answers
    <2> HIDE DEF request
    <2>6. /\ Range(toServer'[g]) \subseteq Range(toServer[g])
          /\ Range(toClient'[g]) = Range(toClient[g]) \cup {answer}
      BY <2>1, <2>2, <2>3, <2>5, PipeContents
    <2>7. Addressed(g, answer)
      BY <1>2, <2>4, <2>5 DEF IdsInv, MessagesAddressed, Addressed
    <2>8. \A h \in Transports :
            \A message \in Range(toServer'[h]) \cup Range(toClient'[h]) : Addressed(h, message)
      BY <1>2, <2>2, <2>3, <2>6, <2>7 DEF IdsInv, MessagesAddressed
    <2> QED
      BY <1>2, <2>3, <2>8 DEF IdsInv, WritersApart, IdsInUse, MessagesAddressed, Addressed
  <1>9. ASSUME NEW g \in Transports, Exit(g) PROVE IdsInv'
    <2>1. \A h \in Transports :
            Range(toServer'[h]) \cup Range(toClient'[h])
              \subseteq Range(toServer[h]) \cup Range(toClient[h])
      BY <1>9, PipeContents DEF Exit
    <2> QED
      BY <1>1, <1>2, <1>9, <2>1, FewerInUse DEF Exit
  <1>10. ASSUME NEW u \in Clients, DropMessage(u) \/ TakeAnswer(u) \/ TakeError(u)
         PROVE  IdsInv'
    <2>1. /\ mcpPc[u] = "wait" /\ toClient[using[u]] # <<>>
          /\ toClient' = [toClient EXCEPT ![using[u]] = Tail(@)]
          /\ UNCHANGED <<toServer, nextId>>
      BY <1>10 DEF DropMessage, TakeAnswer, TakeError
    <2>2. \A g \in Transports :
            Range(toServer'[g]) \cup Range(toClient'[g])
              \subseteq Range(toServer[g]) \cup Range(toClient[g])
      BY <1>1, <2>1, PipeContents DEF AtTransport
    <2>3. \A v \in Clients :
            mcpPc'[v] \in {"write", "wait"} =>
              mcpPc'[v] = mcpPc[v] /\ using'[v] = using[v] /\ requestId'[v] = requestId[v]
      BY <1>1, <1>10 DEF DropMessage, TakeAnswer, TakeError, AfterAnswer, Raise, Leave, At
    <2> QED
      BY <1>2, <2>1, <2>2, <2>3, FewerInUse
  <1>11. ASSUME NEW u \in Clients, RequestRaises(u) PROVE IdsInv'
    BY <1>1, <1>2, <1>11, FewerInUse DEF RequestRaises, Raise, Leave, At, pipeVars
  <1>12. CASE UNCHANGED mcpVars
    BY <1>1, <1>2, <1>12, FewerInUse DEF mcpVars, pipeVars
  <1> QED
    BY <1>3, <1>4, <1>5, <1>6, <1>7, <1>8, <1>9, <1>10, <1>11, <1>12 DEF McpNext, Proceed

(* Who is misled reads another's answer under its own id.                    *)
LEMMA MisledStep ==
  ASSUME McpTypes, ~sameId => IdsInv, [McpNext]_mcpVars, AnswersBelong
  PROVE  AnswersBelong'
  <1>1. sameId => sameId'
    BY SameIdStays
  <1>2. ASSUME NEW u \in Clients, TakeAnswer(u) \/ TakeError(u) PROVE AnswersBelong'
    <2>1. CASE sameId
      BY <1>1, <2>1 DEF AnswersBelong
    <2>2. CASE ~sameId
      <3> DEFINE g == using[u]
      <3>1. /\ mcpPc[u] = "wait" /\ toClient[g] # <<>> /\ Head(toClient[g]).id = requestId[u]
            /\ misled' = IF Head(toClient[g]).asker = u THEN misled ELSE misled \cup {u}
        BY <1>2 DEF TakeAnswer, TakeError, Matches
      <3>2. g \in Transports /\ toClient[g] \in Seq(Answer)
        BY <3>1 DEF McpTypes, ThreadTypes, PipeTypes, AtTransport
      <3>3. Head(toClient[g]) \in Range(toClient[g])
        BY <3>1, <3>2, PipeContents
      <3>4. Head(toClient[g]).asker = u
        BY <2>2, <3>1, <3>2, <3>3 DEF IdsInv, MessagesAddressed, Addressed
      <3> QED
        BY <1>1, <3>1, <3>4 DEF AnswersBelong
    <2> QED
      BY <2>1, <2>2
  <1>3. CASE UNCHANGED misled
    BY <1>1, <1>3 DEF AnswersBelong
  <1> QED
    BY <1>2, <1>3
    DEF McpNext, Begin, Proceed, Connect, CallTool, Ping, BeginClose, CloseTransport, EndClose,
        TakeId, WriteRequest, Serve, Exit, DropMessage, RequestRaises, mcpVars, seenVars

(* A thread takes another's answer for its own only when two have had one id *)
(* on one transport: for any number of threads, transports and requests,     *)
(* through deaths of servers, reconnections and closing under a request.     *)
THEOREM AnswersBelongHolds == McpSpec => []AnswersBelong
  <1>1. McpInit => AnswerInv
    <2>1. McpInit => IdsInv /\ AnswersBelong
      BY PipeContents DEF McpInit, IdsInv, WritersApart, IdsInUse, MessagesAddressed, AnswersBelong,
                          Range
    <2> QED
      BY <2>1, InitTypes DEF AnswerInv
  <1>2. AnswerInv /\ [McpNext]_mcpVars => AnswerInv'
    BY TypesStep, IdsStep, MisledStep DEF AnswerInv
  <1>3. AnswerInv => AnswersBelong
    BY DEF AnswerInv
  <1> QED
    BY <1>1, <1>2, <1>3, PTL DEF McpSpec

-----------------------------------------------------------------------------
(* Where a thread that connects, closes or reconnects stands.                *)
Requesting(u) == mcpPc[u] \in {"request", "write", "wait"}

StagesOK ==
  \A u \in Clients :
    /\ mcpPc[u] = "idle" <=> doing[u] = "none"
    /\ mcpPc[u] \in {"closing", "closed"} => doing[u] \in {"close", "reconnect"}
    /\ ~Requesting(u) => using[u] = 0
    /\ Requesting(u) => doing[u] # "close"
    /\ Requesting(u) /\ doing[u] \in {"connect", "reconnect"} =>
         method[u] \in {"initialize", "tools/list"}
    /\ doing[u] \in {"call", "ping"} => method[u] \in {"tools/call", "ping"}

Closes(u) == doing[u] \in {"close", "reconnect"}

(* A thread that connects is alone, and there is no transport yet.           *)
ConnectsAlone ==
  /\ toolsOf = 0 => transport = 0
  /\ \A u \in Clients :
       Closes(u) => toolsOf # 0
  /\ \A u \in Clients :
       doing[u] = "connect" =>
         /\ toolsOf = 0 /\ Requesting(u)
         /\ \A v \in Clients \ {u} : doing[v] = "none"

(* Unless two have been closing at once one thread at most is, and when it   *)
(* drops or replaces a transport that one is closed.                         *)
ClosesAlone ==
  /\ \A u, v \in Clients : Closes(u) /\ Closes(v) => u = v
  /\ \A u \in Clients :
       /\ mcpPc[u] = "closed" /\ transport # 0 => process[transport] = "reaped"
       /\ doing[u] = "reconnect" /\ Requesting(u) =>
            transport = IF method[u] = "initialize" THEN 0 ELSE using[u]

OrphanInv ==
  /\ McpTypes /\ StagesOK /\ ConnectsAlone
  /\ ~contended => ClosesAlone
  /\ OrphanOnlyByFailure

OrphanTypes ==
  /\ mcpPc \in [Clients -> {"idle", "closing", "closed", "request", "write", "wait"}]
  /\ doing \in [Clients -> {"none", "connect", "reconnect", "close", "call", "ping"}]
  /\ method \in [Clients -> Methods]
  /\ using \in [Clients -> 0 .. TransportBound]
  /\ process \in [Transports -> {"none", "running", "exited", "reaped"}]
  /\ transport \in 0 .. TransportBound /\ toolsOf \in 0 .. TransportBound
  /\ created \in 0 .. TransportBound
  /\ TransportBound \in Nat /\ AtTransport

LEMMA TypesGiven == McpTypes => OrphanTypes
  BY McpAssumption DEF McpTypes, ThreadTypes, McpTypeOK, OrphanTypes

(* What a thread does fits the point at which it stands.                     *)
LEMMA StagesStep ==
  ASSUME OrphanTypes, StagesOK, [McpNext]_mcpVars
  PROVE  StagesOK'
  <1> USE DEF OrphanTypes, StagesOK, Requesting
  <1>1. ASSUME NEW u \in Clients, Begin(u) PROVE StagesOK'
    <2>1. CASE Connect(u)
      BY <2>1 DEF Connect, Spawn, At
    <2>2. CASE CallTool(u)
      BY <2>2 DEF CallTool, At
    <2>3. CASE Ping(u)
      BY <2>3 DEF Ping, At
    <2>4. CASE BeginClose(u)
      BY <2>4 DEF BeginClose, At
    <2> QED
      BY <1>1, <2>1, <2>2, <2>3, <2>4 DEF Begin
  <1>2. ASSUME NEW u \in Clients, CloseTransport(u) PROVE StagesOK'
    BY <1>2 DEF CloseTransport, At
  <1>3. ASSUME NEW u \in Clients, EndClose(u) PROVE StagesOK'
    BY <1>3 DEF EndClose, Spawn, Leave, At
  <1>4. ASSUME NEW u \in Clients, TakeId(u) \/ WriteRequest(u) PROVE StagesOK'
    BY <1>4 DEF TakeId, WriteRequest, At
  <1>5. ASSUME NEW u \in Clients, TakeAnswer(u) PROVE StagesOK'
    <2>1. mcpPc[u] = "wait" /\ AfterAnswer(u)
      BY <1>5 DEF TakeAnswer
    <2> QED
      BY <2>1 DEF AfterAnswer, Leave, At
  <1>6. ASSUME NEW u \in Clients, TakeError(u) \/ RequestRaises(u) PROVE StagesOK'
    <2>1. Leave(u)
      BY <1>6 DEF TakeError, RequestRaises, Raise
    <2> QED
      BY <2>1 DEF Leave, At
  <1>7. CASE UNCHANGED <<mcpPc, doing, using, method>>
    BY <1>7
  <1> QED
    BY <1>1, <1>2, <1>3, <1>4, <1>5, <1>6, <1>7
    DEF McpNext, Proceed, Serve, Exit, DropMessage, mcpVars

(* A thread that connects is alone as long as it does.                       *)
LEMMA ConnectsStep ==
  ASSUME OrphanTypes, StagesOK, ConnectsAlone, [McpNext]_mcpVars
  PROVE  ConnectsAlone'
  <1> USE DEF OrphanTypes, ConnectsAlone, Requesting, Closes
  <1>1. ASSUME NEW u \in Clients, Begin(u) PROVE ConnectsAlone'
    <2>1. CASE Connect(u)
      BY <2>1 DEF Connect, Spawn, At, StagesOK
    <2>2. CASE CallTool(u)
      BY <2>2 DEF CallTool, At, StagesOK
    <2>3. CASE Ping(u)
      BY <2>3 DEF Ping, At, StagesOK
    <2>4. CASE BeginClose(u)
      BY <2>4 DEF BeginClose, At, StagesOK
    <2> QED
      BY <1>1, <2>1, <2>2, <2>3, <2>4 DEF Begin
  <1>2. ASSUME NEW u \in Clients, CloseTransport(u) PROVE ConnectsAlone'
    BY <1>2 DEF CloseTransport, At, StagesOK
  <1>3. ASSUME NEW u \in Clients, EndClose(u) PROVE ConnectsAlone'
    BY <1>3 DEF EndClose, Spawn, Leave, At, StagesOK
  <1>4. ASSUME NEW u \in Clients, TakeId(u) \/ WriteRequest(u) PROVE ConnectsAlone'
    BY <1>4 DEF TakeId, WriteRequest, At
  <1>5. ASSUME NEW u \in Clients, TakeAnswer(u) PROVE ConnectsAlone'
    <2>1. mcpPc[u] = "wait" /\ AfterAnswer(u) /\ using[u] # 0
      BY <1>5 DEF TakeAnswer, AtTransport, Transports
    <2>2. CASE method[u] = "initialize"
      BY <2>1, <2>2 DEF AfterAnswer, At
    <2>3. CASE method[u] # "initialize"
      BY <2>1, <2>3 DEF AfterAnswer, Leave, At, StagesOK
    <2> QED
      BY <2>2, <2>3
  <1>6. ASSUME NEW u \in Clients, TakeError(u) \/ RequestRaises(u) PROVE ConnectsAlone'
    <2>1. Leave(u) /\ UNCHANGED <<transport, toolsOf>>
      BY <1>6 DEF TakeError, RequestRaises, Raise
    <2> QED
      BY <2>1 DEF Leave, At
  <1>7. CASE UNCHANGED <<mcpPc, doing, transport, toolsOf>>
    BY <1>7
  <1> QED
    BY <1>1, <1>2, <1>3, <1>4, <1>5, <1>6, <1>7
    DEF McpNext, Proceed, Serve, Exit, DropMessage, mcpVars

(* Threads that have contended are never forgotten.                          *)
LEMMA ContendedStays == ASSUME [McpNext]_mcpVars, contended PROVE contended'
  BY DEF McpNext, Begin, Proceed, Connect, CallTool, Ping, BeginClose, CloseTransport, EndClose,
         TakeId, WriteRequest, Serve, Exit, DropMessage, TakeAnswer, TakeError, RequestRaises,
         mcpVars, seenVars

(* Without contention one thread at a time closes or replaces the transport. *)
LEMMA ClosesStep ==
  ASSUME OrphanTypes, StagesOK, ConnectsAlone, ClosesAlone, [McpNext]_mcpVars, ~contended'
  PROVE  ClosesAlone'
  <1> USE DEF OrphanTypes, ClosesAlone, Requesting, Closes
  <1>1. ASSUME NEW u \in Clients, Begin(u) PROVE ClosesAlone'
    <2>1. CASE Connect(u)
      BY <2>1 DEF Connect, Spawn, At, StagesOK
    <2>2. CASE CallTool(u)
      BY <2>2 DEF CallTool, At, StagesOK
    <2>3. CASE Ping(u)
      BY <2>3 DEF Ping, At, StagesOK
    <2>4. CASE BeginClose(u)
      <3>1. \A v \in Clients : ~Closes(v)
        BY <2>4 DEF BeginClose
      <3> QED
        BY <2>4, <3>1 DEF BeginClose, At, StagesOK
    <2> QED
      BY <1>1, <2>1, <2>2, <2>3, <2>4 DEF Begin
  <1>2. ASSUME NEW u \in Clients, CloseTransport(u) PROVE ClosesAlone'
    <2>1. transport # 0 => process'[transport] = "reaped"
      BY <1>2 DEF CloseTransport, Closed, Transports
    <2> QED
      BY <1>2, <2>1 DEF CloseTransport, At, StagesOK
  <1>3. ASSUME NEW u \in Clients, EndClose(u) PROVE ClosesAlone'
    BY <1>3 DEF EndClose, Spawn, Leave, At, StagesOK
  <1>4. ASSUME NEW u \in Clients, TakeId(u) \/ WriteRequest(u) PROVE ClosesAlone'
    BY <1>4 DEF TakeId, WriteRequest, At
  <1>5. ASSUME NEW u \in Clients, TakeAnswer(u) PROVE ClosesAlone'
    <2>1. mcpPc[u] = "wait" /\ AfterAnswer(u) /\ UNCHANGED process
      BY <1>5 DEF TakeAnswer
    <2>2. CASE method[u] = "initialize"
      BY <2>1, <2>2 DEF AfterAnswer, At, StagesOK
    <2>3. CASE method[u] # "initialize"
      BY <2>1, <2>3 DEF AfterAnswer, Leave, At, StagesOK, ConnectsAlone
    <2> QED
      BY <2>2, <2>3
  <1>6. ASSUME NEW u \in Clients, TakeError(u) \/ RequestRaises(u) PROVE ClosesAlone'
    <2>1. Leave(u) /\ UNCHANGED <<transport, process>>
      BY <1>6 DEF TakeError, RequestRaises, Raise
    <2> QED
      BY <2>1 DEF Leave, At
  <1>7. ASSUME NEW g \in Transports, Exit(g) PROVE ClosesAlone'
    BY <1>7 DEF Exit
  <1>8. CASE UNCHANGED <<mcpPc, doing, using, method, transport, process>>
    BY <1>8
  <1> QED
    BY <1>1, <1>2, <1>3, <1>4, <1>5, <1>6, <1>7, <1>8
    DEF McpNext, Proceed, Serve, DropMessage, mcpVars

(* A process that runs has somebody, unless its handshake has raised.        *)
Owned(g) ==
  \/ transport = g
  \/ \E u \in Clients : doing[u] \in {"connect", "reconnect"} /\ using[u] = g
  \/ g \in failed

(* A process that runs has an owner still, unless its handshake failed.      *)
LEMMA OwnedStep ==
  ASSUME OrphanTypes, StagesOK, ConnectsAlone, ClosesAlone, [McpNext]_mcpVars,
         NEW g \in Transports, process'[g] = "running",
         process[g] = "running" => Owned(g)
  PROVE  Owned(g)'
  <1> USE DEF OrphanTypes, Owned
  <1>1. ASSUME NEW u \in Clients, Begin(u) PROVE Owned(g)'
    <2>1. CASE Connect(u)
      BY <2>1 DEF Connect, Spawn, seenVars, StagesOK
    <2>2. CASE CallTool(u)
      BY <2>2 DEF CallTool, seenVars, StagesOK
    <2>3. CASE Ping(u)
      BY <2>3 DEF Ping, seenVars, StagesOK
    <2>4. CASE BeginClose(u)
      BY <2>4 DEF BeginClose, StagesOK
    <2> QED
      BY <1>1, <2>1, <2>2, <2>3, <2>4 DEF Begin
  <1>2. ASSUME NEW u \in Clients, CloseTransport(u) PROVE Owned(g)'
    BY <1>2 DEF CloseTransport, Closed, seenVars, Transports
  <1>3. ASSUME NEW u \in Clients, EndClose(u) PROVE Owned(g)'
    <2>1. using[u] # g /\ (process[g] = "running" => transport # g)
      <3>1. mcpPc[u] = "closed" /\ g # 0
        BY <1>3 DEF EndClose, Transports
      <3>2. using[u] = 0
        BY <3>1 DEF StagesOK, Requesting
      <3>3. transport # 0 => process[transport] = "reaped"
        BY <3>1 DEF ClosesAlone
      <3> QED
        BY <3>1, <3>2, <3>3
    <2>2. failed' = failed
      BY <1>3 DEF EndClose, seenVars
    <2> QED
      BY <1>3, <2>1, <2>2 DEF EndClose, Spawn, Leave
  <1>4. ASSUME NEW u \in Clients, TakeAnswer(u) PROVE Owned(g)'
    <2>1. mcpPc[u] = "wait" /\ AfterAnswer(u) /\ UNCHANGED <<process, failed>>
      BY <1>4 DEF TakeAnswer
    <2>2. CASE method[u] = "initialize"
      BY <2>1, <2>2 DEF AfterAnswer, ClosesAlone, Closes, Requesting, Transports
    <2>3. CASE method[u] # "initialize"
      <3>1. /\ doing' = [doing EXCEPT ![u] = "none"] /\ using' = [using EXCEPT ![u] = 0]
            /\ transport' = IF doing[u] = "connect" THEN using[u] ELSE transport
        BY <2>1, <2>3 DEF AfterAnswer, Leave
      <3>2. doing[u] = "connect" => transport = 0
        BY DEF ConnectsAlone
      <3>3. doing[u] = "reconnect" => transport = using[u]
        BY <2>1, <2>3 DEF ClosesAlone, Requesting
      <3>4. Owned(g) /\ g # 0
        BY <2>1 DEF Transports
      <3>5. CASE g = using[u] /\ doing[u] \in {"connect", "reconnect"}
        BY <3>1, <3>3, <3>5
      <3>6. CASE ~(g = using[u] /\ doing[u] \in {"connect", "reconnect"})
        BY <2>1, <3>1, <3>2, <3>4, <3>6
      <3> QED
        BY <3>5, <3>6
    <2> QED
      BY <2>2, <2>3
  <1>5. ASSUME NEW u \in Clients, TakeError(u) \/ RequestRaises(u) PROVE Owned(g)'
    <2>1. Requesting(u) /\ Raise(u) /\ UNCHANGED <<transport, process>>
      BY <1>5 DEF TakeError, RequestRaises, EndOfFile, Requesting
    <2> QED
      BY <2>1 DEF Raise, Leave, StagesOK, ClosesAlone, Closes
  <1>6. ASSUME NEW h \in Transports, Exit(h) PROVE Owned(g)'
    BY <1>6 DEF Exit, seenVars
  <1>7. CASE UNCHANGED <<doing, using, transport, process, failed>>
    BY <1>7
  <1> QED
    BY <1>1, <1>2, <1>3, <1>4, <1>5, <1>6, <1>7
    DEF McpNext, Proceed, TakeId, WriteRequest, Serve, DropMessage, mcpVars, seenVars

LEMMA OrphanStep == OrphanInv /\ [McpNext]_mcpVars => OrphanInv'
  <1> SUFFICES ASSUME OrphanInv, [McpNext]_mcpVars PROVE OrphanInv'
    OBVIOUS
  <1> USE DEF OrphanInv
  <1>1. OrphanTypes /\ McpTypes'
    BY TypesGiven, TypesStep
  <1>2. StagesOK' /\ ConnectsAlone'
    BY <1>1, StagesStep, ConnectsStep
  <1>3. ~contended' => ClosesAlone'
    BY <1>1, ContendedStays, ClosesStep
  <1>4. ASSUME ~contended', NEW g \in Orphans' PROVE g \in failed'
    <2>1. ~contended /\ ClosesAlone
      BY <1>4, ContendedStays
    <2>2. g \in Transports /\ process'[g] = "running"
      BY <1>4 DEF Orphans
    <2>3. process[g] = "running" => Owned(g)
      BY <2>1, <2>2 DEF OrphanOnlyByFailure, Orphans, Owned
    <2>4. Owned(g)'
      BY <1>1, <2>1, <2>2, <2>3, OwnedStep
    <2> QED
      BY <1>4, <2>4 DEF Orphans, Owned
  <1> QED
    BY <1>1, <1>2, <1>3, <1>4 DEF OrphanOnlyByFailure

(* A server process is left running with nobody to close it only after a     *)
(* handshake that raised or after two threads have been closing at once.     *)
THEOREM OrphanOnlyByFailureHolds == McpSpec => []OrphanOnlyByFailure
  <1>1. McpInit => OrphanInv
    <2> SUFFICES ASSUME McpInit PROVE OrphanInv
      OBVIOUS
    <2>1. StagesOK /\ ConnectsAlone /\ ClosesAlone
      BY DEF McpInit, StagesOK, ConnectsAlone, ClosesAlone, Requesting, Closes
    <2>2. OrphanOnlyByFailure
      BY DEF McpInit, OrphanOnlyByFailure, Orphans
    <2> QED
      BY <2>1, <2>2, InitTypes DEF OrphanInv
  <1>2. OrphanInv => OrphanOnlyByFailure
    BY DEF OrphanInv
  <1> QED
    BY <1>1, <1>2, OrphanStep, PTL DEF McpSpec

-----------------------------------------------------------------------------
(* No request is lost: the half of RequestsEnd that is safety.               *)

(* The request of a waiting thread, or the answer to it, is on its way.      *)
OnItsWay(u, message) == message.asker = u /\ message.id = requestId[u]

Coming(u) ==
  \E message \in Range(toServer[using[u]]) \cup Range(toClient[using[u]]) : OnItsWay(u, message)

(* While a thread waits, what it waits for is in a pipe of its transport,    *)
(* unless another thread has read it, the server has ended or somebody has   *)
(* closed the transport: then _read_message finds the end of the file or a   *)
(* pipe that is closed.                                                      *)
RequestNotLost ==
  \A u \in Clients :
    mcpPc[u] = "wait" => u \in robbed \/ process[using[u]] \in {"exited", "reaped"} \/ Coming(u)

(* Nothing is known of transports that have not been created.                *)
CreatedInv ==
  /\ transport <= created /\ toolsOf <= created
  /\ \A u \in Clients : using[u] <= created
  /\ \A g \in Transports : g > created => process[g] = "none"

LEMMA CreatedStep == ASSUME OrphanTypes, CreatedInv, [McpNext]_mcpVars PROVE CreatedInv'
  <1> USE DEF OrphanTypes, CreatedInv, Transports
  <1>1. ASSUME NEW u \in Clients, Begin(u) PROVE CreatedInv'
    <2>1. CASE Connect(u)
      BY <2>1 DEF Connect, Spawn
    <2>2. CASE CallTool(u)
      BY <2>2 DEF CallTool
    <2>3. CASE Ping(u) \/ BeginClose(u)
      BY <2>3 DEF Ping, BeginClose
    <2> QED
      BY <1>1, <2>1, <2>2, <2>3 DEF Begin
  <1>2. ASSUME NEW u \in Clients, CloseTransport(u) PROVE CreatedInv'
    BY <1>2 DEF CloseTransport, Closed
  <1>3. ASSUME NEW u \in Clients, EndClose(u) PROVE CreatedInv'
    <2>1. CASE Spawn(u, "reconnect")
      <3>1. transport' = 0 /\ toolsOf' = toolsOf
        BY <1>3 DEF EndClose
      <3> QED
        BY <2>1, <3>1 DEF Spawn
    <2>2. CASE Leave(u) /\ UNCHANGED <<created, process>>
      <3>1. transport' = 0 /\ toolsOf' = toolsOf /\ using' = [using EXCEPT ![u] = 0]
        BY <1>3, <2>2 DEF EndClose, Leave
      <3> QED
        BY <2>2, <3>1
    <2> QED
      BY <1>3, <2>1, <2>2 DEF EndClose
  <1>4. ASSUME NEW u \in Clients, TakeAnswer(u) PROVE CreatedInv'
    <2>1. AfterAnswer(u) /\ UNCHANGED <<created, process>>
      BY <1>4 DEF TakeAnswer
    <2> QED
      BY <2>1 DEF AfterAnswer, Leave
  <1>5. ASSUME NEW u \in Clients, TakeError(u) \/ RequestRaises(u) PROVE CreatedInv'
    <2>1. UNCHANGED <<created, process, transport, toolsOf>> /\ using' = [using EXCEPT ![u] = 0]
      BY <1>5 DEF TakeError, RequestRaises, Raise, Leave
    <2>2. created \in Nat /\ 0 <= created
      OBVIOUS
    <2> QED
      BY <2>1, <2>2
  <1>6. ASSUME NEW g \in Transports, Exit(g) PROVE CreatedInv'
    BY <1>6 DEF Exit
  <1>7. CASE UNCHANGED <<created, process, transport, toolsOf, using>>
    BY <1>7
  <1> QED
    BY <1>1, <1>2, <1>3, <1>4, <1>5, <1>6, <1>7
    DEF McpNext, Proceed, TakeId, WriteRequest, Serve, DropMessage, mcpVars

(* What reading takes out of a pipe is its head.                             *)
LEMMA RestOfPipe ==
  ASSUME NEW S, NEW s \in Seq(S), s # <<>>
  PROVE  Range(s) \subseteq Range(Tail(s)) \cup {Head(s)}
  <1>1. /\ Len(s) \in Nat /\ DOMAIN s = 1 .. Len(s) /\ Head(s) = s[1]
        /\ DOMAIN Tail(s) = 1 .. Len(s) - 1
        /\ \A i \in 1 .. Len(s) - 1 : Tail(s)[i] = s[i + 1]
    OBVIOUS
  <1>2. ASSUME NEW i \in 1 .. Len(s), i # 1 PROVE s[i] \in Range(Tail(s))
    <2>1. i - 1 \in 1 .. Len(s) - 1 /\ Tail(s)[i - 1] = s[i]
      BY <1>1, <1>2
    <2> QED
      BY <1>1, <2>1 DEF Range
  <1> QED
    BY <1>1, <1>2 DEF Range

Ended(g) == process[g] \in {"exited", "reaped"}

(* A process that has ended does not run again.                              *)
LEMMA EndedStays ==
  ASSUME OrphanTypes, CreatedInv, [McpNext]_mcpVars, NEW g \in Transports, Ended(g)
  PROVE  Ended(g)'
  <1> USE DEF OrphanTypes, CreatedInv, Transports, Ended
  <1>1. g <= created
    OBVIOUS
  <1>2. ASSUME NEW u \in Clients, Connect(u) \/ EndClose(u) PROVE Ended(g)'
    <2>1. process' = process \/ process' = [process EXCEPT ![created + 1] = "running"]
      BY <1>2 DEF Connect, EndClose, Spawn
    <2> QED
      BY <1>1, <2>1
  <1>3. ASSUME NEW u \in Clients, CloseTransport(u) PROVE Ended(g)'
    BY <1>3 DEF CloseTransport, Closed
  <1>4. ASSUME NEW h \in Transports, Exit(h) PROVE Ended(g)'
    BY <1>4 DEF Exit
  <1>5. CASE process' = process
    BY <1>5
  <1> QED
    BY <1>2, <1>3, <1>4, <1>5
    DEF McpNext, Begin, CallTool, Ping, BeginClose, Proceed, TakeId, WriteRequest, Serve,
        DropMessage, TakeAnswer, TakeError, RequestRaises, mcpVars

Sought(v) == v \in robbed \/ Ended(using[v]) \/ Coming(v)

(* Reading a pipe: the message is the reader's, or its asker's loss.         *)
LEMMA ReadNotLost ==
  ASSUME McpTypes, NEW u \in Clients, NEW v \in Clients, u # v,
         mcpPc[v] = "wait", Sought(v), toClient[using[u]] # <<>>, using[u] \in Transports,
         toClient' = [toClient EXCEPT ![using[u]] = Tail(@)], toServer' = toServer,
         using'[v] = using[v], requestId'[v] = requestId[v], process' = process,
         robbed \subseteq robbed' \cup {u},
         v \in Robbed(using[u], Head(toClient[using[u]])) => v \in robbed'
  PROVE  Sought(v)'
  <1>1. toClient \in [Transports -> Seq(Answer)] /\ using[v] \in Transports
    BY DEF McpTypes, PipeTypes, ThreadTypes, AtTransport
  <1>2. CASE v \in robbed \/ Ended(using[v])
    BY <1>2 DEF Sought, Ended
  <1>3. ASSUME NEW message \in Range(toServer[using[v]]), OnItsWay(v, message) PROVE Sought(v)'
    BY <1>3 DEF Sought, Coming, OnItsWay
  <1>4. ASSUME NEW message \in Range(toClient[using[v]]), OnItsWay(v, message) PROVE Sought(v)'
    <2>1. CASE using[v] # using[u]
      <3>1. toClient'[using[v]] = toClient[using[v]]
        BY <1>1, <2>1
      <3> QED
        BY <1>4, <3>1 DEF Sought, Coming, OnItsWay
    <2>2. CASE using[v] = using[u] /\ message # Head(toClient[using[u]])
      <3>1. toClient'[using[v]] = Tail(toClient[using[v]])
        BY <1>1, <2>2
      <3>2. message \in Range(toClient'[using[v]])
        BY <1>1, <1>4, <2>2, <3>1, RestOfPipe
      <3> QED
        BY <1>4, <3>2 DEF Sought, Coming, OnItsWay
    <2>3. CASE using[v] = using[u] /\ message = Head(toClient[using[u]])
      <3>1. v \in Robbed(using[u], message)
        BY <1>4, <2>3 DEF Robbed, OnItsWay
      <3> QED
        BY <2>3, <3>1 DEF Sought
    <2> QED
      BY <2>1, <2>2, <2>3
  <1> QED
    BY <1>2, <1>3, <1>4 DEF Sought, Coming

(* A step that leaves the pipes as they are, and the waiting as it is.       *)
LEMMA StillSought ==
  ASSUME NEW v \in Clients, Sought(v), UNCHANGED <<toServer, toClient>>,
         using'[v] = using[v], requestId'[v] = requestId[v],
         v \in robbed => v \in robbed', Ended(using[v]) => process'[using[v]] \in {"exited", "reaped"}
  PROVE  Sought(v)'
  BY DEF Sought, Coming, OnItsWay, Ended

LEMMA RequestStep ==
  ASSUME McpTypes, CreatedInv, RequestNotLost, [McpNext]_mcpVars
  PROVE  RequestNotLost'
  <1> SUFFICES ASSUME NEW v \in Clients, mcpPc'[v] = "wait" PROVE Sought(v)'
    BY DEF RequestNotLost, Sought, Ended
  <1>o. OrphanTypes
    BY TypesGiven
  <1>t. /\ mcpPc \in [Clients -> {"idle", "closing", "closed", "request", "write", "wait"}]
        /\ using \in [Clients -> 0 .. TransportBound] /\ requestId \in [Clients -> Nat]
        /\ toServer \in [Transports -> Seq(Message)] /\ toClient \in [Transports -> Seq(Answer)]
        /\ process \in [Transports -> {"none", "running", "exited", "reaped"}]
        /\ transport \in 0 .. TransportBound /\ AtTransport /\ method \in [Clients -> Methods]
    BY DEF McpTypes, PipeTypes, ThreadTypes, McpTypeOK
  <1>p. mcpPc[v] = "wait" =>
          /\ Sought(v) /\ using[v] \in Transports
          /\ Ended(using[v]) => process'[using[v]] \in {"exited", "reaped"}
    <2> SUFFICES ASSUME mcpPc[v] = "wait"
                 PROVE  /\ Sought(v) /\ using[v] \in Transports
                        /\ Ended(using[v]) => process'[using[v]] \in {"exited", "reaped"}
      OBVIOUS
    <2>1. using[v] \in Transports
      BY <1>t DEF AtTransport
    <2>2. Sought(v)
      BY DEF RequestNotLost, Sought, Ended
    <2>3. ASSUME Ended(using[v]) PROVE process'[using[v]] \in {"exited", "reaped"}
      BY <1>o, <2>1, <2>3, EndedStays DEF Ended
    <2> QED
      BY <2>1, <2>2, <2>3 DEF Ended
  <1>1. ASSUME NEW u \in Clients, Begin(u) PROVE Sought(v)'
    <2>1. /\ u # v /\ mcpPc[v] = "wait" /\ using'[v] = using[v] /\ requestId'[v] = requestId[v]
          /\ UNCHANGED <<toServer, toClient, robbed>>
      BY <1>1, <1>t DEF Begin, Connect, Spawn, CallTool, Ping, BeginClose, At, pipeVars, seenVars
    <2> QED
      BY <1>p, <2>1, StillSought
  <1>2. ASSUME NEW u \in Clients, CloseTransport(u) PROVE Sought(v)'
    <2>1. /\ mcpPc[v] = "wait" /\ UNCHANGED <<using, requestId, robbed>>
      BY <1>2, <1>t DEF CloseTransport, At, seenVars
    <2>2. CASE transport = using[v] /\ transport # 0
      BY <1>2, <1>t, <2>2, <2>1 DEF CloseTransport, Closed, Sought, Ended, Transports
    <2>3. CASE transport # using[v] \/ transport = 0
      <3>1. toServer'[using[v]] = toServer[using[v]] /\ toClient'[using[v]] = toClient[using[v]]
        BY <1>2, <1>t, <1>p, <2>1, <2>3 DEF CloseTransport, pipeVars
      <3> QED
        BY <1>p, <2>1, <3>1 DEF Sought, Coming, OnItsWay, Ended
    <2> QED
      BY <2>2, <2>3
  <1>3. ASSUME NEW u \in Clients, EndClose(u) PROVE Sought(v)'
    <2>1. /\ u # v /\ mcpPc[v] = "wait" /\ using'[v] = using[v] /\ requestId'[v] = requestId[v]
          /\ UNCHANGED <<toServer, toClient, robbed>>
      BY <1>3, <1>t DEF EndClose, Spawn, Leave, At, pipeVars, seenVars
    <2> QED
      BY <1>p, <2>1, StillSought
  <1>4. ASSUME NEW u \in Clients, TakeId(u) PROVE Sought(v)'
    <2>1. /\ u # v /\ mcpPc[v] = "wait" /\ using' = using /\ requestId'[v] = requestId[v]
          /\ UNCHANGED <<toServer, toClient, robbed>>
      BY <1>4, <1>t DEF TakeId, At, pipeVars
    <2> QED
      BY <1>p, <2>1, StillSought
  <1>5. ASSUME NEW u \in Clients, WriteRequest(u) PROVE Sought(v)'
    <2>1. PICK m : m = [id |-> requestId[u], method |-> method[u], asker |-> u]
      OBVIOUS
    <2>2. /\ mcpPc[u] = "write" /\ UNCHANGED <<using, requestId, toClient, robbed, process>>
          /\ toServer' = [toServer EXCEPT ![using[u]] = Append(@, m)]
      BY <1>5, <2>1 DEF WriteRequest, seenVars
    <2>3. m \in Message /\ using[u] \in Transports
      BY <1>t, <2>1, <2>2 DEF Message, AtTransport
    <2>4. /\ toServer'[using[u]] = Append(toServer[using[u]], m)
          /\ Range(toServer'[using[u]]) = Range(toServer[using[u]]) \cup {m}
      BY <1>t, <2>2, <2>3, PipeContents
    <2>5. CASE v = u
      BY <2>1, <2>2, <2>4, <2>5 DEF Sought, Coming, OnItsWay
    <2>6. CASE v # u
      <3>1. mcpPc[v] = "wait"
        BY <1>5, <1>t, <2>6 DEF WriteRequest, At
      <3>2. Range(toServer[using[v]]) \subseteq Range(toServer'[using[v]])
        BY <1>p, <1>t, <2>2, <2>3, <2>4, <3>1
      <3> QED
        BY <1>p, <2>2, <3>1, <3>2 DEF Sought, Coming, OnItsWay, Ended
    <2> QED
      BY <2>5, <2>6
  <1>6. ASSUME NEW g \in Transports, Serve(g) PROVE Sought(v)'
    <2>1. /\ mcpPc[v] = "wait" /\ UNCHANGED <<using, requestId, robbed, process>>
          /\ toServer[g] # <<>> /\ toServer' = [toServer EXCEPT ![g] = Tail(@)]
      BY <1>6 DEF Serve, seenVars
    <2>2. PICK answer \in Answers(Head(toServer[g])) :
            toClient' = [toClient EXCEPT ![g] = Append(@, answer)]
      BY <1>6 DEF Serve
    <2>3. Head(toServer[g]) \in Message
      BY <1>t, <2>1
    <2>4. answer \in Answer
      BY <2>2, <2>3, AnswersTyped
    <2>5. answer.id = Head(toServer[g]).id /\ answer.asker = Head(toServer[g]).asker
      BY <2>2 DEF Answers
    <2>6. /\ Range(toClient'[g]) = Range(toClient[g]) \cup {answer}
          /\ Range(toServer[g]) \subseteq Range(toServer'[g]) \cup {Head(toServer[g])}
      BY <1>t, <2>1, <2>2, <2>4, PipeContents, RestOfPipe
    <2>7. CASE using[v] # g
      <3>1. toServer'[using[v]] = toServer[using[v]] /\ toClient'[using[v]] = toClient[using[v]]
        BY <1>p, <1>t, <2>1, <2>2, <2>7
      <3> QED
        BY <1>p, <2>1, <3>1 DEF Sought, Coming, OnItsWay, Ended
    <2>8. CASE using[v] = g
      <3>1. Coming(v) => Coming(v)'
        BY <2>1, <2>5, <2>6, <2>8 DEF Coming, OnItsWay
      <3> QED
        BY <1>p, <2>1, <3>1 DEF Sought, Ended
    <2> QED
      BY <2>7, <2>8
  <1>7. ASSUME NEW g \in Transports, Exit(g) PROVE Sought(v)'
    <2>1. /\ mcpPc[v] = "wait" /\ UNCHANGED <<using, requestId, robbed, toClient>>
          /\ toServer' = [toServer EXCEPT ![g] = <<>>]
          /\ process' = [process EXCEPT ![g] = "exited"]
      BY <1>7 DEF Exit, seenVars
    <2>2. CASE using[v] = g
      BY <1>t, <2>1, <2>2 DEF Sought, Ended
    <2>3. CASE using[v] # g
      <3>1. toServer'[using[v]] = toServer[using[v]]
        BY <1>p, <1>t, <2>1, <2>3
      <3> QED
        BY <1>p, <2>1, <3>1 DEF Sought, Coming, OnItsWay, Ended
    <2> QED
      BY <2>2, <2>3
  <1>8. ASSUME NEW u \in Clients, DropMessage(u) PROVE Sought(v)'
    <2>1. /\ mcpPc[u] = "wait" /\ toClient[using[u]] # <<>>
          /\ UNCHANGED <<mcpPc, using, requestId, process, toServer>>
          /\ toClient' = [toClient EXCEPT ![using[u]] = Tail(@)]
          /\ robbed' = robbed \cup (Robbed(using[u], Head(toClient[using[u]])) \ {u})
      BY <1>8 DEF DropMessage
    <2>2. mcpPc[v] = "wait" /\ using[u] \in Transports
      BY <1>t, <2>1 DEF AtTransport
    <2>3. CASE v # u
      BY <1>p, <2>1, <2>2, <2>3, ReadNotLost
    <2>4. CASE v = u
      <3>1. Head(toClient[using[u]]).id # requestId[u]
        BY <1>8 DEF DropMessage, Matches
      <3>2. /\ toClient'[using[u]] = Tail(toClient[using[u]])
            /\ Range(toClient[using[u]]) \subseteq Range(toClient'[using[u]]) \cup {Head(toClient[using[u]])}
        BY <1>t, <2>1, <2>2, RestOfPipe
      <3>3. Coming(v) => Coming(v)'
        BY <2>1, <2>4, <3>1, <3>2 DEF Coming, OnItsWay
      <3> QED
        BY <1>p, <2>1, <2>2, <3>3 DEF Sought, Ended
    <2> QED
      BY <2>3, <2>4
  <1>9. ASSUME NEW u \in Clients, TakeAnswer(u) \/ TakeError(u) PROVE Sought(v)'
    <2>1. /\ mcpPc[u] = "wait" /\ toClient[using[u]] # <<>>
          /\ UNCHANGED <<process, toServer>>
          /\ toClient' = [toClient EXCEPT ![using[u]] = Tail(@)]
          /\ robbed' = (robbed \cup Robbed(using[u], Head(toClient[using[u]]))) \ {u}
          /\ AfterAnswer(u) \/ Leave(u)
      BY <1>9 DEF TakeAnswer, TakeError, Raise
    <2>2. /\ v # u /\ mcpPc[v] = "wait" /\ using'[v] = using[v] /\ requestId'[v] = requestId[v]
      <3>1. CASE Leave(u)
        BY <1>t, <3>1 DEF Leave, At
      <3>2. CASE AfterAnswer(u)
        BY <1>t, <3>2 DEF AfterAnswer, Leave, At
      <3> QED
        BY <2>1, <3>1, <3>2
    <2>3. using[u] \in Transports
      BY <1>t, <2>1 DEF AtTransport
    <2> QED
      BY <1>p, <2>1, <2>2, <2>3, ReadNotLost
  <1>10. ASSUME NEW u \in Clients, RequestRaises(u) PROVE Sought(v)'
    <2>1. /\ Leave(u) /\ robbed' = robbed \ {u} /\ UNCHANGED <<toServer, toClient>>
      BY <1>10 DEF RequestRaises, Raise, pipeVars
    <2>2. v # u /\ mcpPc[v] = "wait" /\ using'[v] = using[v] /\ requestId'[v] = requestId[v]
      BY <1>t, <2>1 DEF Leave, At
    <2> QED
      BY <1>p, <2>1, <2>2, StillSought
  <1>11. CASE UNCHANGED mcpVars
    BY <1>11, <1>p, StillSought DEF mcpVars, pipeVars, seenVars
  <1> QED
    BY <1>1, <1>2, <1>3, <1>4, <1>5, <1>6, <1>7, <1>8, <1>9, <1>10, <1>11 DEF McpNext, Proceed

(* However many threads share a client without a lock, and through any       *)
(* number of reconnections, a request and its answer only ever disappear by  *)
(* another thread's reading, by a close or with the server.                  *)
THEOREM RequestNotLostHolds == McpSpec => []RequestNotLost
  <1> DEFINE Inv == McpTypes /\ CreatedInv /\ RequestNotLost
  <1>1. McpInit => Inv
    BY InitTypes, McpAssumption DEF McpInit, CreatedInv, RequestNotLost
  <1>2. Inv /\ [McpNext]_mcpVars => Inv'
    BY TypesStep, CreatedStep, RequestStep, TypesGiven
  <1> QED
    BY <1>1, <1>2, PTL DEF McpSpec

=============================================================================
