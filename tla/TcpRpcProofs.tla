---------------------------- MODULE TcpRpcProofs ----------------------------
(***************************************************************************)
(* Theorems about TcpRpc, for any number of requests, events, connections, *)
(* retries and calls of connect(), close() and listen(): what is sent has  *)
(* a reader, and the transport implements Rpc.                             *)
(***************************************************************************)
EXTENDS TcpRpc, TLAPS

\* The states of a send() or emit(), by name.
SendStates == {"idle", "connecting", "connected", "sent", "resolved", "rejected"}

\* Settling never makes a message "sent", and leaves none of S "sent".
LEMMA SettleAllEffect ==
  ASSUME NEW S, NEW how \in {"connected", "resolved", "rejected"}, TypeOK, SettleAll(S, how)
  PROVE  /\ sends' \in [Messages -> SendStates]
         /\ \A m \in Messages : sends'[m] = "sent" => sends[m] = "sent" /\ m \notin S
BY DEF SettleAll, Settled, TypeOK, SendStates

\* The `finally` of readLoop() keeps the invariant: nothing is left "sent".
LEMMA EndLoopEffect ==
  ASSUME NEW n \in Conns, IInv, EndLoop(n)
  PROVE  /\ loops' \subseteq Conns /\ pending' = {} /\ conn' = None
         /\ sends' \in [Messages -> SendStates]
         /\ \A r \in Requests : sends'[r] # "sent"
BY SettleAllEffect DEF EndLoop, IInv, TypeOK, SentIsAwaited, Messages

LEMMA InitInvariant == Init => IInv
<1>. SUFFICES ASSUME Init PROVE IInv
  OBVIOUS
<1>. USE MessageAssumption, BoundAssumption DEF MessageAssumption, BoundAssumption
<1>1. budget \in [{"connect", "close", "listen", "send"} -> Nat]
  BY DEF Init
<1>2. /\ toServer \in [Conns -> Seq(Messages)]
      /\ toClient \in [Conns -> Seq(FrameType)]
  <2>1. \A S : <<>> \in Seq(S)
    OBVIOUS
  <2>2. toServer = [n \in Conns |-> <<>>] /\ toClient = [n \in Conns |-> <<>>]
    BY DEF Init
  <2>. QED  BY <2>1, <2>2
<1>3. dial \in 0..Attempts
  BY DEF Init
<1>4. /\ sends \in [Messages -> SendStates]
      /\ via \in [Messages -> Conns \cup {None}]
      /\ served \in [Conns -> {"none", "backlog", "reading", "closed"} \cup Requests]
      /\ outcome \in [Messages -> {"none", "running", "returned", "threw"}]
  BY DEF Init, SendStates
<1>5. /\ conn = None /\ readLoop = None /\ listening = FALSE
      /\ loops = {} /\ pending = {} /\ closing = {} /\ writes = {}
      /\ open = {} /\ broken = {}
  BY DEF Init
<1>6. TypeOK
  BY <1>1, <1>2, <1>3, <1>4, <1>5 DEF TypeOK, SendStates
<1>7. \A r \in Requests : sends[r] = "idle"
  BY DEF Init, Messages
<1>. QED  BY <1>5, <1>6, <1>7 DEF IInv, SentIsAwaited, ConnIsRead

LEMMA ConnectKeeps ==
  ASSUME IInv, Connect
  PROVE  IInv'
<1>. USE MessageAssumption, BoundAssumption DEF MessageAssumption, BoundAssumption
<1>1. TypeOK'
  BY DEF Connect, Spend, server, wire, IInv, TypeOK, Messages
<1>2. SentIsAwaited'
  BY DEF Connect, server, wire, IInv, TypeOK, SentIsAwaited, ConnIsRead, Messages
<1>3. ConnIsRead'
  BY DEF Connect, server, wire, IInv, ConnIsRead
<1>. QED  BY <1>1, <1>2, <1>3 DEF IInv

LEMMA StartKeeps ==
  ASSUME IInv, NEW m \in Messages, Start(m)
  PROVE  IInv'
<1>. USE MessageAssumption, BoundAssumption DEF MessageAssumption, BoundAssumption
<1>1. TypeOK'
  <2>1. budget' \in [{"connect", "close", "listen", "send"} -> Nat]
    BY DEF Start, Spend, IInv, TypeOK
  <2>. QED  BY <2>1 DEF Start, server, wire, IInv, TypeOK, Messages
<1>2. SentIsAwaited'
  BY DEF Start, server, wire, IInv, TypeOK, SentIsAwaited, ConnIsRead, Messages
<1>3. ConnIsRead'
  BY DEF Start, server, wire, IInv, ConnIsRead
<1>. QED  BY <1>1, <1>2, <1>3 DEF IInv

LEMMA DialSucceedsKeeps ==
  ASSUME IInv, DialSucceeds
  PROVE  IInv'
<1>. USE MessageAssumption, BoundAssumption DEF MessageAssumption, BoundAssumption
<1>1. /\ sends' \in [Messages -> SendStates]
      /\ \A k \in Messages : sends'[k] = "sent" => sends[k] = "sent" /\ k \notin Connecting
  BY SettleAllEffect DEF DialSucceeds, IInv
<1>2. dial' \in 0..Attempts
  BY DEF DialSucceeds, IInv, TypeOK
<1>3. TypeOK'
  BY <1>1, <1>2 DEF DialSucceeds, client, server, wire, Messages, Unused, IInv, TypeOK, SendStates
<1>4. SentIsAwaited'
  BY <1>1 DEF DialSucceeds, client, server, wire, Messages, Unused, IInv, SentIsAwaited
<1>5. ConnIsRead'
  BY DEF DialSucceeds, client, server, wire, Messages, Unused, IInv, ConnIsRead
<1>. QED  BY <1>3, <1>4, <1>5 DEF IInv

LEMMA DialFailsKeeps ==
  ASSUME IInv, DialFails
  PROVE  IInv'
<1>. USE MessageAssumption, BoundAssumption DEF MessageAssumption, BoundAssumption
<1>1. /\ sends' \in [Messages -> SendStates]
      /\ \A m \in Messages : sends'[m] = "sent" => sends[m] = "sent"
  BY SettleAllEffect DEF DialFails, IInv, TypeOK, SendStates
<1>2. dial' \in 0..Attempts
  BY DEF DialFails, IInv, TypeOK
<1>3. TypeOK'
  BY <1>1, <1>2 DEF DialFails, client, server, wire, Messages, IInv, TypeOK, SendStates
<1>4. SentIsAwaited'
  BY <1>1 DEF DialFails, client, server, wire, Messages, IInv, SentIsAwaited
<1>5. ConnIsRead'
  BY DEF DialFails, client, server, wire, Messages, IInv, ConnIsRead
<1>. QED  BY <1>3, <1>4, <1>5 DEF IInv

LEMMA WriteKeeps ==
  ASSUME IInv, NEW m \in Messages, Write(m)
  PROVE  IInv'
<1>. USE MessageAssumption, BoundAssumption DEF MessageAssumption, BoundAssumption
<1>1. TypeOK'
  BY DEF Write, server, wire, IInv, TypeOK, Messages
<1>2. SentIsAwaited'
  BY DEF Write, server, wire, IInv, TypeOK, SentIsAwaited, ConnIsRead, Messages
<1>3. ConnIsRead'
  BY DEF Write, server, wire, IInv, ConnIsRead
<1>. QED  BY <1>1, <1>2, <1>3 DEF IInv

LEMMA WrittenKeeps ==
  ASSUME IInv, NEW m \in Messages, Written(m)
  PROVE  IInv'
<1>. USE MessageAssumption, BoundAssumption DEF MessageAssumption, BoundAssumption
<1>1. /\ sends' \in [Messages -> SendStates]
      /\ \A k \in Messages : sends'[k] = "sent" => sends[k] = "sent" /\ k \notin {m} \cap Events
  BY SettleAllEffect DEF Written, IInv
<1>2. toServer' \in [Conns -> Seq(Messages)]
  BY DEF Written, Up, IInv, TypeOK, Messages
<1>3. TypeOK'
  BY <1>1, <1>2 DEF Written, client, server, wire, Messages, IInv, TypeOK, SendStates
<1>4. SentIsAwaited'
  BY <1>1 DEF Written, client, server, wire, Messages, IInv, SentIsAwaited
<1>5. ConnIsRead'
  BY DEF Written, client, server, wire, Messages, IInv, ConnIsRead
<1>. QED  BY <1>3, <1>4, <1>5 DEF IInv

LEMMA WriteFailsKeeps ==
  ASSUME IInv, NEW m \in Messages, WriteFails(m)
  PROVE  IInv'
<1>. USE MessageAssumption, BoundAssumption DEF MessageAssumption, BoundAssumption
<1>1. TypeOK'
  BY SettleAllEffect DEF WriteFails, server, wire, IInv, TypeOK, SendStates, Messages
<1>2. SentIsAwaited'
  BY SettleAllEffect DEF WriteFails, server, wire, IInv, TypeOK, SentIsAwaited, ConnIsRead, Messages
<1>3. ConnIsRead'
  BY DEF WriteFails, server, wire, IInv, ConnIsRead
<1>. QED  BY <1>1, <1>2, <1>3 DEF IInv

LEMMA ReadResponseKeeps ==
  ASSUME IInv, NEW n \in Conns, ReadResponse(n)
  PROVE  IInv'
<1>. USE MessageAssumption, BoundAssumption DEF MessageAssumption, BoundAssumption
<1>. DEFINE f == Head(toClient[n])
<1>1. toClient' \in [Conns -> Seq(FrameType)]
  <2>1. toClient[n] \in Seq(FrameType) /\ toClient[n] # <<>>
    BY DEF ReadResponse, IInv, TypeOK
  <2>2. Tail(toClient[n]) \in Seq(FrameType)
    BY <2>1
  <2>. QED  BY <2>2 DEF ReadResponse, IInv, TypeOK
<1>2. CASE f.answer # "huge"
  <2>1. Deliver(f.id, f.answer) /\ UNCHANGED <<conn, loops>>
    BY <1>2 DEF ReadResponse
  <2>2. /\ sends' \in [Messages -> SendStates]
        /\ \A k \in Messages : sends'[k] = "sent" =>
             sends[k] = "sent" /\ k \notin ({f.id} \cap pending)
    BY <2>1, SettleAllEffect DEF Deliver, IInv
  <2>3. TypeOK'
    BY <1>1, <2>1, <2>2 DEF ReadResponse, Deliver, server, IInv, TypeOK, SendStates
  <2>4. SentIsAwaited'
    BY <2>1, <2>2 DEF ReadResponse, Deliver, IInv, SentIsAwaited, Messages
  <2>5. ConnIsRead'
    BY <2>1 DEF ReadResponse, IInv, ConnIsRead
  <2>. QED  BY <2>3, <2>4, <2>5 DEF IInv
<1>3. CASE f.answer = "huge"
  <2>1. /\ loops' \subseteq Conns /\ pending' = {} /\ conn' = None
        /\ sends' \in [Messages -> SendStates]
        /\ \A r \in Requests : sends'[r] # "sent"
    BY <1>3, EndLoopEffect DEF ReadResponse
  <2>2. TypeOK'
    BY <1>1, <2>1 DEF ReadResponse, server, IInv, TypeOK, SendStates
  <2>. QED  BY <2>1, <2>2 DEF IInv, SentIsAwaited, ConnIsRead
<1>. QED  BY <1>2, <1>3

LEMMA ReadEndKeeps ==
  ASSUME IInv, NEW n \in Conns, ReadEnd(n)
  PROVE  IInv'
<1>. USE MessageAssumption, BoundAssumption DEF MessageAssumption, BoundAssumption
<1>1. /\ loops' \subseteq Conns /\ pending' = {} /\ conn' = None
      /\ sends' \in [Messages -> SendStates]
      /\ \A r \in Requests : sends'[r] # "sent"
  BY EndLoopEffect DEF ReadEnd
<1>2. TypeOK'
  BY <1>1 DEF ReadEnd, server, wire, IInv, TypeOK, SendStates
<1>. QED  BY <1>1, <1>2 DEF IInv, SentIsAwaited, ConnIsRead

LEMMA CloseKeeps ==
  ASSUME IInv, Close
  PROVE  IInv'
<1>. USE MessageAssumption, BoundAssumption DEF MessageAssumption, BoundAssumption
<1>1. /\ sends' \in [Messages -> SendStates]
      /\ \A k \in Messages : sends'[k] = "sent" => sends[k] = "sent" /\ k \notin pending
  BY SettleAllEffect DEF Close, IInv
<1>2. budget' \in [{"connect", "close", "listen", "send"} -> Nat]
  BY DEF Close, Spend, IInv, TypeOK
<1>3. TypeOK'
  BY <1>1, <1>2 DEF Close, client, server, wire, Messages, IInv, TypeOK, SendStates
<1>4. SentIsAwaited'
  BY <1>1 DEF Close, client, server, wire, Messages, IInv, SentIsAwaited
<1>5. ConnIsRead'
  BY DEF Close, client, server, wire, Messages, IInv, ConnIsRead
<1>. QED  BY <1>3, <1>4, <1>5 DEF IInv

LEMMA ClosedKeeps ==
  ASSUME IInv, NEW n \in Conns, Closed(n)
  PROVE  IInv'
<1>. USE MessageAssumption, BoundAssumption DEF MessageAssumption, BoundAssumption
<1>1. TypeOK'
  BY DEF Closed, server, wire, IInv, TypeOK, Messages
<1>2. SentIsAwaited'
  BY DEF Closed, server, wire, IInv, TypeOK, SentIsAwaited, ConnIsRead, Messages
<1>3. ConnIsRead'
  BY DEF Closed, server, wire, IInv, ConnIsRead
<1>. QED  BY <1>1, <1>2, <1>3 DEF IInv

LEMMA ListenKeeps ==
  ASSUME IInv, Listen
  PROVE  IInv'
<1>. USE MessageAssumption, BoundAssumption DEF MessageAssumption, BoundAssumption
<1>1. TypeOK'
  BY DEF Listen, Spend, client, wire, IInv, TypeOK, Messages
<1>2. SentIsAwaited'
  BY DEF Listen, client, wire, IInv, TypeOK, SentIsAwaited, ConnIsRead, Messages
<1>3. ConnIsRead'
  BY DEF Listen, client, wire, IInv, ConnIsRead
<1>. QED  BY <1>1, <1>2, <1>3 DEF IInv

LEMMA AcceptKeeps ==
  ASSUME IInv, NEW n \in Conns, Accept(n)
  PROVE  IInv'
<1>. USE MessageAssumption, BoundAssumption DEF MessageAssumption, BoundAssumption
<1>1. TypeOK'
  BY DEF Accept, client, wire, IInv, TypeOK, Messages
<1>2. SentIsAwaited'
  BY DEF Accept, client, wire, IInv, TypeOK, SentIsAwaited, ConnIsRead, Messages
<1>3. ConnIsRead'
  BY DEF Accept, client, wire, IInv, ConnIsRead
<1>. QED  BY <1>1, <1>2, <1>3 DEF IInv

LEMMA CloseServerKeeps ==
  ASSUME IInv, CloseServer
  PROVE  IInv'
<1>. USE MessageAssumption, BoundAssumption DEF MessageAssumption, BoundAssumption
<1>1. TypeOK'
  BY DEF CloseServer, client, wire, IInv, TypeOK, Messages
<1>2. SentIsAwaited'
  BY DEF CloseServer, client, wire, IInv, TypeOK, SentIsAwaited, ConnIsRead, Messages
<1>3. ConnIsRead'
  BY DEF CloseServer, client, wire, IInv, ConnIsRead
<1>. QED  BY <1>1, <1>2, <1>3 DEF IInv

LEMMA ReadRequestKeeps ==
  ASSUME IInv, NEW n \in Conns, ReadRequest(n)
  PROVE  IInv'
<1>. USE MessageAssumption, BoundAssumption DEF MessageAssumption, BoundAssumption
<1>1. toServer[n] \in Seq(Messages) /\ toServer[n] # <<>>
  BY DEF ReadRequest, IInv, TypeOK
<1>2. Head(toServer[n]) \in Messages /\ Tail(toServer[n]) \in Seq(Messages)
  BY <1>1
<1>3. TypeOK'
  BY <1>2 DEF ReadRequest, client, IInv, TypeOK
<1>. QED  BY <1>3 DEF ReadRequest, client, IInv, SentIsAwaited, ConnIsRead

LEMMA RefuseRequestKeeps ==
  ASSUME IInv, NEW n \in Conns, RefuseRequest(n)
  PROVE  IInv'
<1>. USE MessageAssumption, BoundAssumption DEF MessageAssumption, BoundAssumption
<1>1. <<>> \in Seq(Messages)
  OBVIOUS
<1>2. TypeOK'
  BY <1>1 DEF RefuseRequest, client, IInv, TypeOK
<1>. QED  BY <1>2 DEF RefuseRequest, client, IInv, SentIsAwaited, ConnIsRead

LEMMA FinishEventKeeps ==
  ASSUME IInv, NEW e \in Events, FinishEvent(e)
  PROVE  IInv'
<1>. USE MessageAssumption, BoundAssumption DEF MessageAssumption, BoundAssumption
<1>1. TypeOK'
  BY DEF FinishEvent, client, wire, IInv, TypeOK, Messages
<1>2. SentIsAwaited'
  BY DEF FinishEvent, client, wire, IInv, TypeOK, SentIsAwaited, ConnIsRead, Messages
<1>3. ConnIsRead'
  BY DEF FinishEvent, client, wire, IInv, ConnIsRead
<1>. QED  BY <1>1, <1>2, <1>3 DEF IInv

LEMMA ReplyKeeps ==
  ASSUME IInv, NEW n \in Conns, Reply(n)
  PROVE  IInv'
<1>. USE MessageAssumption, BoundAssumption DEF MessageAssumption, BoundAssumption
<1>. DEFINE r == served[n]
<1>1. r \in Requests /\ r \in Messages
  BY DEF Reply, Messages
<1>2. PICK a \in Answers[r] :
        /\ outcome' = [outcome EXCEPT ![r] = IF a = "err" THEN "threw" ELSE "returned"]
        /\ toClient' = IF Up(n) /\ a # "unserializable"
                       THEN [toClient EXCEPT ![n] = Append(@, [id |-> r, answer |-> a])]
                       ELSE toClient
  BY DEF Reply
<1>3. a \in AnswerKinds
  BY <1>1
<1>4. a # "unserializable" => [id |-> r, answer |-> a] \in FrameType
  BY <1>1, <1>3 DEF AnswerKinds, FrameType
<1>5. toClient' \in [Conns -> Seq(FrameType)]
  BY <1>2, <1>4 DEF IInv, TypeOK
<1>6. outcome' \in [Messages -> {"none", "running", "returned", "threw"}]
  BY <1>1, <1>2 DEF IInv, TypeOK
<1>7. TypeOK'
  BY <1>5, <1>6 DEF Reply, client, IInv, TypeOK
<1>. QED  BY <1>7 DEF Reply, client, IInv, SentIsAwaited, ConnIsRead

LEMMA ReadEndOfRequestsKeeps ==
  ASSUME IInv, NEW n \in Conns, ReadEndOfRequests(n)
  PROVE  IInv'
<1>. USE MessageAssumption, BoundAssumption DEF MessageAssumption, BoundAssumption
<1>1. TypeOK'
  BY DEF ReadEndOfRequests, client, wire, IInv, TypeOK, Messages
<1>2. SentIsAwaited'
  BY DEF ReadEndOfRequests, client, wire, IInv, TypeOK, SentIsAwaited, ConnIsRead, Messages
<1>3. ConnIsRead'
  BY DEF ReadEndOfRequests, client, wire, IInv, ConnIsRead
<1>. QED  BY <1>1, <1>2, <1>3 DEF IInv

LEMMA ResetKeeps ==
  ASSUME IInv, NEW n \in Conns, Reset(n)
  PROVE  IInv'
<1>. USE MessageAssumption, BoundAssumption DEF MessageAssumption, BoundAssumption
<1>1. TypeOK'
  BY DEF Reset, client, server, IInv, TypeOK, Messages
<1>2. SentIsAwaited'
  BY DEF Reset, client, server, IInv, TypeOK, SentIsAwaited, ConnIsRead, Messages
<1>3. ConnIsRead'
  BY DEF Reset, client, server, IInv, ConnIsRead
<1>. QED  BY <1>1, <1>2, <1>3 DEF IInv

LEMMA StutterKeeps == IInv /\ UNCHANGED vars => IInv'
BY DEF IInv, TypeOK, SentIsAwaited, ConnIsRead, vars, client, server, wire, Messages

\* The invariant holds in every reachable state.
THEOREM Inductive == Spec => []IInv
<1>1. ASSUME IInv, [Next]_vars PROVE IInv'
  <2>1. CASE ClientStep
    BY <1>1, <2>1, DialSucceedsKeeps, DialFailsKeeps, WriteKeeps, WrittenKeeps,
       WriteFailsKeeps, ReadResponseKeeps, ReadEndKeeps, ClosedKeeps DEF ClientStep
  <2>2. CASE ServerStep
    BY <1>1, <2>2, FinishEventKeeps, AcceptKeeps, ReadRequestKeeps, RefuseRequestKeeps,
       ReplyKeeps, ReadEndOfRequestsKeeps DEF ServerStep
  <2>3. CASE Connect \/ Close \/ Listen \/ CloseServer
    BY <1>1, <2>3, ConnectKeeps, CloseKeeps, ListenKeeps, CloseServerKeeps
  <2>4. CASE (\E m \in Messages : Start(m)) \/ (\E n \in Conns : Reset(n))
    BY <1>1, <2>4, StartKeeps, ResetKeeps
  <2>5. CASE UNCHANGED vars
    BY <1>1, <2>5, StutterKeeps
  <2>. QED  BY <1>1, <2>1, <2>2, <2>3, <2>4, <2>5 DEF Next
<1>. QED  BY <1>1, InitInvariant, PTL DEF Spec

\* The variables of the client, the server and the wire keep their types.
THEOREM TypeCorrect == Spec => []TypeOK
BY Inductive, PTL DEF IInv

\* A request that is written and unsettled is in the pending map and its own
\* connection is still read: no interleaving of reconnects, closes, failing
\* writes and late responses strands a caller of send().
THEOREM AwaitedCorrect == Spec => []SentIsAwaited
BY Inductive, PTL DEF IInv

\* The client never writes to a connection it has closed or does not read.
THEOREM ConnCorrect == Spec => []ConnIsRead
BY Inductive, PTL DEF IInv

-----------------------------------------------------------------------------
(* A request is handled once.                                              *)

\* send() has not written it yet.
Unsent(r) == sends[r] \in {"idle", "connecting", "connected"}

\* It is on connection n's way to the server.
Queued(r, n) == \E i \in DOMAIN toServer[n] : toServer[n][i] = r

\* A request is in one place until its handler starts, one connection awaits its handler,
\* and a response with a value has a handler that has returned.
OnceInv ==
  /\ \A r \in Requests :
       /\ Unsent(r) => r \notin pending \cup writes
       /\ Unsent(r) \/ r \in writes => outcome[r] = "none" /\ \A n \in Conns : ~Queued(r, n)
  /\ \A n, k \in Conns : \A i \in DOMAIN toServer[n], j \in DOMAIN toServer[k] :
       toServer[n][i] \in Requests /\ toServer[n][i] = toServer[k][j] => n = k /\ i = j
  /\ \A r \in Requests, n \in Conns : Queued(r, n) => outcome[r] = "none"
  /\ \A n \in Conns : served[n] \in Requests =>
       outcome[served[n]] = "running" /\ \A k \in Conns : served[k] = served[n] => k = n
  /\ \A n \in Conns : \A i \in DOMAIN toClient[n] :
       toClient[n][i].answer = "ok" => outcome[toClient[n][i].id] = "returned"

\* What it says of the frames on their way.
LEMMA QueuedOnce ==
  ASSUME OnceInv, NEW n \in Conns, NEW k \in Conns, NEW i \in DOMAIN toServer[n],
         NEW j \in DOMAIN toServer[k], toServer[n][i] \in Requests,
         toServer[n][i] = toServer[k][j]
  PROVE  n = k /\ i = j
BY DEF OnceInv

\* What it says of a request that is on its way.
LEMMA QueuedIsNew ==
  ASSUME OnceInv, NEW r \in Requests, NEW n \in Conns, Queued(r, n)
  PROVE  outcome[r] = "none" /\ ~Unsent(r) /\ r \notin writes
BY DEF OnceInv

\* Nothing is sent at first.
LEMMA InitOnce == Init => OnceInv
<1> SUFFICES ASSUME Init PROVE OnceInv
  OBVIOUS
<1>1. \A n \in Conns : DOMAIN toServer[n] = {} /\ DOMAIN toClient[n] = {}
  BY DEF Init
<1>2. \A r \in Requests : outcome[r] = "none" /\ r \notin pending \cup writes
  BY DEF Init, Messages
<1>3. \A n \in Conns : served[n] \notin Requests
  BY MessageAssumption DEF Init
<1> QED BY <1>1, <1>2, <1>3 DEF OnceInv, Queued

\* A step that puts no message and no frame anywhere, and starts or ends no handler of a
\* request, keeps it.
LEMMA FewerKeeps ==
  ASSUME OnceInv, \A r \in Requests : Unsent(r)' => Unsent(r),
         writes' \subseteq writes, pending' \subseteq pending,
         \A r \in Requests : outcome'[r] = outcome[r],
         \A n \in Conns : toServer'[n] \in {toServer[n], <<>>},
         \A n \in Conns : \A i \in DOMAIN toClient'[n] :
           \E j \in DOMAIN toClient[n] : toClient'[n][i] = toClient[n][j],
         \A n \in Conns : \A i \in DOMAIN toClient[n] : toClient[n][i].id \in Requests,
         \A n \in Conns : served'[n] \in Requests => served'[n] = served[n]
  PROVE  OnceInv'
<1>1. \A n \in Conns : \A i \in DOMAIN toServer'[n] :
        i \in DOMAIN toServer[n] /\ toServer'[n][i] = toServer[n][i]
  OBVIOUS
<1>2. \A r \in Requests, n \in Conns : Queued(r, n)' => Queued(r, n)
  BY <1>1 DEF Queued
<1>3. \A r \in Requests :
        /\ Unsent(r)' => r \notin pending' \cup writes'
        /\ Unsent(r)' \/ r \in writes' => outcome'[r] = "none" /\ \A n \in Conns : ~Queued(r, n)'
  BY <1>2 DEF OnceInv
<1>4. \A n, k \in Conns : \A i \in DOMAIN toServer'[n], j \in DOMAIN toServer'[k] :
        toServer'[n][i] \in Requests /\ toServer'[n][i] = toServer'[k][j] => n = k /\ i = j
  BY <1>1 DEF OnceInv
<1>5. \A r \in Requests, n \in Conns : Queued(r, n)' => outcome'[r] = "none"
  BY <1>2 DEF OnceInv
<1>6. \A n \in Conns : served'[n] \in Requests =>
        outcome'[served'[n]] = "running" /\ \A k \in Conns : served'[k] = served'[n] => k = n
  BY DEF OnceInv
<1>7. ASSUME NEW n \in Conns, NEW i \in DOMAIN toClient'[n], toClient'[n][i].answer = "ok"
      PROVE  outcome'[toClient'[n][i].id] = "returned"
  <2>1. PICK j \in DOMAIN toClient[n] : toClient'[n][i] = toClient[n][j]
    OBVIOUS
  <2>2. toClient[n][j].id \in Requests /\ outcome[toClient[n][j].id] = "returned"
    BY <1>7, <2>1 DEF OnceInv
  <2> QED BY <2>1, <2>2
<1> QED BY <1>3, <1>4, <1>5, <1>6, <1>7 DEF OnceInv

\* The frames name requests, and the tail of a sequence of frames holds some of them.
LEMMA FramesTyped ==
  ASSUME TypeOK, NEW n \in Conns
  PROVE  /\ \A i \in DOMAIN toClient[n] : toClient[n][i].id \in Requests
         /\ toClient[n] # <<>> => \A i \in DOMAIN Tail(toClient[n]) :
              \E j \in DOMAIN toClient[n] : Tail(toClient[n])[i] = toClient[n][j]
<1>1. toClient[n] \in Seq(FrameType)
  BY DEF TypeOK
<1>2. ASSUME NEW i \in DOMAIN toClient[n]
      PROVE  toClient[n][i].id \in Requests
  <2>1. toClient[n][i] \in FrameType
    BY <1>1, <1>2
  <2> QED BY <2>1 DEF FrameType
<1>3. ASSUME toClient[n] # <<>>, NEW i \in DOMAIN Tail(toClient[n])
      PROVE  i + 1 \in DOMAIN toClient[n] /\ Tail(toClient[n])[i] = toClient[n][i + 1]
  BY <1>1, <1>3
<1> QED BY <1>2, <1>3

\* The steps that send nothing and run no handler of a request keep it.
LEMMA QuietStepsOnce ==
  ASSUME IInv, OnceInv,
         \/ Connect \/ Close \/ Listen \/ CloseServer \/ DialSucceeds \/ DialFails
         \/ (\E m \in Messages : Start(m) \/ WriteFails(m))
         \/ (\E n \in Conns : Reset(n) \/ ReadResponse(n) \/ ReadEnd(n) \/ Closed(n)
                              \/ Accept(n) \/ RefuseRequest(n) \/ ReadEndOfRequests(n))
         \/ (\E e \in Events : FinishEvent(e))
  PROVE  OnceInv'
<1>1. TypeOK /\ \A n \in Conns : \A i \in DOMAIN toClient[n] : toClient[n][i].id \in Requests
  BY FramesTyped DEF IInv
<1>2. ASSUME NEW S, NEW how \in {"connected", "resolved", "rejected"}, SettleAll(S, how),
             how = "connected" => S = Connecting
      PROVE  \A r \in Requests : Unsent(r)' => Unsent(r)
  BY <1>1, <1>2 DEF SettleAll, Settled, Unsent, Connecting, TypeOK, Messages
<1>3. /\ \A r \in Requests : Unsent(r)' => Unsent(r)
      /\ writes' \subseteq writes /\ pending' \subseteq pending
  <2>1. CASE UNCHANGED <<sends, writes, pending>>
    BY <2>1 DEF Unsent
  <2>2. CASE \E m \in Messages : Start(m)
    BY <1>1, <2>2 DEF Start, Unsent, TypeOK
  <2>3. CASE DialSucceeds
    BY <1>2, <2>3 DEF DialSucceeds
  <2>4. CASE DialFails
    BY <1>2, <2>1, <2>4 DEF DialFails
  <2>5. CASE Close
    BY <1>2, <2>5 DEF Close
  <2>6. CASE \E m \in Messages : WriteFails(m)
    BY <1>2, <2>6 DEF WriteFails
  <2>7. CASE \E n \in Conns : ReadEnd(n)
    BY <1>2, <2>7 DEF ReadEnd, EndLoop
  <2>8. CASE \E n \in Conns : ReadResponse(n)
    <3>1. writes' \subseteq writes /\ pending' \subseteq pending
      BY <2>8 DEF ReadResponse, EndLoop, Deliver
    <3>2. \E S : \E how \in {"resolved", "rejected"} : SettleAll(S, how)
      BY <2>8 DEF ReadResponse, EndLoop, Deliver
    <3> QED BY <1>2, <3>1, <3>2
  <2> QED
    BY <2>1, <2>2, <2>3, <2>4, <2>5, <2>6, <2>7, <2>8 DEF Connect, Listen, CloseServer, Reset,
       Closed, Accept, RefuseRequest, ReadEndOfRequests, FinishEvent, client
<1>4. \A r \in Requests : outcome'[r] = outcome[r]
  <2>1. CASE \E e \in Events : FinishEvent(e)
    BY <1>1, <2>1, MessageAssumption DEF FinishEvent, TypeOK
  <2>2. CASE UNCHANGED outcome
    BY <2>2
  <2> QED
    BY <2>1, <2>2 DEF Connect, Close, Listen, CloseServer, DialSucceeds, DialFails, Start,
       WriteFails, Reset, ReadResponse, ReadEnd, Closed, Accept, RefuseRequest, ReadEndOfRequests, server
<1>5. /\ \A n \in Conns : toServer'[n] \in {toServer[n], <<>>}
      /\ \A n \in Conns : \A i \in DOMAIN toClient'[n] :
           \E j \in DOMAIN toClient[n] : toClient'[n][i] = toClient[n][j]
  <2>1. CASE UNCHANGED <<toServer, toClient>>
    BY <2>1
  <2>2. CASE \E n \in Conns : Reset(n)
    BY <1>1, <2>2 DEF Reset, TypeOK
  <2>4. CASE \E n \in Conns : RefuseRequest(n)
    BY <1>1, <2>4 DEF RefuseRequest, TypeOK
  <2>3. CASE \E n \in Conns : ReadResponse(n)
    <3>1. PICK k \in Conns : ReadResponse(k)
      BY <2>3
    <3>2. toClient[k] # <<>> /\ toClient' = [toClient EXCEPT ![k] = Tail(@)] /\ UNCHANGED toServer
      BY <3>1 DEF ReadResponse
    <3>3. /\ toClient'[k] = Tail(toClient[k])
          /\ \A n \in Conns \ {k} : toClient'[n] = toClient[n]
      BY <1>1, <3>2 DEF TypeOK
    <3>4. \A i \in DOMAIN Tail(toClient[k]) :
            \E j \in DOMAIN toClient[k] : Tail(toClient[k])[i] = toClient[k][j]
      BY <1>1, <3>2, FramesTyped
    <3> QED BY <3>2, <3>3, <3>4
  <2> QED
    BY <2>1, <2>2, <2>3, <2>4 DEF Connect, Close, Listen, CloseServer, DialSucceeds, DialFails,
       Start, WriteFails, ReadEnd, Closed, Accept, ReadEndOfRequests, FinishEvent, wire
<1>6. \A n \in Conns : served'[n] \in Requests => served'[n] = served[n]
  <2>1. CASE UNCHANGED served
    BY <2>1
  <2>2. CASE \/ CloseServer \/ DialSucceeds
             \/ \E n \in Conns : Accept(n) \/ RefuseRequest(n) \/ ReadEndOfRequests(n)
    BY <1>1, <2>2, MessageAssumption DEF CloseServer, DialSucceeds, Accept, RefuseRequest,
       ReadEndOfRequests, TypeOK
  <2> QED
    BY <2>1, <2>2 DEF Connect, Close, Listen, DialFails, Start, WriteFails, Reset, ReadResponse,
       ReadEnd, Closed, FinishEvent, server
<1> QED BY <1>1, <1>3, <1>4, <1>5, <1>6, FewerKeeps

\* send() goes on: the request is no longer unsent, and not yet on the wire.
LEMMA WriteOnce ==
  ASSUME IInv, OnceInv, NEW m \in Messages, Write(m)
  PROVE  OnceInv'
<1>1. UNCHANGED <<served, outcome, toServer, toClient>> /\ sends[m] = "connected"
  BY DEF Write, server, wire
<1>2. /\ \A r \in Requests : Unsent(r)' => Unsent(r) /\ r # m
      /\ writes' \subseteq writes \cup {m} /\ pending' \subseteq pending \cup {m}
  BY DEF Write, IInv, TypeOK, Unsent, Messages
<1>3. Unsent(m)
  BY <1>1 DEF Unsent
<1>4. \A r \in Requests, n \in Conns : Queued(r, n)' = Queued(r, n)
  BY <1>1 DEF Queued
<1> QED BY <1>1, <1>2, <1>3, <1>4 DEF OnceInv

\* The frame is on its way: on one connection.
LEMMA WrittenOnce ==
  ASSUME IInv, OnceInv, NEW m \in Messages, Written(m)
  PROVE  OnceInv'
<1>1. m \in writes /\ writes' = writes \ {m} /\ UNCHANGED <<pending, served, outcome, toClient>>
  BY DEF Written, server
<1>2. \A r \in Requests : Unsent(r)' => Unsent(r)
  BY DEF Written, SettleAll, Settled, Unsent, IInv, TypeOK, Messages
<1>3. m \in Requests => ~Unsent(m) /\ outcome[m] = "none" /\ \A n \in Conns : ~Queued(m, n)
  BY <1>1 DEF OnceInv
<1>4. PICK c : /\ \A n \in Conns \ {c} : toServer'[n] = toServer[n]
               /\ c \in Conns => toServer'[c] \in {toServer[c], Append(toServer[c], m)}
  BY DEF Written, IInv, TypeOK
<1>5. \A n \in Conns : toServer[n] \in Seq(Messages)
  BY DEF IInv, TypeOK
<1>6. ASSUME NEW n \in Conns, NEW i \in DOMAIN toServer'[n]
      PROVE  \/ i \in DOMAIN toServer[n] /\ toServer'[n][i] = toServer[n][i]
             \/ n = c /\ i = Len(toServer[n]) + 1 /\ toServer'[n][i] = m
  BY <1>4, <1>5, <1>6
<1>7. \A r \in Requests, n \in Conns : Queued(r, n)' => Queued(r, n) \/ r = m
  BY <1>6 DEF Queued
<1>8. ASSUME NEW n \in Conns, NEW k \in Conns, NEW i \in DOMAIN toServer'[n],
             NEW j \in DOMAIN toServer'[k],
             toServer'[n][i] \in Requests, toServer'[n][i] = toServer'[k][j]
      PROVE  n = k /\ i = j
  <2>1. CASE toServer'[n][i] = m
    <3>1. \A l \in Conns : \A h \in DOMAIN toServer[l] : toServer[l][h] # m
      BY <1>3, <1>8, <2>1 DEF Queued
    <3>2. n = c /\ i = Len(toServer[n]) + 1 /\ k = c /\ j = Len(toServer[k]) + 1
      BY <1>6, <1>8, <2>1, <3>1
    <3> QED BY <3>2
  <2>2. CASE toServer'[n][i] # m
    <3>1. /\ i \in DOMAIN toServer[n] /\ toServer'[n][i] = toServer[n][i]
          /\ j \in DOMAIN toServer[k] /\ toServer'[k][j] = toServer[k][j]
      BY <1>6, <1>8, <2>2
    <3>2. toServer[n][i] \in Requests /\ toServer[n][i] = toServer[k][j]
      BY <1>8, <3>1
    <3> QED BY <3>1, <3>2, QueuedOnce
  <2> QED BY <2>1, <2>2
<1>9. \A r \in Requests :
        /\ Unsent(r)' => r \notin pending' \cup writes'
        /\ Unsent(r)' \/ r \in writes' => outcome'[r] = "none" /\ \A n \in Conns : ~Queued(r, n)'
  BY <1>1, <1>2, <1>3, <1>7 DEF OnceInv
<1>10. \A r \in Requests, n \in Conns : Queued(r, n)' => outcome'[r] = "none"
  BY <1>1, <1>3, <1>7 DEF OnceInv
<1> QED BY <1>1, <1>8, <1>9, <1>10 DEF OnceInv

\* The handler starts: the request is nowhere else.
LEMMA ReadRequestOnce ==
  ASSUME IInv, OnceInv, NEW c \in Conns, ReadRequest(c)
  PROVE  OnceInv'
<1>0. PICK m : m = Head(toServer[c])
  OBVIOUS
<1>1. toServer[c] \in Seq(Messages) /\ toServer[c] # <<>> /\ \A n \in Conns : toServer[n] \in Seq(Messages)
  BY DEF ReadRequest, IInv, TypeOK
<1>2. /\ UNCHANGED <<sends, pending, writes, toClient>>
      /\ outcome' = [outcome EXCEPT ![m] = "running"]
      /\ served' = [served EXCEPT ![c] = IF m \in Requests THEN m ELSE "reading"]
      /\ toServer' = [toServer EXCEPT ![c] = Tail(@)]
  BY <1>0 DEF ReadRequest, client
<1>3. m \in Messages /\ 1 \in DOMAIN toServer[c] /\ m = toServer[c][1]
  BY <1>0, <1>1
<1>4. \A i \in DOMAIN toServer'[c] :
        i + 1 \in DOMAIN toServer[c] /\ toServer'[c][i] = toServer[c][i + 1] /\ i \in Nat \ {0}
  BY <1>1, <1>2 DEF IInv, TypeOK
<1>5. \A n \in Conns \ {c} : toServer'[n] = toServer[n]
  BY <1>2 DEF IInv, TypeOK
<1>6. m \in Requests => Queued(m, c) /\ outcome[m] = "none" /\ ~Unsent(m) /\ m \notin writes
  <2>1. Queued(m, c)
    BY <1>3 DEF Queued
  <2> QED BY <2>1, QueuedIsNew
<1>7. \A r \in Requests, n \in Conns : Queued(r, n)' => Queued(r, n)
  BY <1>4, <1>5 DEF Queued
<1>8. m \in Requests => \A n \in Conns : ~Queued(m, n)'
  <2> SUFFICES ASSUME m \in Requests, NEW n \in Conns, NEW i \in DOMAIN toServer'[n],
                      toServer'[n][i] = m
               PROVE  FALSE
    BY DEF Queued
  <2>1. CASE n = c
    <3>1. i + 1 = 1
      BY <1>3, <1>4, <2>1, QueuedOnce
    <3> QED BY <1>4, <2>1, <3>1
  <2>2. CASE n # c
    BY <1>3, <1>5, <2>2, QueuedOnce
  <2> QED BY <2>1, <2>2
<1>9. \A r \in Requests \ {m} : outcome'[r] = outcome[r]
  BY <1>2 DEF IInv, TypeOK
<1>10. \A r \in Requests :
        /\ Unsent(r)' => r \notin pending' \cup writes'
        /\ Unsent(r)' \/ r \in writes' => outcome'[r] = "none" /\ \A n \in Conns : ~Queued(r, n)'
  BY <1>2, <1>6, <1>7, <1>9 DEF OnceInv, Unsent
<1>11. ASSUME NEW r \in Requests, NEW n \in Conns, Queued(r, n)'
       PROVE  outcome'[r] = "none"
  <2>1. r # m
    BY <1>8, <1>11
  <2>2. outcome[r] = "none"
    BY <1>7, <1>11, QueuedIsNew
  <2> QED BY <1>9, <2>1, <2>2
<1>12. ASSUME NEW n \in Conns, NEW k \in Conns, NEW i \in DOMAIN toServer'[n],
              NEW j \in DOMAIN toServer'[k],
              toServer'[n][i] \in Requests, toServer'[n][i] = toServer'[k][j]
       PROVE  n = k /\ i = j
  <2>1. PICK h \in DOMAIN toServer[n] :
          toServer'[n][i] = toServer[n][h] /\ h = IF n = c THEN i + 1 ELSE i
    BY <1>4, <1>5
  <2>2. PICK l \in DOMAIN toServer[k] :
          toServer'[k][j] = toServer[k][l] /\ l = IF k = c THEN j + 1 ELSE j
    BY <1>4, <1>5
  <2>3. n = k /\ h = l
    <3>1. toServer[n][h] \in Requests /\ toServer[n][h] = toServer[k][l]
      BY <1>12, <2>1, <2>2
    <3> QED BY <3>1, QueuedOnce
  <2>4. CASE n = c
    BY <1>4, <2>1, <2>2, <2>3, <2>4
  <2>5. CASE n # c
    BY <2>1, <2>2, <2>3, <2>5
  <2> QED BY <2>4, <2>5
<1>13. ASSUME NEW n \in Conns, served'[n] \in Requests
       PROVE  outcome'[served'[n]] = "running" /\ \A k \in Conns : served'[k] = served'[n] => k = n
  <2>1. m \in Requests => outcome'[m] = "running" /\ \A k \in Conns : served[k] # m
    BY <1>2, <1>3, <1>6 DEF OnceInv, IInv, TypeOK
  <2>2. /\ served'[c] = IF m \in Requests THEN m ELSE "reading"
        /\ \A k \in Conns \ {c} : served'[k] = served[k]
    BY <1>2 DEF IInv, TypeOK
  <2>3. CASE n = c
    BY <1>13, <2>1, <2>2, <2>3, MessageAssumption
  <2>4. CASE n # c
    <3>1. served[n] \in Requests /\ served[n] # m /\ served'[n] = served[n]
      BY <1>13, <2>1, <2>2, <2>4
    <3> QED BY <1>9, <2>2, <3>1, MessageAssumption DEF OnceInv
  <2> QED BY <2>3, <2>4
<1>14. ASSUME NEW n \in Conns, NEW i \in DOMAIN toClient'[n], toClient'[n][i].answer = "ok"
       PROVE  outcome'[toClient'[n][i].id] = "returned"
  <2>1. toClient[n][i].id \in Requests /\ outcome[toClient[n][i].id] = "returned"
    BY <1>2, <1>14, FramesTyped DEF OnceInv, IInv
  <2> QED BY <1>2, <1>6, <1>9, <2>1
<1> QED BY <1>10, <1>11, <1>12, <1>13, <1>14 DEF OnceInv

\* The handler returns or throws: its response says which.
LEMMA ReplyOnce ==
  ASSUME IInv, OnceInv, NEW c \in Conns, Reply(c)
  PROVE  OnceInv'
<1> DEFINE r == served[c]
<1>1. r \in Requests /\ outcome[r] = "running" /\ \A k \in Conns : served[k] = r => k = c
  BY DEF Reply, OnceInv
<1>2. PICK a \in Answers[r] :
        /\ outcome' = [outcome EXCEPT ![r] = IF a = "err" THEN "threw" ELSE "returned"]
        /\ toClient' = IF Up(c) /\ a # "unserializable"
                       THEN [toClient EXCEPT ![c] = Append(@, [id |-> r, answer |-> a])]
                       ELSE toClient
  BY DEF Reply
<1>3. /\ UNCHANGED <<sends, pending, writes, toServer>>
      /\ served' = [served EXCEPT ![c] = "reading"]
  BY DEF Reply, client
<1>4. \A q \in Requests \ {r} : outcome'[q] = outcome[q]
  BY <1>2 DEF IInv, TypeOK
<1>5. ~Unsent(r) /\ r \notin writes /\ \A n \in Conns : ~Queued(r, n)
  BY <1>1 DEF OnceInv
<1>6. \A q \in Requests, n \in Conns : Queued(q, n)' = Queued(q, n)
  BY <1>3 DEF Queued
<1>7. \A q \in Requests :
        /\ Unsent(q)' => q \notin pending' \cup writes'
        /\ Unsent(q)' \/ q \in writes' => outcome'[q] = "none" /\ \A n \in Conns : ~Queued(q, n)'
  BY <1>3, <1>4, <1>5, <1>6 DEF OnceInv, Unsent
<1>8. \A q \in Requests, n \in Conns : Queued(q, n)' => outcome'[q] = "none"
  BY <1>4, <1>5, <1>6 DEF OnceInv
<1>9. ASSUME NEW n \in Conns, served'[n] \in Requests
      PROVE  outcome'[served'[n]] = "running" /\ \A k \in Conns : served'[k] = served'[n] => k = n
  <2>1. served'[c] = "reading" /\ \A k \in Conns \ {c} : served'[k] = served[k]
    BY <1>3 DEF IInv, TypeOK
  <2>2. n # c /\ served'[n] = served[n] /\ served[n] # r
    BY <1>1, <1>9, <2>1, MessageAssumption
  <2> QED BY <1>4, <1>9, <2>1, <2>2, MessageAssumption DEF OnceInv
<1>10. ASSUME NEW n \in Conns, NEW i \in DOMAIN toClient'[n], toClient'[n][i].answer = "ok"
       PROVE  outcome'[toClient'[n][i].id] = "returned"
  <2>1. \/ i \in DOMAIN toClient[n] /\ toClient'[n][i] = toClient[n][i]
        \/ toClient'[n][i] = [id |-> r, answer |-> a]
    <3>1. toClient[n] \in Seq(FrameType) /\ toClient[c] \in Seq(FrameType)
      BY DEF IInv, TypeOK
    <3> QED BY <1>2, <3>1 DEF IInv, TypeOK
  <2>2. CASE i \in DOMAIN toClient[n] /\ toClient'[n][i] = toClient[n][i]
    <3>1. toClient[n][i].id \in Requests /\ outcome[toClient[n][i].id] = "returned"
      BY <1>10, <2>2, FramesTyped DEF OnceInv, IInv
    <3> QED BY <1>1, <1>4, <2>2, <3>1
  <2>3. CASE toClient'[n][i] = [id |-> r, answer |-> a]
    BY <1>1, <1>2, <1>10, <2>3 DEF IInv, TypeOK, Messages
  <2> QED BY <2>1, <2>2, <2>3
<1> QED BY <1>3, <1>7, <1>8, <1>9, <1>10 DEF OnceInv

\* Every step keeps it.
LEMMA NextOnce == IInv /\ OnceInv /\ [Next]_vars => OnceInv'
<1> SUFFICES ASSUME IInv, OnceInv, [Next]_vars PROVE OnceInv'
  OBVIOUS
<1>1. CASE UNCHANGED vars
  BY <1>1 DEF vars, client, server, wire, OnceInv, Unsent, Queued
<1>2. ASSUME NEW m \in Messages, Write(m) PROVE OnceInv'
  BY <1>2, WriteOnce
<1>3. ASSUME NEW m \in Messages, Written(m) PROVE OnceInv'
  BY <1>3, WrittenOnce
<1>4. ASSUME NEW n \in Conns, ReadRequest(n) PROVE OnceInv'
  BY <1>4, ReadRequestOnce
<1>5. ASSUME NEW n \in Conns, Reply(n) PROVE OnceInv'
  BY <1>5, ReplyOnce
<1>6. CASE \/ Connect \/ Close \/ Listen \/ CloseServer \/ DialSucceeds \/ DialFails
           \/ (\E m \in Messages : Start(m) \/ WriteFails(m))
           \/ (\E n \in Conns : Reset(n) \/ ReadResponse(n) \/ ReadEnd(n) \/ Closed(n)
                                \/ Accept(n) \/ RefuseRequest(n) \/ ReadEndOfRequests(n))
           \/ (\E e \in Events : FinishEvent(e))
  BY <1>6, QuietStepsOnce
<1> QED BY <1>1, <1>2, <1>3, <1>4, <1>5, <1>6 DEF Next, ClientStep, ServerStep

-----------------------------------------------------------------------------
(* The refinement.                                                         *)

\* Settling promises is a Reject of Rpc, or leaves what the callers see.
LEMMA SettleAllMaps ==
  ASSUME TypeOK, NEW S, NEW how \in {"connected", "rejected"}, SettleAll(S, how),
         how = "connected" => S = Connecting, UNCHANGED outcome,
         \A r \in S : sends[r] # "idle"
  PROVE  Promise!RpcNext
<1>1. PICK T \in SUBSET Requests :
        T = {r \in Requests : r \in S /\ ~Settled(r) /\ how = "rejected"}
  OBVIOUS
<1>2. Promise!Reject(T)
  BY <1>1 DEF Promise!Reject, SettleAll, Settled, Connecting, TypeOK, Phase, Messages
<1> QED BY <1>2 DEF Promise!RpcNext

\* A step that leaves what the caller of every request sees leaves what Rpc sees.
LEMMA Stutters ==
  ASSUME \A r \in Requests : Phase(r)' = Phase(r) /\ outcome'[r] = outcome[r]
  PROVE  UNCHANGED Promise!rpcVars
BY DEF Promise!rpcVars

\* The steps of a handler are those of Rpc.
LEMMA HandlerMaps ==
  ASSUME IInv, OnceInv,
         \/ \E n \in Conns : ReadRequest(n) \/ Reply(n)
         \/ \E e \in Events : FinishEvent(e)
  PROVE  [Promise!RpcNext]_(Promise!rpcVars)
<1>0. UNCHANGED sends /\ \A r \in Requests : Phase(r)' = Phase(r)
  BY DEF ReadRequest, Reply, FinishEvent, client, Phase
<1>1. ASSUME NEW n \in Conns, ReadRequest(n)
      PROVE  [Promise!RpcNext]_(Promise!rpcVars)
  <2>1. PICK m : m = Head(toServer[n])
    OBVIOUS
  <2>2. 1 \in DOMAIN toServer[n] /\ toServer[n][1] = m
    BY <1>1, <2>1 DEF ReadRequest, IInv, TypeOK
  <2>3. outcome' = [outcome EXCEPT ![m] = "running"]
    BY <1>1, <2>1 DEF ReadRequest
  <2>4. CASE m \in Requests
    <3>1. Queued(m, n)
      BY <2>2 DEF Queued
    <3>2. outcome[m] = "none" /\ ~Unsent(m)
      BY <2>4, <3>1, QueuedIsNew
    <3>3. Promise!Begin(m)
      BY <1>0, <2>3, <2>4, <3>2 DEF Promise!Begin, Phase, Unsent, IInv, TypeOK, Messages
    <3> QED BY <2>4, <3>3 DEF Promise!RpcNext
  <2>5. CASE m \notin Requests
    <3>1. \A r \in Requests : outcome'[r] = outcome[r]
      BY <2>3, <2>5 DEF IInv, TypeOK, Messages
    <3> QED BY <1>0, <3>1, Stutters
  <2> QED BY <2>4, <2>5
<1>2. ASSUME NEW n \in Conns, Reply(n)
      PROVE  [Promise!RpcNext]_(Promise!rpcVars)
  <2>1. PICK r : r = served[n]
    OBVIOUS
  <2>2. r \in Requests /\ outcome[r] = "running"
    BY <1>2, <2>1 DEF Reply, OnceInv
  <2>3. PICK how \in {"returned", "threw"} : outcome' = [outcome EXCEPT ![r] = how]
    BY <1>2, <2>1 DEF Reply
  <2>4. Promise!Finish(r)
    BY <1>0, <2>2, <2>3 DEF Promise!Finish, IInv, TypeOK, Messages
  <2> QED BY <2>2, <2>4 DEF Promise!RpcNext
<1>3. ASSUME NEW e \in Events, FinishEvent(e)
      PROVE  [Promise!RpcNext]_(Promise!rpcVars)
  <2>1. \A r \in Requests : outcome'[r] = outcome[r]
    BY <1>3, MessageAssumption DEF FinishEvent, IInv, TypeOK
  <2> QED BY <1>0, <2>1, Stutters
<1> QED BY <1>1, <1>2, <1>3

\* The steps that settle promises are those of Rpc.
LEMMA SettlingMaps ==
  ASSUME IInv, OnceInv,
         \/ DialSucceeds \/ DialFails \/ Close
         \/ (\E m \in Messages : Written(m) \/ WriteFails(m))
         \/ (\E n \in Conns : ReadResponse(n) \/ ReadEnd(n))
  PROVE  [Promise!RpcNext]_(Promise!rpcVars)
<1>1. UNCHANGED outcome /\ TypeOK
  BY DEF DialSucceeds, DialFails, Close, Written, WriteFails, ReadResponse, ReadEnd, server, IInv
<1>2. /\ \A r \in Connecting \cup pending : sends[r] # "idle"
      /\ \A r \in writes \cap Requests : sends[r] # "idle"
  BY <1>1 DEF OnceInv, TypeOK, Connecting, Unsent
<1>3. ASSUME UNCHANGED sends PROVE [Promise!RpcNext]_(Promise!rpcVars)
  BY <1>1, <1>3, Stutters DEF Phase
<1>4. ASSUME \/ SettleAll(Connecting, "connected") \/ SettleAll(Connecting, "rejected")
             \/ SettleAll(pending, "rejected")
      PROVE  [Promise!RpcNext]_(Promise!rpcVars)
  <2>1. CASE SettleAll(Connecting, "connected")
    BY <1>1, <1>2, <2>1, SettleAllMaps
  <2>2. CASE SettleAll(Connecting, "rejected")
    BY <1>1, <1>2, <2>2, SettleAllMaps
  <2>3. CASE SettleAll(pending, "rejected")
    BY <1>1, <1>2, <2>3, SettleAllMaps
  <2> QED BY <1>4, <2>1, <2>2, <2>3
<1>5. ASSUME NEW m \in Messages, Written(m)
      PROVE  [Promise!RpcNext]_(Promise!rpcVars)
  <2>1. \A r \in Requests : sends'[r] = sends[r]
    BY <1>1, <1>5, MessageAssumption DEF Written, SettleAll, TypeOK, Messages
  <2> QED BY <1>1, <2>1, Stutters DEF Phase
<1>6. ASSUME NEW m \in Messages, WriteFails(m)
      PROVE  [Promise!RpcNext]_(Promise!rpcVars)
  <2>1. m \in writes /\ SettleAll({m}, "rejected")
    BY <1>6 DEF WriteFails
  <2>2. CASE m \in Requests
    BY <1>1, <1>2, <2>1, <2>2, SettleAllMaps
  <2>3. CASE m \notin Requests
    <3>1. \A r \in Requests : sends'[r] = sends[r]
      BY <1>1, <2>1, <2>3 DEF SettleAll, TypeOK, Messages
    <3> QED BY <1>1, <3>1, Stutters DEF Phase
  <2> QED BY <2>2, <2>3
<1>7. ASSUME NEW n \in Conns, ReadResponse(n), Deliver(Head(toClient[n]).id, Head(toClient[n]).answer)
      PROVE  [Promise!RpcNext]_(Promise!rpcVars)
  <2>1. PICK f : f = Head(toClient[n])
    OBVIOUS
  <2>2. f \in FrameType /\ (f.answer = "ok" => outcome[f.id] = "returned")
    <3>1. 1 \in DOMAIN toClient[n] /\ f = toClient[n][1] /\ toClient[n] \in Seq(FrameType)
      BY <1>1, <1>7, <2>1 DEF ReadResponse, TypeOK
    <3> QED BY <3>1 DEF OnceInv
  <2>3. SettleAll({f.id} \cap pending, IF f.answer = "ok" THEN "resolved" ELSE "rejected")
    BY <1>7, <2>1 DEF Deliver
  <2>4. CASE f.answer # "ok"
    <3>1. SettleAll({f.id} \cap pending, "rejected")
      BY <2>3, <2>4
    <3> QED BY <1>1, <1>2, <3>1, SettleAllMaps
  <2>5. CASE f.answer = "ok" /\ f.id \in pending /\ ~Settled(f.id)
    <3>1. f.id \in Requests /\ outcome[f.id] = "returned"
      BY <2>2, <2>5 DEF FrameType
    <3>2. Phase(f.id) = "asked"
      BY <1>1, <1>2, <2>5 DEF Phase, Settled
    <3>3. sends' = [sends EXCEPT ![f.id] = "resolved"]
      BY <1>1, <2>3, <2>5 DEF SettleAll, Settled, TypeOK
    <3>4. Promise!Resolve(f.id)
      BY <1>1, <3>1, <3>2, <3>3 DEF Promise!Resolve, Phase, TypeOK, Messages
    <3> QED BY <3>1, <3>4 DEF Promise!RpcNext
  <2>6. CASE f.id \notin pending \/ Settled(f.id)
    <3>1. \A r \in Requests : sends'[r] = sends[r]
      BY <1>1, <2>3, <2>6 DEF SettleAll, Settled, TypeOK, Messages
    <3> QED BY <1>1, <3>1, Stutters DEF Phase
  <2> QED BY <2>4, <2>5, <2>6
<1>8. ASSUME NEW n \in Conns, ReadResponse(n)
      PROVE  [Promise!RpcNext]_(Promise!rpcVars)
  <2>1. CASE Deliver(Head(toClient[n]).id, Head(toClient[n]).answer)
    BY <1>7, <1>8, <2>1
  <2>2. CASE EndLoop(n)
    BY <1>4, <2>2 DEF EndLoop
  <2> QED BY <1>8, <2>1, <2>2 DEF ReadResponse
<1> QED
  BY <1>3, <1>4, <1>5, <1>6, <1>8 DEF DialSucceeds, DialFails, Close, ReadEnd, EndLoop

\* Every step of the transport is a step of Rpc or leaves what Rpc sees.
LEMMA StepMaps == IInv /\ OnceInv /\ [Next]_vars => [Promise!RpcNext]_(Promise!rpcVars)
<1> SUFFICES ASSUME IInv, OnceInv, [Next]_vars PROVE [Promise!RpcNext]_(Promise!rpcVars)
  OBVIOUS
<1>1. CASE \/ \E n \in Conns : ReadRequest(n) \/ Reply(n)
           \/ \E e \in Events : FinishEvent(e)
  BY <1>1, HandlerMaps
<1>2. CASE \/ DialSucceeds \/ DialFails \/ Close
           \/ (\E m \in Messages : Written(m) \/ WriteFails(m))
           \/ (\E n \in Conns : ReadResponse(n) \/ ReadEnd(n))
  BY <1>2, SettlingMaps
<1>3. ASSUME NEW m \in Messages, Start(m)
      PROVE  [Promise!RpcNext]_(Promise!rpcVars)
  <2>1. UNCHANGED outcome
    BY <1>3 DEF Start, server
  <2>2. CASE m \in Requests
    <3>1. Promise!Call(m)
      BY <1>3, <2>1, <2>2 DEF Start, Promise!Call, Phase, IInv, TypeOK, Messages
    <3> QED BY <2>2, <3>1 DEF Promise!RpcNext
  <2>3. CASE m \notin Requests
    <3>1. \A r \in Requests : sends'[r] = sends[r]
      BY <1>3, <2>3 DEF Start, IInv, TypeOK
    <3> QED BY <2>1, <3>1, Stutters DEF Phase
  <2> QED BY <2>2, <2>3
<1>4. ASSUME NEW m \in Messages, Write(m)
      PROVE  [Promise!RpcNext]_(Promise!rpcVars)
  <2>1. sends[m] = "connected" /\ UNCHANGED outcome
    BY <1>4 DEF Write, server
  <2>2. PICK now \in {"rejected", "sent"} : sends' = [sends EXCEPT ![m] = now]
    BY <1>4 DEF Write
  <2>3. CASE m \in Requests /\ now = "rejected"
    <3>1. Promise!Reject({m})
      BY <2>1, <2>2, <2>3 DEF Promise!Reject, Phase, IInv, TypeOK, Messages
    <3> QED BY <2>3, <3>1 DEF Promise!RpcNext
  <2>4. CASE ~(m \in Requests /\ now = "rejected")
    <3>1. \A r \in Requests : Phase(r)' = Phase(r)
      BY <2>1, <2>2, <2>4 DEF Phase, IInv, TypeOK, Messages
    <3> QED BY <2>1, <3>1, Stutters
  <2> QED BY <2>3, <2>4
<1>5. ASSUME UNCHANGED <<sends, outcome>>
      PROVE  [Promise!RpcNext]_(Promise!rpcVars)
  BY <1>5, Stutters DEF Phase
<1>6. CASE \/ Connect \/ Listen \/ CloseServer
           \/ \E n \in Conns : \/ Reset(n) \/ Closed(n) \/ Accept(n) \/ RefuseRequest(n)
                              \/ ReadEndOfRequests(n)
  BY <1>5, <1>6 DEF Connect, Listen, CloseServer, Reset, Closed, Accept, RefuseRequest,
     ReadEndOfRequests, client, server
<1>7. CASE UNCHANGED vars
  BY <1>5, <1>7 DEF vars, client, server
<1> QED
  BY <1>1, <1>2, <1>3, <1>4, <1>6, <1>7 DEF Next, ClientStep, ServerStep

\* TcpClient, TcpServer and the connections between them implement Rpc, whatever the
\* network, close() and the number of reconnections do: a handler runs at most once for
\* a request, its promise settles at most once, and resolves only once its own handler
\* has returned.
THEOREM TransportImplementsRpc == Spec => ImplementsRpc
<1>1. Init => Promise!RpcInit
  BY DEF Init, Promise!RpcInit, Phase, Messages
<1>2. IInv /\ OnceInv /\ [Next]_vars => [Promise!RpcNext]_(Promise!rpcVars)
  BY StepMaps
<1> QED
  BY <1>1, <1>2, Inductive, InitOnce, NextOnce, PTL DEF Spec, ImplementsRpc, Promise!RpcSpec
=============================================================================
