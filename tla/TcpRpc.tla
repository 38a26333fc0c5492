------------------------------- MODULE TcpRpc -------------------------------
(***************************************************************************)
(* Request-response over TCP: TcpClient (packages/microservices/tcp/       *)
(* client.ts), TcpServer (tcp/server.ts) and the connections between them. *)
(*                                                                         *)
(* One client, one server, any number of send() and emit() calls.  An      *)
(* action is the code between two awaits of one of the two processes; a    *)
(* frame is the message it carries, and its correlation id is the message. *)
(* Connections are used in turn: a new one is a free element of Conns.     *)
(***************************************************************************)
EXTENDS Naturals, Sequences, FiniteSets

CONSTANTS
  Requests,     \* calls of send()
  Events,       \* calls of emit()
  Conns,        \* identities for the connections; bounds how many are opened
  Unencodable,  \* messages whose payload the serializer throws on
  Unreadable,   \* messages whose frame may be one that the server cannot read
  Answers,      \* [Requests -> SUBSET AnswerKinds]: what the handler may answer
  Attempts,     \* retryAttempts + 1
  Budgets,      \* bounds on the calls of connect(), close(), listen() and send() or emit()
  None

Messages == Requests \cup Events

\* A value or an error that can be serialized, one that cannot, and one whose
\* frame is longer than MAX_FRAME_BYTES.
AnswerKinds == {"ok", "err", "unserializable", "huge"}

ASSUME MessageAssumption ==
  /\ Requests \cap Events = {}
  /\ Requests \cap {"none", "backlog", "reading", "closed"} = {}
  /\ Unencodable \cup Unreadable \subseteq Messages
  /\ Answers \in [Requests -> SUBSET AnswerKinds]

ASSUME BoundAssumption ==
  /\ None \notin Conns \cup Messages
  /\ Attempts \in Nat \ {0}
  /\ Budgets \subseteq [{"connect", "close", "listen", "send"} -> Nat]

VARIABLES
  (* the client *)
  conn,      \* this.conn, or None
  loops,     \* connections whose readLoop() still runs
  readLoop,  \* this.readLoopPromise: the connection it reads, or None
  pending,   \* keys of this.pending
  dial,      \* 0, or the attempt doConnect() is at
  closing,   \* read loops that close() calls await
  sends,     \* message -> where its send() or emit() is
  writes,    \* messages whose conn.write() has not settled
  via,       \* message -> the connection it is written to, or None
  (* the server *)
  listening, \* the listener is open
  served,    \* connection -> what handleConnection() does with it
  outcome,   \* message -> "none", "running", or what dispatch() did with it
  (* the wire *)
  open,      \* connections the client has opened and not closed
  broken,    \* connections lost by the network
  toServer,  \* connection -> frames on their way to the server
  toClient,  \* connection -> response frames on their way back
  budget     \* calls left of each kind

client == <<conn, loops, readLoop, pending, dial, closing, sends, writes, via>>
server == <<listening, served, outcome>>
wire == <<open, broken, toServer, toClient>>
vars == <<client, server, wire, budget>>

-----------------------------------------------------------------------------
Settled(m) == sends[m] \in {"resolved", "rejected"}

\* Promises settle once: a second resolve or reject does nothing.
SettleAll(S, how) ==
  sends' = [m \in Messages |-> IF m \in S /\ ~Settled(m) THEN how ELSE sends[m]]

Unused == {n \in Conns : served[n] = "none"}
Up(n) == n \in open /\ n \notin broken
Spend(what) == budget[what] > 0 /\ budget' = [budget EXCEPT ![what] = @ - 1]

-----------------------------------------------------------------------------
(* TcpClient: connecting.                                                  *)

\* connect(), called by the application: it looks at `connecting`, not at `conn`.
Connect ==
  /\ dial = 0
  /\ Spend("connect")
  /\ dial' = 1
  /\ UNCHANGED <<conn, loops, readLoop, pending, closing, sends, writes, via, server, wire>>

\* send() and emit() up to the await of ensureConnected().
Start(m) ==
  /\ sends[m] = "idle"
  /\ Spend("send")
  /\ sends' = [sends EXCEPT ![m] = IF conn # None THEN "connected" ELSE "connecting"]
  /\ dial' = IF conn = None /\ dial = 0 THEN 1 ELSE dial
  /\ UNCHANGED <<conn, loops, readLoop, pending, closing, writes, via, server, wire>>

Connecting == {m \in Messages : sends[m] = "connecting"}

\* Deno.connect() succeeds: doConnect() installs the connection and starts to
\* read from it; those who await `connecting` may go on.
DialSucceeds ==
  /\ dial > 0
  /\ listening
  /\ \E n \in Unused :
       /\ conn' = n
       /\ readLoop' = n
       /\ loops' = loops \cup {n}
       /\ open' = open \cup {n}
       /\ served' = [served EXCEPT ![n] = "backlog"]
  /\ dial' = 0
  /\ SettleAll(Connecting, "connected")
  /\ UNCHANGED <<pending, closing, writes, via, listening, outcome, broken,
                 toServer, toClient, budget>>

\* An attempt fails; after the last one `connecting` rejects.
DialFails ==
  /\ dial > 0
  /\ \/ /\ dial < Attempts
        /\ dial' = dial + 1
        /\ UNCHANGED sends
     \/ /\ dial = Attempts
        /\ dial' = 0
        /\ SettleAll(Connecting, "rejected")
  /\ UNCHANGED <<conn, loops, readLoop, pending, closing, writes, via, server, wire, budget>>

-----------------------------------------------------------------------------
(* TcpClient: writing.                                                     *)

\* send() after ensureConnected(): the entry is set before the frame is encoded
\* and written; when that throws (no connection any more, a payload that cannot
\* be serialized) the promise rejects and the entry stays.
Write(m) ==
  LET throws == conn = None \/ m \in Unencodable IN
  /\ sends[m] = "connected"
  /\ pending' = IF m \in Requests THEN pending \cup {m} ELSE pending
  /\ sends' = [sends EXCEPT ![m] = IF throws THEN "rejected" ELSE "sent"]
  /\ writes' = IF throws THEN writes ELSE writes \cup {m}
  /\ via' = [via EXCEPT ![m] = IF throws THEN None ELSE conn]
  /\ UNCHANGED <<conn, loops, readLoop, dial, closing, server, wire, budget>>

\* conn.write() fulfils: the frame is on its way, or lost if the server has
\* closed its end.  emit() is done; send() goes on waiting for its response.
Written(m) ==
  /\ m \in writes
  /\ Up(via[m])
  /\ writes' = writes \ {m}
  /\ toServer' = IF served[via[m]] = "closed" THEN toServer
                 ELSE [toServer EXCEPT ![via[m]] = Append(@, m)]
  /\ SettleAll({m} \cap Events, "resolved")
  /\ UNCHANGED <<conn, loops, readLoop, pending, dial, closing, via, server, open,
                 broken, toClient, budget>>

\* conn.write() rejects: the connection is gone at one end or the other.
WriteFails(m) ==
  /\ m \in writes
  /\ ~Up(via[m]) \/ served[via[m]] = "closed"
  /\ writes' = writes \ {m}
  /\ pending' = pending \ {m}
  /\ SettleAll({m}, "rejected")
  /\ UNCHANGED <<conn, loops, readLoop, dial, closing, via, server, wire, budget>>

-----------------------------------------------------------------------------
(* TcpClient: readLoop() and close().                                      *)

\* Faulty variants: the `finally` of readLoop() leaves the pending entries to
\* the next connection, or leaves the dead connection in this.conn.
MutEndLoopKeepsPending(n) ==
  /\ loops' = loops \ {n}
  /\ conn' = None
  /\ UNCHANGED <<pending, sends>>

MutEndLoopKeepsConn(n) ==
  /\ loops' = loops \ {n}
  /\ SettleAll(pending, "rejected")
  /\ pending' = {}
  /\ UNCHANGED conn

\* The `finally` of readLoop(): every pending request is rejected and this.conn
\* reset, whichever connection they belong to; the connection is not closed.
EndLoop(n) ==
  /\ loops' = loops \ {n}
  /\ SettleAll(pending, "rejected")
  /\ pending' = {}
  /\ conn' = None

\* Faulty variant: responses are matched by arrival and not by correlation id.
MutDeliverAny(r, a) ==
  \E q \in pending :
    /\ pending' = pending \ {q}
    /\ SettleAll({q}, IF a = "ok" THEN "resolved" ELSE "rejected")

\* A response frame: its entry is taken out and settled; an unknown id is skipped.
Deliver(r, a) ==
  /\ pending' = pending \ {r}
  /\ SettleAll({r} \cap pending, IF a = "ok" THEN "resolved" ELSE "rejected")

\* readFrame() gives the next frame of connection n; one that is too long throws.
ReadResponse(n) ==
  /\ n \in loops
  /\ n \in open
  /\ toClient[n] # <<>>
  /\ toClient' = [toClient EXCEPT ![n] = Tail(@)]
  /\ LET f == Head(toClient[n]) IN
     \/ /\ f.answer # "huge"
        /\ Deliver(f.id, f.answer)
        /\ UNCHANGED <<conn, loops>>
     \/ /\ f.answer = "huge"
        /\ EndLoop(n)
  /\ UNCHANGED <<readLoop, dial, closing, writes, via, server, open, broken,
                 toServer, budget>>

\* readFrame() gives null: the client has closed the connection itself, or the
\* server or the network has and everything that arrived is read.
ReadEnd(n) ==
  /\ n \in loops
  /\ n \notin open \/ (toClient[n] = <<>> /\ (served[n] = "closed" \/ n \in broken))
  /\ EndLoop(n)
  /\ UNCHANGED <<readLoop, dial, closing, writes, via, server, wire, budget>>

\* Faulty variant: close() does not close the connection it forgets.
MutCloseKeepsOpen ==
  /\ Spend("close")
  /\ SettleAll(pending, "rejected")
  /\ pending' = {}
  /\ conn' = None
  /\ closing' = IF readLoop = None THEN closing ELSE closing \cup {readLoop}
  /\ UNCHANGED <<loops, readLoop, dial, writes, via, server, wire>>

\* close(), onBeforeApplicationShutdown(), up to the await of readLoopPromise.
Close ==
  /\ Spend("close")
  /\ SettleAll(pending, "rejected")
  /\ pending' = {}
  /\ open' = open \ {conn}
  /\ conn' = None
  /\ closing' = IF readLoop = None THEN closing ELSE closing \cup {readLoop}
  /\ UNCHANGED <<loops, readLoop, dial, writes, via, server, broken, toServer, toClient>>

\* The read loop that close() awaits has ended.
Closed(n) ==
  /\ n \in closing
  /\ n \notin loops
  /\ closing' = closing \ {n}
  /\ readLoop' = None
  /\ UNCHANGED <<conn, loops, pending, dial, sends, writes, via, server, wire, budget>>

-----------------------------------------------------------------------------
(* TcpServer.                                                              *)

Listen ==
  /\ ~listening
  /\ Spend("listen")
  /\ listening' = TRUE
  /\ UNCHANGED <<client, served, outcome, wire>>

\* The `for await` of listen() starts handleConnection() on a connection.
Accept(n) ==
  /\ listening
  /\ served[n] = "backlog"
  /\ served' = [served EXCEPT ![n] = "reading"]
  /\ UNCHANGED <<client, listening, outcome, wire, budget>>

\* close(): the listener goes, with the connections nobody has accepted; those
\* that are served are only forgotten.
CloseServer ==
  /\ listening
  /\ listening' = FALSE
  /\ served' = [n \in Conns |-> IF served[n] = "backlog" THEN "closed" ELSE served[n]]
  /\ UNCHANGED <<client, outcome, wire, budget>>

\* handleConnection() reads the next frame.  It awaits the handler of a request,
\* and goes on reading while the handler of an event runs.
ReadRequest(n) ==
  /\ served[n] = "reading"
  /\ n \notin broken
  /\ toServer[n] # <<>>
  /\ LET m == Head(toServer[n]) IN
     /\ outcome' = [outcome EXCEPT ![m] = "running"]
     /\ served' = [served EXCEPT ![n] = IF m \in Requests THEN m ELSE "reading"]
  /\ toServer' = [toServer EXCEPT ![n] = Tail(@)]
  /\ UNCHANGED <<client, listening, open, broken, toClient, budget>>

\* A frame that is longer than MAX_FRAME_BYTES, of which the header is enough, or that
\* cannot be decoded makes handleConnection() close the connection, with what is unread.
RefuseRequest(n) ==
  /\ served[n] = "reading"
  /\ n \notin broken
  /\ \E m \in Unreadable :
       \/ toServer[n] # <<>> /\ Head(toServer[n]) = m
       \/ toServer[n] = <<>> /\ n \in open /\ m \in writes /\ via[m] = n
  /\ served' = [served EXCEPT ![n] = "closed"]
  /\ toServer' = [toServer EXCEPT ![n] = <<>>]
  /\ UNCHANGED <<client, listening, outcome, open, broken, toClient, budget>>

\* The handler of an event returns or throws; nobody is told.
FinishEvent(e) ==
  /\ outcome[e] = "running"
  /\ \E how \in {"returned", "threw"} : outcome' = [outcome EXCEPT ![e] = how]
  /\ UNCHANGED <<client, listening, served, wire, budget>>

\* dispatch() returns or throws and handleMessage() writes the response, which is
\* lost when the connection is gone or the serializer throws.
Reply(n) ==
  LET r == served[n] IN
  /\ r \in Requests
  /\ \E a \in Answers[r] :
       /\ outcome' = [outcome EXCEPT ![r] = IF a = "err" THEN "threw" ELSE "returned"]
       /\ toClient' = IF Up(n) /\ a # "unserializable"
                      THEN [toClient EXCEPT ![n] = Append(@, [id |-> r, answer |-> a])]
                      ELSE toClient
  /\ served' = [served EXCEPT ![n] = "reading"]
  /\ UNCHANGED <<client, listening, open, broken, toServer, budget>>

\* handleConnection() reads the end of the connection and closes its own.
ReadEndOfRequests(n) ==
  /\ served[n] = "reading"
  /\ n \in broken \/ (n \notin open /\ toServer[n] = <<>>)
  /\ served' = [served EXCEPT ![n] = "closed"]
  /\ UNCHANGED <<client, listening, outcome, wire, budget>>

\* The network resets a connection: what is in flight is lost.
Reset(n) ==
  /\ served[n] # "none"
  /\ n \notin broken
  /\ broken' = broken \cup {n}
  /\ toServer' = [toServer EXCEPT ![n] = <<>>]
  /\ toClient' = [toClient EXCEPT ![n] = <<>>]
  /\ UNCHANGED <<client, server, open, budget>>

-----------------------------------------------------------------------------
Init ==
  /\ conn = None /\ readLoop = None /\ dial = 0
  /\ loops = {} /\ pending = {} /\ closing = {} /\ writes = {}
  /\ sends = [m \in Messages |-> "idle"]
  /\ via = [m \in Messages |-> None]
  /\ listening = FALSE
  /\ served = [n \in Conns |-> "none"]
  /\ outcome = [m \in Messages |-> "none"]
  /\ open = {} /\ broken = {}
  /\ toServer = [n \in Conns |-> <<>>]
  /\ toClient = [n \in Conns |-> <<>>]
  /\ budget \in Budgets

ClientStep ==
  \/ DialSucceeds \/ DialFails
  \/ \E m \in Messages : Write(m) \/ Written(m) \/ WriteFails(m)
  \/ \E n \in Conns : ReadResponse(n) \/ ReadEnd(n) \/ Closed(n)

ServerStep ==
  \/ \E e \in Events : FinishEvent(e)
  \/ \E n \in Conns :
       Accept(n) \/ ReadRequest(n) \/ RefuseRequest(n) \/ Reply(n) \/ ReadEndOfRequests(n)

Next ==
  \/ Connect \/ Close \/ Listen \/ CloseServer
  \/ \E m \in Messages : Start(m)
  \/ \E n \in Conns : Reset(n)
  \/ ClientStep
  \/ ServerStep

Spec == Init /\ [][Next]_vars

\* The event loops run what is ready, dialling and writing end, handlers return
\* or throw.  Nobody has to call, close or listen; the network need not fail.
Fairness ==
  /\ WF_vars(DialSucceeds \/ DialFails)
  /\ \A m \in Messages : WF_vars(Write(m)) /\ WF_vars(Written(m) \/ WriteFails(m))
  /\ \A n \in Conns : WF_vars(ReadResponse(n) \/ ReadEnd(n)) /\ WF_vars(Closed(n))
  /\ \A e \in Events : WF_vars(FinishEvent(e))
  /\ \A n \in Conns : /\ WF_vars(Accept(n))
                      /\ WF_vars(ReadRequest(n) \/ RefuseRequest(n) \/ Reply(n)
                                   \/ ReadEndOfRequests(n))

FairSpec == Spec /\ Fairness

-----------------------------------------------------------------------------
FrameType == [id : Requests, answer : {"ok", "err", "huge"}]

\* The variables keep their types.
TypeOK ==
  /\ conn \in Conns \cup {None} /\ readLoop \in Conns \cup {None}
  /\ loops \subseteq Conns /\ closing \subseteq Conns
  /\ pending \subseteq Requests /\ writes \subseteq Messages
  /\ dial \in 0..Attempts
  /\ sends \in [Messages -> {"idle", "connecting", "connected", "sent",
                             "resolved", "rejected"}]
  /\ via \in [Messages -> Conns \cup {None}]
  /\ listening \in BOOLEAN
  /\ served \in [Conns -> {"none", "backlog", "reading", "closed"} \cup Requests]
  /\ outcome \in [Messages -> {"none", "running", "returned", "threw"}]
  /\ open \subseteq Conns /\ broken \subseteq Conns
  /\ toServer \in [Conns -> Seq(Messages)]
  /\ toClient \in [Conns -> Seq(FrameType)]
  /\ budget \in [{"connect", "close", "listen", "send"} -> Nat]

\* Safety.  A request that is written and not settled is still in the map, and
\* the read loop of the very connection that carries it still runs: whoever ends
\* that loop, or replaces or closes the connection, settles the request.
SentIsAwaited ==
  \A r \in Requests : sends[r] = "sent" => r \in pending /\ via[r] \in loops

\* Safety.  What the client writes to has a reader, and it is open.
ConnIsRead == conn # None => conn \in loops /\ conn \in open

\* The promise of ClientProxy.send(): TcpRpc implements Rpc.
Phase(r) ==
  CASE sends[r] \in {"resolved", "rejected"} -> sends[r]
    [] sends[r] = "idle" -> "idle"
    [] OTHER -> "asked"

Promise == INSTANCE Rpc WITH
  phase <- [r \in Requests |-> Phase(r)], outcome <- [r \in Requests |-> outcome[r]]

ImplementsRpc == Promise!RpcSpec

\* At most one connection is open and read.  connect() on a connected client, and
\* ensureConnected() after it, may open more.
SingleConnection == Cardinality(loops \cap open) <= 1

\* Liveness.  Every send() and emit() settles, in spite of resets, of close() at
\* either end and of a server that is gone, as long as answers can be serialized
\* and connect() has not opened a second connection.
SendSettles == []SingleConnection => \A m \in Messages : sends[m] # "idle" ~> Settled(m)

\* Liveness.  Every close() of the client returns, as long as connect() has not opened
\* a second connection.
CloseSettles == []SingleConnection => \A n \in Conns : n \in closing ~> n \notin closing

\* The inductive invariant behind the two safety properties (TcpRpcProofs).
IInv == TypeOK /\ SentIsAwaited /\ ConnIsRead
=============================================================================
