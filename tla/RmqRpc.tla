------------------------------- MODULE RmqRpc -------------------------------
(***************************************************************************)
(* Request-response over RabbitMQ: RmqClient (packages/microservices/rmq/  *)
(* client.ts), RmqServer (rmq/server.ts) and the broker between them, as   *)
(* amqplib shows it to the two.                                            *)
(*                                                                         *)
(* A message has one copy at the broker: it waits in the queue, is         *)
(* delivered and unacknowledged, or is gone.  A connection of the client   *)
(* carries one channel and one anonymous reply queue, and the three have   *)
(* one number; the channels of the server are numbered by `epoch`.         *)
(***************************************************************************)
EXTENDS Naturals, FiniteSets

CONSTANTS
  Requests,    \* calls of send()
  Events,      \* calls of emit()
  Poison,      \* messages of somebody else, which the deserializer throws on
  Prefetch,    \* options.prefetchCount
  MaxDials,    \* bound on the connections the client opens
  Scenarios    \* [poison, budget]: those that wait at the start, and bounds on the listen()
               \* calls of the server, its close() calls and crashes ("stop"), the close()
               \* calls of the client, and the connections that are lost

Sent == Requests \cup Events
Messages == Sent \cup Poison

ASSUME MessageAssumption == Requests \cap Events = {} /\ Sent \cap Poison = {}
ASSUME BoundAssumption ==
  /\ Prefetch \in Nat /\ MaxDials \in Nat
  /\ \A s \in Scenarios : /\ s.poison \subseteq Poison
                          /\ s.budget \in [{"listen", "stop", "close", "loss"} -> Nat]

VARIABLES
  noAck,       \* options.noAck of the server
  (* the client *)
  connection, channel, replyQueue,  \* a connection's number, or 0
  dial,        \* the await doConnect() is at, and its connection
  dials,       \* connections opened so far
  closing,     \* the await close() is at, or "no"
  pending,     \* keys of this.pending
  sends,       \* message -> where its send() or emit() is
  replyTo,     \* message -> the reply queue it names, or 0
  (* the broker *)
  up,          \* connections of the client that are open
  consuming,   \* those whose reply queue has its consumer
  where,       \* message -> where its copy is
  tag,         \* message -> the tag of its delivery, or 0
  replies,     \* responses in the reply queues
  live,        \* the channel of the server that is open, or 0
  consumed,    \* the queue has its consumer on that channel
  nextTag,     \* the next delivery tag of that channel
  (* the server *)
  listen,      \* the await listen() is at, or "no"
  serverChannel,  \* RmqServer.channel, or 0
  stopping,    \* RmqServer.close() awaits
  handlers,    \* deliveries whose handleMessage() awaits dispatch()
  outcome,     \* message -> "none", "running", or what dispatch() last did with it
  epoch,       \* channels the server has opened so far
  budget,
  misdirected  \* an acknowledgement was sent on another channel than its delivery

client == <<connection, channel, replyQueue, dial, dials, closing, pending, sends, replyTo>>
broker == <<up, consuming, where, tag, replies, live, consumed, nextTag>>
server == <<listen, serverChannel, stopping, handlers, outcome, epoch>>
vars == <<noAck, client, broker, server, budget, misdirected>>

-----------------------------------------------------------------------------
Settled(m) == sends[m] \in {"resolved", "rejected"}
SettleAll(S, how) ==
  sends' = [m \in Sent |-> IF m \in S /\ ~Settled(m) THEN how ELSE sends[m]]
Spend(what) == budget[what] > 0 /\ budget' = [budget EXCEPT ![what] = @ - 1]
Connecting == {m \in Sent : sends[m] = "connecting"}

-----------------------------------------------------------------------------
(* RmqClient: connecting and closing.                                      *)

\* send() and emit() up to the await of ensureConnected(), which looks at the
\* channel and not at what doConnect() still has to set up.
Start(m) ==
  /\ sends[m] = "idle"
  /\ sends' = [sends EXCEPT ![m] = IF channel # 0 THEN "connected" ELSE "connecting"]
  /\ dial' = IF channel = 0 /\ dial.at = "no" THEN [at |-> "connect", to |-> 0] ELSE dial
  /\ UNCHANGED <<noAck, connection, channel, replyQueue, dials, closing, pending,
                 replyTo, broker, server, budget, misdirected>>

\* doConnect() stops at its await: who awaits `connecting` is rejected; what was
\* assigned before stays, on a channel that is closed.
DialFails ==
  /\ dial.at # "no"
  /\ dial' = [at |-> "no", to |-> 0]
  /\ up' = up \ {dial.to}
  /\ SettleAll(Connecting, "rejected")
  /\ UNCHANGED <<noAck, connection, channel, replyQueue, dials, closing, pending, replyTo,
                 consuming, where, tag, replies, live, consumed, nextTag, server, budget,
                 misdirected>>

DialConnects ==
  /\ dial.at = "connect"
  /\ dials < MaxDials
  /\ dials' = dials + 1
  /\ connection' = dials + 1
  /\ up' = up \cup {dials + 1}
  /\ dial' = [at |-> "channel", to |-> dials + 1]
  /\ UNCHANGED <<noAck, channel, replyQueue, closing, pending, sends, replyTo, consuming,
                 where, tag, replies, live, consumed, nextTag, server, budget, misdirected>>

\* this.channel is set, then the reply queue is asserted.
DialOpens ==
  /\ dial.at = "channel"
  /\ dial.to \in up
  /\ channel' = dial.to
  /\ dial' = [dial EXCEPT !.at = "queue"]
  /\ UNCHANGED <<noAck, connection, replyQueue, dials, closing, pending, sends, replyTo,
                 broker, server, budget, misdirected>>

\* The reply queue has its name; close() may have unset the channel meanwhile.
DialNames ==
  /\ dial.at = "queue"
  /\ dial.to \in up
  /\ replyQueue' = dial.to
  /\ dial' = IF channel = 0 THEN [at |-> "no", to |-> 0] ELSE [dial EXCEPT !.at = "consume"]
  /\ IF channel = 0 THEN SettleAll(Connecting, "rejected") ELSE UNCHANGED sends
  /\ UNCHANGED <<noAck, connection, channel, dials, closing, pending, replyTo, broker,
                 server, budget, misdirected>>

DialConsumes ==
  /\ dial.at = "consume"
  /\ dial.to \in up
  /\ consuming' = consuming \cup {dial.to}
  /\ dial' = [at |-> "no", to |-> 0]
  /\ SettleAll(Connecting, "connected")
  /\ UNCHANGED <<noAck, connection, channel, replyQueue, dials, closing, pending, replyTo,
                 up, where, tag, replies, live, consumed, nextTag, server, budget,
                 misdirected>>

\* Faulty variant: close() forgets the pending requests without rejecting them.
MutCloseBegin ==
  /\ closing = "no"
  /\ Spend("close")
  /\ pending' = {}
  /\ up' = up \ {channel}
  /\ closing' = "channel"
  /\ UNCHANGED <<noAck, connection, channel, replyQueue, dial, dials, sends, replyTo,
                 consuming, where, tag, replies, live, consumed, nextTag, server,
                 misdirected>>

\* close() rejects every pending request and closes the channel it finds.
CloseBegin ==
  /\ closing = "no"
  /\ Spend("close")
  /\ SettleAll(pending, "rejected")
  /\ pending' = {}
  /\ up' = up \ {channel}
  /\ closing' = "channel"
  /\ UNCHANGED <<noAck, connection, channel, replyQueue, dial, dials, replyTo, consuming,
                 where, tag, replies, live, consumed, nextTag, server, misdirected>>

\* Then the connection it finds; what is set is unset after that.
CloseConnection ==
  /\ closing = "channel"
  /\ up' = up \ {connection}
  /\ closing' = "connection"
  /\ UNCHANGED <<noAck, connection, channel, replyQueue, dial, dials, pending, sends,
                 replyTo, consuming, where, tag, replies, live, consumed, nextTag, server,
                 budget, misdirected>>

CloseEnd ==
  /\ closing = "connection"
  /\ connection' = 0 /\ channel' = 0 /\ replyQueue' = 0
  /\ closing' = "no"
  /\ UNCHANGED <<noAck, dial, dials, pending, sends, replyTo, broker, server, budget,
                 misdirected>>

-----------------------------------------------------------------------------
(* RmqClient: publishing and replies.                                      *)

\* The entry is set first.  A publish into a full buffer is sent all the same,
\* though send() rejects.  The serializer may throw, and so does a publish on a
\* closed or missing channel: then the entry outlives its promise.
Publish(m) ==
  /\ sends[m] = "connected"
  /\ \/ /\ channel \in up
        /\ where' = [where EXCEPT ![m] = "wire"]
        /\ replyTo' = [replyTo EXCEPT ![m] = IF m \in Requests THEN replyQueue ELSE 0]
        /\ \/ /\ m \in Requests
              /\ pending' = pending \cup {m}
              /\ sends' = [sends EXCEPT ![m] = "asked"]
           \/ /\ m \in Requests
              /\ sends' = [sends EXCEPT ![m] = "rejected"]
              /\ UNCHANGED pending
           \/ /\ m \in Events
              /\ sends' = [sends EXCEPT ![m] = "resolved"]
              /\ UNCHANGED pending
     \/ /\ sends' = [sends EXCEPT ![m] = "rejected"]
        /\ pending' = pending \cup ({m} \cap Requests)
        /\ UNCHANGED <<where, replyTo>>
  /\ UNCHANGED <<noAck, connection, channel, replyQueue, dial, dials, closing, up,
                 consuming, tag, replies, live, consumed, nextTag, server, budget,
                 misdirected>>

\* Faulty variant: the `err` of a reply is not looked at.
MutVerdict(reply) == "resolved"

\* A parsed reply with an `err` member rejects.
Verdict(reply) == IF reply.kind = "value" THEN "resolved" ELSE "rejected"

\* handleReply(): a reply nobody waits for is dropped.
HandleReply ==
  \E reply \in replies :
    /\ reply.to \in up \cap consuming
    /\ replies' = replies \ {reply}
    /\ pending' = pending \ {reply.of}
    /\ SettleAll({reply.of} \cap pending, Verdict(reply))
    /\ UNCHANGED <<noAck, connection, channel, replyQueue, dial, dials, closing, replyTo,
                   up, consuming, where, tag, live, consumed, nextTag, server, budget,
                   misdirected>>

-----------------------------------------------------------------------------
(* The broker.                                                             *)

Route(m) ==
  /\ where[m] = "wire"
  /\ where' = [where EXCEPT ![m] = "queue"]
  /\ UNCHANGED <<noAck, client, up, consuming, tag, replies, live, consumed, nextTag,
                 server, budget, misdirected>>

\* A connection of the client is lost, with messages that were on their way.
Lose ==
  /\ Spend("loss")
  /\ \E i \in up : up' = up \ {i}
  /\ \E S \in SUBSET {m \in Messages : where[m] = "wire"} :
       where' = [m \in Messages |-> IF m \in S THEN "lost" ELSE where[m]]
  /\ UNCHANGED <<noAck, client, consuming, tag, replies, live, consumed, nextTag, server,
                 misdirected>>

Unacked == {m \in Messages : where[m] = "unacked"}

\* The server's channel closes at the broker: what it had is delivered again, and
\* the tags of its deliveries mean nothing any more.
Disconnected ==
  /\ live' = 0 /\ consumed' = FALSE /\ nextTag' = 1
  /\ tag' = [m \in Messages |-> 0]
  /\ where' = [m \in Messages |-> IF m \in Unacked THEN "queue" ELSE where[m]]

\* Faulty variant: a delivery is acknowledged before its message is handled.
MutDelivered == "settled"

\* What the broker keeps of a message it delivers.
Delivered == IF noAck THEN "settled" ELSE "unacked"

\* handleMessage() deserializes before it enters its try: a message that throws
\* there is neither acknowledged nor rejected, and keeps its place in the window.
Deliver(m) ==
  /\ where[m] = "queue"
  /\ consumed
  /\ Cardinality(Unacked) < Prefetch
  /\ where' = [where EXCEPT ![m] = Delivered]
  /\ IF noAck THEN UNCHANGED <<tag, nextTag>>
     ELSE tag' = [tag EXCEPT ![m] = nextTag] /\ nextTag' = nextTag + 1
  /\ IF m \in Poison
     THEN UNCHANGED <<handlers, outcome>>
     ELSE /\ handlers' = handlers \cup {[of |-> m, tag |-> nextTag, on |-> live]}
          /\ outcome' = [outcome EXCEPT ![m] = "running"]
  /\ UNCHANGED <<noAck, client, up, consuming, replies, live, consumed, listen,
                 serverChannel, stopping, epoch, budget, misdirected>>

-----------------------------------------------------------------------------
(* RmqServer.                                                              *)

\* this.channel can be written to.
Writable == serverChannel # 0 /\ serverChannel = live

\* Faulty variant: a failing handler leaves its caller without an answer.
MutAnswer(m, how) ==
  IF replyTo[m] \notin up \/ how = "threw" THEN {}
  ELSE {[of |-> m, to |-> replyTo[m], kind |-> IF how = "returned" THEN "value" ELSE "err"]}

\* An answer is sent when the message names a reply queue, which the broker deletes
\* with its connection; one that cannot be serialized (undefined, a BigInt) throws
\* inside the try and goes as an error.
Answer(m, how) ==
  IF replyTo[m] \notin up THEN {}
  ELSE {[of |-> m, to |-> replyTo[m], kind |-> IF how = "returned" THEN "value" ELSE "err"]}

\* Acknowledging delivery h on this.channel, whichever delivery has that tag there.
\* An unknown tag makes the broker close the channel.
Acknowledge(h) ==
  LET hit == {m \in Unacked : tag[m] = h.tag} IN
  /\ misdirected' = (misdirected \/ h.on # live)
  /\ IF hit = {}
     THEN Disconnected
     ELSE /\ where' = [m \in Messages |-> IF m \in hit THEN "settled" ELSE where[m]]
          /\ tag' = [m \in Messages |-> IF m \in hit THEN 0 ELSE tag[m]]
          /\ UNCHANGED <<live, consumed, nextTag>>

\* dispatch() settles: its result is sent and acknowledged, its error sent and
\* rejected without requeueing.  Both use this.channel, which may be closed or
\* missing (handleMessage() rejects) or another than the one that delivered.
Finish(h) ==
  /\ handlers' = handlers \ {h}
  /\ \E how \in {"returned", "unserializable", "threw"} :
       /\ how = "unserializable" => replyTo[h.of] # 0
       /\ outcome' = [outcome EXCEPT ![h.of] = IF how = "threw" THEN "threw" ELSE "returned"]
       /\ replies' = IF Writable THEN replies \cup Answer(h.of, how) ELSE replies
  /\ IF Writable /\ ~noAck THEN Acknowledge(h)
     ELSE UNCHANGED <<where, tag, live, consumed, nextTag, misdirected>>
  /\ UNCHANGED <<noAck, client, up, consuming, listen, serverChannel, stopping, epoch,
                 budget>>

\* listen() up to the await of the connection.
Listen ==
  /\ listen = "no" /\ serverChannel = 0 /\ ~stopping /\ ~consumed
  /\ Spend("listen")
  /\ listen' = "connect"
  /\ UNCHANGED <<noAck, client, broker, serverChannel, stopping, handlers, outcome, epoch,
                 misdirected>>

\* connection and channel are set; the queue, the exchange and the binding follow.
ListenOpens ==
  /\ listen = "connect"
  /\ epoch' = epoch + 1
  /\ serverChannel' = epoch + 1 /\ live' = epoch + 1
  /\ listen' = "assert"
  /\ UNCHANGED <<noAck, client, up, consuming, where, tag, replies, consumed, nextTag,
                 stopping, handlers, outcome, budget, misdirected>>

\* consume(), unless close() has closed or unset the channel.
ListenConsumes ==
  /\ listen = "assert"
  /\ listen' = "no"
  /\ consumed' = Writable
  /\ UNCHANGED <<noAck, client, up, consuming, where, tag, replies, live, nextTag,
                 serverChannel, stopping, handlers, outcome, epoch, budget, misdirected>>

\* close(): the channel it finds, if any, and its connection.
StopBegin ==
  /\ ~stopping
  /\ Spend("stop")
  /\ stopping' = TRUE
  /\ IF Writable THEN Disconnected ELSE UNCHANGED <<live, consumed, where, tag, nextTag>>
  /\ UNCHANGED <<noAck, client, up, consuming, replies, listen, serverChannel, handlers,
                 outcome, epoch, misdirected>>

StopEnd ==
  /\ stopping
  /\ stopping' = FALSE
  /\ serverChannel' = 0
  /\ UNCHANGED <<noAck, client, broker, listen, handlers, outcome, epoch, budget,
                 misdirected>>

\* The connection of the server is lost: nobody opens another.
ServerLost ==
  /\ live # 0
  /\ Spend("loss")
  /\ Disconnected
  /\ UNCHANGED <<noAck, client, up, consuming, replies, server, misdirected>>

\* The process of the server ends; another may listen.
Crash ==
  /\ Spend("stop")
  /\ Disconnected
  /\ listen' = "no" /\ serverChannel' = 0 /\ stopping' = FALSE /\ handlers' = {}
  /\ UNCHANGED <<noAck, client, up, consuming, replies, outcome, epoch, misdirected>>

-----------------------------------------------------------------------------
Init ==
  /\ noAck \in BOOLEAN
  /\ connection = 0 /\ channel = 0 /\ replyQueue = 0
  /\ dial = [at |-> "no", to |-> 0] /\ dials = 0 /\ closing = "no"
  /\ pending = {} /\ sends = [m \in Sent |-> "idle"] /\ replyTo = [m \in Messages |-> 0]
  /\ up = {} /\ consuming = {} /\ replies = {}
  /\ tag = [m \in Messages |-> 0]
  /\ live = 0 /\ consumed = FALSE /\ nextTag = 1
  /\ listen = "no" /\ serverChannel = 0 /\ stopping = FALSE /\ epoch = 0
  /\ handlers = {} /\ outcome = [m \in Messages |-> "none"]
  /\ \E s \in Scenarios :
       /\ where = [m \in Messages |-> IF m \in s.poison THEN "queue" ELSE "none"]
       /\ budget = s.budget
  /\ misdirected = FALSE

\* What the two processes and the broker do on their own.
Proceed ==
  \/ DialConnects \/ DialOpens \/ DialNames \/ DialConsumes
  \/ CloseConnection \/ CloseEnd \/ HandleReply
  \/ \E m \in Sent : Publish(m)
  \/ \E m \in Messages : Route(m) \/ Deliver(m)
  \/ \E h \in handlers : Finish(h)
  \/ ListenOpens \/ ListenConsumes \/ StopEnd

Next ==
  \/ Proceed
  \/ \E m \in Sent : Start(m)
  \/ DialFails \/ CloseBegin \/ Lose \/ Listen \/ StopBegin \/ ServerLost \/ Crash

Spec == Init /\ [][Next]_vars

\* amqplib answers and delivers, event loops turn, and a handler that runs ends.
Fairness ==
  /\ WF_vars(DialConnects) /\ WF_vars(DialOpens) /\ WF_vars(DialNames)
  /\ WF_vars(DialConsumes) /\ WF_vars(CloseConnection) /\ WF_vars(CloseEnd)
  /\ WF_vars(HandleReply) /\ WF_vars(ListenOpens) /\ WF_vars(ListenConsumes)
  /\ WF_vars(StopEnd)
  /\ \A m \in Sent : WF_vars(Publish(m))
  /\ \A m \in Messages : WF_vars(Route(m)) /\ WF_vars(Deliver(m))
  /\ \A m \in Messages : WF_vars(\E h \in handlers : h.of = m /\ Finish(h))

FairSpec == Spec /\ Fairness
-----------------------------------------------------------------------------
\* The variables keep their types.
TypeOK ==
  /\ noAck \in BOOLEAN
  /\ dials \in Nat
  /\ connection \in 0..dials /\ channel \in 0..dials /\ replyQueue \in 0..dials
  /\ dial \in [at : {"no", "connect", "channel", "queue", "consume"}, to : 0..dials]
  /\ closing \in {"no", "channel", "connection"}
  /\ pending \subseteq Requests
  /\ sends \in [Sent -> {"idle", "connecting", "connected", "asked", "resolved", "rejected"}]
  /\ replyTo \in [Messages -> 0..dials]
  /\ up \subseteq 0..dials /\ consuming \subseteq 0..dials
  /\ where \in [Messages -> {"none", "wire", "lost", "queue", "unacked", "settled"}]
  /\ tag \in [Messages -> Nat] /\ nextTag \in Nat \ {0}
  /\ replies \subseteq [of : Messages, to : 0..dials, kind : {"value", "err"}]
  /\ epoch \in Nat /\ live \in 0..epoch /\ serverChannel \in 0..epoch
  /\ consumed \in BOOLEAN /\ stopping \in BOOLEAN /\ misdirected \in BOOLEAN
  /\ listen \in {"no", "connect", "assert"}
  /\ handlers \subseteq [of : Sent, tag : Nat \ {0}, on : 0..epoch]
  /\ outcome \in [Messages -> {"none", "running", "returned", "threw"}]
  /\ budget \in [{"listen", "stop", "close", "loss"} -> Nat]

\* Safety.  A request whose promise is open after it was written is in the map: a
\* reply or close() can still settle it, however connects and closes overlap.
AskedIsPending == \A r \in Requests : sends[r] = "asked" => r \in pending

\* Safety.  With acknowledgements, a message leaves the broker only when dispatch()
\* has settled for it: crashes, lost connections and close() while handlers run lose
\* nothing, as long as no acknowledgement goes to a channel opened after its delivery.
\* Implied by ImplementsDelivery.
NothingLost ==
  ~noAck /\ ~misdirected =>
    \A m \in Messages : where[m] = "settled" => outcome[m] \in {"returned", "threw"}

R == INSTANCE Rpc WITH
  phase <- [r \in Requests |->
              CASE sends[r] \in {"connecting", "connected"} -> "asked"
                [] OTHER                                    -> sends[r]],
  outcome <- [r \in Requests |-> outcome[r]]

\* Refinement.  Without acknowledgements a request is handled at most once, its
\* promise settles at most once, and only with the value of its own handler.
ImplementsRpc == R!RpcInit /\ [][noAck => R!RpcNext]_R!rpcVars

\* Where a message is and what its handler does, in the words of Delivery.
Place == [m \in Messages |->
  CASE where[m] \in {"none", "wire"} -> "new"
    [] where[m] = "lost"             -> "out"
    [] where[m] = "queue"            -> "waiting"
    [] where[m] = "unacked"          -> "held"
    [] OTHER                         -> "gone"]
Consumer == [m \in Messages |-> IF outcome[m] \in {"none", "running"} THEN outcome[m] ELSE "over"]

Q == INSTANCE Delivery WITH
  Unwanted <- {}, place <- Place, consumer <- Consumer, volatile <- {}

\* Refinement.  With acknowledgements, and as long as none goes to a channel opened after
\* its delivery, a message is delivered at least once through crashes, lost connections
\* and close(): it goes only from the dispatch() that holds it, and is delivered no more.
ImplementsDelivery ==
  Q!DeliveryInit /\ [][~noAck /\ ~misdirected' => Q!DeliveryNext]_Q!deliveryVars

\* A request that waits behind as many unreadable messages as the prefetch count:
\* nothing more is delivered until the channel closes.
Clogged(r) == where[r] = "queue" /\ Cardinality(Unacked \cap Poison) >= Prefetch

\* Liveness.  While a server comes back, an acknowledged request that names a reply
\* queue is answered, through any number of redeliveries and beside messages that
\* cannot be read, unless these fill the window for good while it waits, its own
\* connection is lost or closed, or an acknowledgement was misdirected.
SendSettles ==
  \A r \in Requests :
    []<>(consumed /\ Writable) /\ []<>~Clogged(r) =>
      ((sends[r] = "asked" /\ replyTo[r] # 0 /\ ~noAck)
        ~> (sends[r] # "asked" \/ replyTo[r] \notin up \/ where[r] = "lost" \/ misdirected))
=============================================================================
