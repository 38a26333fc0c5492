------------------------------ MODULE AmqpRpc ------------------------------
(***************************************************************************)
(* The AMQP patterns (packages/amqp): AmqpConnection, which is shared, the *)
(* clients over it (clients.ts), the explorer that binds the consumers     *)
(* (_explorer.ts), and the broker as amqplib shows it.                     *)
(*                                                                         *)
(* An actor is one call of a client, or the explorer's discover(); each    *)
(* goes through AmqpConnection.createChannel().  Connections and channels  *)
(* are numbered as they are made, a reply queue has the number of the      *)
(* channel that declared it, and a message is the call that published it.  *)
(***************************************************************************)
EXTENDS Naturals, Sequences, FiniteSets, SequencesExt

CONSTANTS
  Calls,        \* calls of a client's request(), send() or publish()
  Explorer,     \* the actor that runs discover()
  Scenarios,    \* the applications to look at, see ScenarioAssumption
  MaxConns, MaxChannels  \* bounds on connections and channels

Kinds == {"worker", "pub-sub", "routing", "topic", "rpc"}
Actors == Calls \cup {Explorer}

\* client: the pattern of a call's client; bytes: calls whose payload is a Uint8Array,
\* which is sent as it is; bindings: the patterns of the consumers' bindings, in
\* order; anonymous: those whose binding names no queue and so gets an exclusive one,
\* which is deleted with its channel (one binding each, so that a message has one copy
\* at the broker); timeout: whether options.timeout of the rpc client is set; disturbances:
\* bound on closes, losses, refusals and failing filters together.
ASSUME ScenarioAssumption ==
  /\ Explorer \notin Calls
  /\ \A s \in Scenarios :
       /\ s.client \in [Calls -> Kinds] /\ s.bytes \subseteq Calls
       /\ s.bindings \in Seq(Kinds) /\ s.anonymous \subseteq {"pub-sub", "routing", "topic"}
       /\ \A i, j \in DOMAIN s.bindings :
            s.bindings[i] = s.bindings[j] /\ s.bindings[i] \in s.anonymous => i = j
       /\ s.timeout \in BOOLEAN /\ s.disturbances \in Nat

VARIABLES
  scenario,    \* the application
  (* AmqpConnection *)
  model,       \* this.model: a connection, or 0
  connecting,  \* this.connecting: the connection it will give, or 0
  conns, up,   \* connections dialled so far, and those that are open
  dialing,     \* those still awaited
  leaving,     \* close() awaits the model
  (* the clients *)
  channel,     \* kind of client -> this.channel, or 0
  replyQueue,  \* RpcClient.replyQueue, or 0
  pending,     \* keys of RpcClient.pending
  timers,      \* entries whose timer is armed
  closing,     \* clients whose close() awaits the channel
  actors,      \* actor -> [at, conn, ch]: its await, its connection, its channel
  replyTo,     \* call -> the reply queue its message names, or 0
  (* the explorer *)
  todo,        \* bindings that are still to be bound, in order
  channels,    \* AmqpExplorer.channels
  shutdown,    \* the next channel onBeforeApplicationShutdown() closes, or 0
  handlers,    \* deliveries inside handle(): [of, on, at]
  outcome,     \* call -> "none", "running", or what the consumer last did with it
  stuck,       \* deliveries that handle() gave up without acknowledging
  (* the broker *)
  made, open, connOf,  \* channels so far, those open, channel -> connection
  consumers,   \* <<queue, channel>> of the reply consumers
  bound,       \* <<kind, channel>> of the explorer's consumers
  declared,    \* patterns whose queue exists
  where, on,   \* call -> where its message is, and the channel it was delivered on
  replies,
  budget

connection == <<model, connecting, conns, up, dialing, leaving>>
client == <<channel, replyQueue, pending, timers, closing, replyTo>>
explorer == <<todo, channels, shutdown, handlers, outcome, stuck>>
broker == <<made, open, connOf, consumers, bound, declared, where, on, replies>>
vars == <<scenario, connection, client, actors, explorer, broker, budget>>

-----------------------------------------------------------------------------
Client == scenario.client
Bytes == scenario.bytes
Anonymous == scenario.anonymous
Timeout == scenario.timeout
Requests == {c \in Calls : Client[c] = "rpc"}

Disturb == budget > 0 /\ budget' = budget - 1
At(a, place) == actors[a].at = place
Over == {a \in Actors : actors[a].at \in {"resolved", "rejected"}}
Goto(S, place) == [a \in Actors |-> IF a \in S THEN [actors[a] EXCEPT !.at = place]
                                              ELSE actors[a]]
Reject(S) == Goto(S \ Over, "rejected")
OnConnection(i) == {n \in open : connOf[n] = i}

\* The messages in the queues that are deleted when channels S close, the unacknowledged
\* ones included.
Deleted(S) ==
  {c \in Calls : /\ Client[c] \in Anonymous
                 /\ \/ where[c] = "unacked" /\ on[c] \in S
                    \/ where[c] = "queue" /\ \E n \in S : <<Client[c], n>> \in bound}

\* Channels S close: what they had not acknowledged is queued again, unless its queue
\* is deleted.
Shut(S) ==
  /\ open' = open \ S
  /\ where' = [c \in Calls |-> IF c \in Deleted(S) THEN "lost"
                               ELSE IF where[c] = "unacked" /\ on[c] \in S THEN "queue"
                               ELSE where[c]]
  /\ declared' = declared \ {kind \in Anonymous : \E n \in S : <<kind, n>> \in bound}

-----------------------------------------------------------------------------
(* AmqpConnection: connect(), createChannel(), close().                    *)

\* Where createChannel() takes an actor: to the open connection, to the dial in
\* flight, or to one of its own.
ToChannel(a) ==
  LET i == IF model # 0 THEN model ELSE IF connecting # 0 THEN connecting ELSE conns + 1 IN
  /\ i <= MaxConns
  /\ actors' = [actors EXCEPT ![a] =
                 [at |-> IF i \in dialing \/ i > conns THEN "connect" ELSE "create",
                  conn |-> i, ch |-> 0]]
  /\ IF i > conns THEN /\ conns' = i
                       /\ connecting' = i
                       /\ dialing' = dialing \cup {i}
                  ELSE UNCHANGED <<conns, connecting, dialing>>
  /\ UNCHANGED <<model, up, leaving>>

Awaiting(i) == {a \in Actors : At(a, "connect") /\ actors[a].conn = i}

\* A dial succeeds, also after a close() that found nothing to close.
DialDone(i) ==
  /\ dialing' = dialing \ {i}
  /\ connecting' = 0
  /\ model' = i
  /\ up' = up \cup {i}
  /\ actors' = Goto(Awaiting(i), "create")
  /\ UNCHANGED <<scenario, conns, leaving, client, explorer, broker, budget>>

DialFails(i) ==
  /\ Disturb
  /\ dialing' = dialing \ {i}
  /\ connecting' = 0
  /\ actors' = Goto(Awaiting(i), "rejected")
  /\ UNCHANGED <<scenario, model, conns, up, leaving, client, explorer, broker>>

\* The connection closes or is lost; a model that is lost stays set.
CloseBegin ==
  /\ ~leaving
  /\ \/ Disturb /\ leaving' = TRUE
     \/ Disturb /\ model \in up /\ leaving' = FALSE
  /\ up' = up \ {model}
  /\ Shut(OnConnection(model))
  /\ UNCHANGED <<scenario, model, connecting, conns, dialing, client, actors, explorer, made, connOf,
                 consumers, bound, on, replies>>

CloseEnd ==
  /\ leaving
  /\ leaving' = FALSE
  /\ model' = 0 /\ connecting' = 0
  /\ UNCHANGED <<scenario, conns, up, dialing, client, actors, explorer, broker, budget>>

-----------------------------------------------------------------------------
(* The clients.                                                            *)

\* getChannel() takes this.channel as soon as it is set, asserted or not.
Call(c) ==
  /\ At(c, "idle")
  /\ \/ /\ channel[Client[c]] # 0
        /\ actors' = [actors EXCEPT ![c].at = "ready", ![c].ch = channel[Client[c]]]
        /\ UNCHANGED connection
     \/ channel[Client[c]] = 0 /\ ToChannel(c)
  /\ UNCHANGED <<scenario, client, explorer, broker, budget>>

\* createChannel() has its channel, or finds the connection closed.
Create(a) ==
  /\ At(a, "create")
  /\ \/ /\ actors[a].conn \in up
        /\ made < MaxChannels
        /\ made' = made + 1
        /\ open' = open \cup {made + 1}
        /\ connOf' = [connOf EXCEPT ![made + 1] = actors[a].conn]
        /\ actors' = [actors EXCEPT ![a].at = "assert", ![a].ch = made + 1]
        /\ IF a = Explorer
           THEN channels' = Append(channels, made + 1) /\ UNCHANGED channel
           ELSE channel' = [channel EXCEPT ![Client[a]] = made + 1] /\ UNCHANGED channels
     \/ /\ actors[a].conn \notin up
        /\ actors' = Goto({a}, "rejected")
        /\ UNCHANGED <<made, open, connOf, channels, channel>>
  /\ UNCHANGED <<scenario, connection, replyQueue, pending, timers, closing, replyTo, todo, shutdown,
                 handlers, outcome, stuck, consumers, bound, declared, where, on, replies,
                 budget>>

\* The broker refuses what an actor asserts, and closes its channel.
Refuse(a) ==
  /\ At(a, "assert")
  /\ Disturb
  /\ Shut({actors[a].ch})
  /\ actors' = Goto({a}, "rejected")
  /\ UNCHANGED <<scenario, connection, client, explorer, made, connOf, consumers, bound,
                 on, replies>>

\* The queue, exchange or reply queue of the client exists.  What follows uses
\* this.channel, which close() may have unset and another call replaced.
Declare(c) ==
  LET kind == Client[c]  current == channel[kind] IN
  /\ At(c, "assert")
  /\ IF actors[c].ch \in open
     THEN IF kind # "rpc"
          THEN /\ actors' = [actors EXCEPT ![c].at = "ready", ![c].ch = current]
               /\ declared' = declared \cup ({kind} \cap {"worker"})
               /\ UNCHANGED replyQueue
          ELSE /\ replyQueue' = actors[c].ch
               /\ actors' = [actors EXCEPT ![c].at = IF current \in open THEN "consume"
                                                                       ELSE "rejected"]
               /\ UNCHANGED declared
     ELSE actors' = Goto({c}, "rejected") /\ UNCHANGED <<declared, replyQueue>>
  /\ UNCHANGED <<scenario, connection, channel, pending, timers, closing, replyTo, explorer, made,
                 open, connOf, consumers, bound, where, on, replies, budget>>

\* The reply queue has its consumer; getChannel() gives this.channel.
Consume(c) ==
  /\ At(c, "consume")
  /\ IF channel["rpc"] \in open
     THEN /\ consumers' = consumers \cup {<<actors[c].ch, channel["rpc"]>>}
          /\ actors' = [actors EXCEPT ![c].at = "ready", ![c].ch = channel["rpc"]]
     ELSE actors' = Goto({c}, "rejected") /\ UNCHANGED consumers
  /\ UNCHANGED <<scenario, connection, client, explorer, made, open, connOf, bound, declared, where,
                 on, replies, budget>>

\* A message that no queue takes is dropped by the broker.
Routed(c) == IF Client[c] \in declared THEN "queue" ELSE "lost"

\* request() arms its timer when the options have a timeout.
Armed(c) == IF Timeout THEN {c} ELSE {}

\* The message is written to the channel getChannel() gave.  request() has set its
\* entry and its timer before: they outlive a write that throws.
Publish(c) ==
  /\ At(c, "ready")
  /\ IF c \in Requests
     THEN /\ pending' = pending \cup {c}
          /\ timers' = timers \cup Armed(c)
     ELSE UNCHANGED <<pending, timers>>
  /\ IF actors[c].ch \in open
     THEN /\ where' = [where EXCEPT ![c] = Routed(c)]
          /\ replyTo' = [replyTo EXCEPT ![c] = IF c \in Requests THEN replyQueue ELSE 0]
          /\ actors' = Goto({c}, IF c \in Requests THEN "asked" ELSE "resolved")
     ELSE actors' = Goto({c}, "rejected") /\ UNCHANGED <<where, replyTo>>
  /\ UNCHANGED <<scenario, connection, channel, replyQueue, closing, explorer, made, open, connOf,
                 consumers, bound, declared, on, replies, budget>>

TimesOut(c) ==
  /\ c \in timers
  /\ timers' = timers \ {c}
  /\ pending' = pending \ {c}
  /\ actors' = Reject({c})
  /\ UNCHANGED <<scenario, connection, channel, replyQueue, closing, replyTo, explorer, broker, budget>>

\* handleReply(): the entry and its timer go first; a reply that is not JSON then
\* throws, and the promise is left to nobody.
HandleReply(reply) ==
  LET c == reply.of IN
  /\ \E n \in open : <<reply.to, n>> \in consumers
  /\ replies' = replies \ {reply}
  /\ IF c \in pending
     THEN /\ pending' = pending \ {c}
          /\ timers' = timers \ {c}
          /\ actors' = CASE reply.kind = "bytes" -> Goto({c} \ Over, "dropped")
                         [] reply.kind = "err"   -> Reject({c})
                         [] OTHER                -> Goto({c} \ Over, "resolved")
     ELSE UNCHANGED <<pending, timers, actors>>
  /\ UNCHANGED <<scenario, connection, channel, replyQueue, closing, replyTo, explorer, made, open,
                 connOf, consumers, bound, declared, where, on, budget>>

\* Faulty variant: close() leaves the timers of what it rejects.
MutDisarmed == timers

\* The timers that close() leaves armed.
Disarmed == timers \ pending

\* close() of a client: the rpc client rejects what is pending.
CloseClient(kind) ==
  /\ kind \notin closing
  /\ Disturb
  /\ closing' = closing \cup {kind}
  /\ IF kind = "rpc"
     THEN pending' = {} /\ timers' = Disarmed /\ actors' = Reject(pending)
     ELSE UNCHANGED <<pending, timers, actors>>
  /\ Shut({channel[kind]})
  /\ UNCHANGED <<scenario, connection, channel, replyQueue, replyTo, explorer, made, connOf,
                 consumers, bound, on, replies>>

CloseClientEnd(kind) ==
  /\ kind \in closing
  /\ closing' = closing \ {kind}
  /\ channel' = [channel EXCEPT ![kind] = 0]
  /\ replyQueue' = IF kind = "rpc" THEN 0 ELSE replyQueue
  /\ UNCHANGED <<scenario, connection, pending, timers, actors, replyTo, explorer, broker, budget>>

-----------------------------------------------------------------------------
(* AmqpExplorer: discover() and the shutdown.                              *)

\* The next binding gets a channel of its own.
Discover ==
  /\ At(Explorer, "idle") \/ At(Explorer, "next")
  /\ IF todo = <<>> THEN actors' = Goto({Explorer}, "resolved") /\ UNCHANGED connection
                    ELSE ToChannel(Explorer)
  /\ UNCHANGED <<scenario, client, explorer, broker, budget>>

\* assertTopology() and consume(): the queue exists and has its consumer.
Bind ==
  LET n == actors[Explorer].ch IN
  /\ At(Explorer, "assert")
  /\ \/ /\ n \in open
        /\ declared' = declared \cup {Head(todo)}
        /\ bound' = bound \cup {<<Head(todo), n>>}
        /\ todo' = Tail(todo)
        /\ actors' = Goto({Explorer}, "next")
     \/ /\ n \notin open
        /\ actors' = Goto({Explorer}, "rejected")
        /\ UNCHANGED <<declared, bound, todo>>
  /\ UNCHANGED <<scenario, connection, client, channels, shutdown, handlers, outcome, stuck, made,
                 open, connOf, consumers, where, on, replies, budget>>

\* onBeforeApplicationShutdown() closes one channel after the other, and then
\* forgets them all, those that discover() has added meanwhile included.
Shutdown ==
  /\ \/ shutdown = 0 /\ Disturb /\ shutdown' = 1
     \/ /\ shutdown # 0
        /\ UNCHANGED budget
        /\ shutdown' = IF shutdown > Len(channels) THEN 0 ELSE shutdown + 1
  /\ channels' = IF shutdown > Len(channels) THEN <<>> ELSE channels
  /\ IF shutdown \in DOMAIN channels THEN Shut({channels[shutdown]})
                                     ELSE UNCHANGED <<open, where, declared>>
  /\ UNCHANGED <<scenario, connection, client, actors, todo, handlers, outcome, stuck, made, connOf,
                 consumers, bound, on, replies>>

-----------------------------------------------------------------------------
(* AmqpExplorer: handle().                                                 *)

\* What a channel of this pattern may have unacknowledged.
Window(kind) == IF kind \in {"worker", "rpc"} THEN 1 ELSE Cardinality(Calls)

\* Faulty variant: the explorer consumes without acknowledgements.
MutDelivered == "settled"

\* The explorer consumes with acknowledgements.
Delivered == "unacked"

\* handle() deserializes before anything else: what is not JSON is given up at once.
Deliver(c) ==
  /\ where[c] = "queue"
  /\ \E n \in open :
       /\ <<Client[c], n>> \in bound
       /\ Cardinality({d \in Calls : where[d] = "unacked" /\ on[d] = n}) < Window(Client[c])
       /\ on' = [on EXCEPT ![c] = n]
       /\ IF c \in Bytes
          THEN stuck' = stuck \cup {<<c, n>>} /\ UNCHANGED <<handlers, outcome>>
          ELSE /\ handlers' = handlers \cup {[of |-> c, on |-> n, at |-> "run"]}
               /\ outcome' = [outcome EXCEPT ![c] = "running"]
               /\ UNCHANGED stuck
  /\ where' = [where EXCEPT ![c] = Delivered]
  /\ UNCHANGED <<scenario, connection, client, actors, todo, channels, shutdown, made, open, connOf,
                 consumers, bound, declared, replies, budget>>

\* An answer goes to the reply queue the message names, if any.
Answer(c, kind) ==
  IF replyTo[c] = 0 THEN {} ELSE {[of |-> c, to |-> replyTo[c], kind |-> kind]}

\* Faulty variant: only requests are acknowledged.
MutAcknowledged(h) ==
  where' = IF h.of \in Requests THEN [where EXCEPT ![h.of] = "settled"] ELSE where

\* The delivery of h is acknowledged or rejected on the channel that gave it.
Acknowledged(h) == where' = [where EXCEPT ![h.of] = "settled"]

\* The consumer returns: answer and acknowledgement, both inside the try; a channel
\* that is closed and a value that cannot be serialized go the way of an error.
Returns(h) ==
  /\ h.at = "run"
  /\ outcome' = [outcome EXCEPT ![h.of] = "returned"]
  /\ \/ /\ h.on \in open
        /\ \E kind \in {"value", "bytes"} : replies' = replies \cup Answer(h.of, kind)
        /\ Acknowledged(h)
        /\ handlers' = handlers \ {h}
     \/ /\ h.on \notin open \/ replyTo[h.of] # 0
        /\ handlers' = (handlers \ {h}) \cup {[h EXCEPT !.at = "filter"]}
        /\ UNCHANGED <<where, replies>>
  /\ UNCHANGED <<scenario, connection, client, actors, todo, channels, shutdown, stuck, made, open,
                 connOf, consumers, bound, declared, on, budget>>

\* A guard refuses, or the consumer throws: the exception filters are awaited.
Throws(h) ==
  /\ h.at = "run"
  /\ outcome' = [outcome EXCEPT ![h.of] = "threw"]
  /\ handlers' = (handlers \ {h}) \cup {[h EXCEPT !.at = "filter"]}
  /\ UNCHANGED <<scenario, connection, client, actors, todo, channels, shutdown, stuck, broker, budget>>

\* The filters have run: the error is answered and the message rejected, unless the
\* channel is closed; a filter that throws in its turn leaves the message as it is.
Filtered(h) ==
  /\ h.at = "filter"
  /\ handlers' = handlers \ {h}
  /\ \/ /\ h.on \in open
        /\ replies' = replies \cup Answer(h.of, "err")
        /\ Acknowledged(h)
        /\ UNCHANGED <<stuck, budget>>
     \/ /\ h.on \notin open
        /\ UNCHANGED <<where, replies, stuck, budget>>
     \/ /\ h.on \in open
        /\ Disturb
        /\ stuck' = stuck \cup {<<h.of, h.on>>}
        /\ UNCHANGED <<where, replies>>
  /\ UNCHANGED <<scenario, connection, client, actors, todo, channels, shutdown, outcome, made, open,
                 connOf, consumers, bound, declared, on>>

-----------------------------------------------------------------------------
Init ==
  /\ scenario \in Scenarios
  /\ model = 0 /\ connecting = 0 /\ conns = 0 /\ up = {} /\ dialing = {} /\ leaving = FALSE
  /\ channel = [k \in Kinds |-> 0] /\ replyQueue = 0 /\ pending = {} /\ timers = {}
  /\ closing = {} /\ replyTo = [c \in Calls |-> 0]
  /\ actors = [a \in Actors |-> [at |-> "idle", conn |-> 0, ch |-> 0]]
  /\ todo = scenario.bindings /\ channels = <<>> /\ shutdown = 0 /\ handlers = {} /\ stuck = {}
  /\ outcome = [c \in Calls |-> "none"]
  /\ made = 0 /\ open = {} /\ connOf = [n \in 1..MaxChannels |-> 0]
  /\ consumers = {} /\ bound = {} /\ declared = {} /\ replies = {}
  /\ where = [c \in Calls |-> "none"] /\ on = [c \in Calls |-> 0]
  /\ budget = scenario.disturbances

Next ==
  \/ \E i \in dialing : DialDone(i) \/ DialFails(i)
  \/ CloseBegin \/ CloseEnd
  \/ \E a \in Actors : Create(a) \/ Refuse(a)
  \/ \E c \in Calls : Call(c) \/ Declare(c) \/ Consume(c) \/ Publish(c) \/ TimesOut(c) \/ Deliver(c)
  \/ \E reply \in replies : HandleReply(reply)
  \/ \E kind \in Range(Client) : CloseClient(kind) \/ CloseClientEnd(kind)
  \/ Discover \/ Bind \/ Shutdown
  \/ \E h \in handlers : Returns(h) \/ Throws(h) \/ Filtered(h)

Spec == Init /\ [][Next]_vars

\* The broker delivers, consumers and exception filters end.
Fairness ==
  \A c \in Calls :
    /\ WF_vars(Deliver(c))
    /\ WF_vars(\E h \in handlers : h.of = c /\ (Returns(h) \/ Throws(h)))
    /\ WF_vars(\E h \in handlers : h.of = c /\ Filtered(h))

FairSpec == Spec /\ Fairness
-----------------------------------------------------------------------------
\* The variables that the calls and the deliveries move through keep their types.
TypeOK ==
  /\ scenario \in Scenarios
  /\ model \in Nat /\ connecting \in Nat /\ conns \in Nat /\ dialing \subseteq Nat
  /\ channel \in [Kinds -> Nat] /\ pending \subseteq Calls
  /\ actors \in [Actors -> [at : {"idle", "connect", "create", "assert", "consume", "ready",
                                 "asked", "next", "dropped", "resolved", "rejected"},
                           conn : Nat, ch : Nat]]
  /\ made \in Nat /\ open \subseteq 1..made
  /\ handlers \subseteq [of : Calls, on : 1..made, at : {"run", "filter"}]
  /\ outcome \in [Calls -> {"none", "running", "returned", "threw"}]
  /\ where \in [Calls -> {"none", "lost", "queue", "unacked", "settled"}]
  /\ on \in [Calls -> Nat]

\* Safety.  A request that was written and has had no reply can still settle: its
\* entry is there and, when the options have a timeout, so is its timer, whatever
\* closes, reconnects and concurrent getChannel() calls did; no other timer runs.
AskedCanSettle ==
  /\ timers \subseteq pending
  /\ \A c \in Requests : At(c, "asked") => c \in pending /\ (Timeout => c \in timers)

\* Safety.  A message is settled only when its consumer has returned or thrown, and one
\* that was delivered is lost only with an anonymous queue: closing channels under
\* running consumers loses none of a named queue.  Implied by ImplementsDelivery.
NothingLost ==
  \A c \in Calls :
    /\ where[c] = "settled" => outcome[c] \in {"returned", "threw"}
    /\ where[c] = "lost" => on[c] = 0 \/ Client[c] \in Anonymous

\* Where a message is and what its consumer does, in the words of Delivery.
Place == [c \in Calls |->
  CASE where[c] = "none"    -> "new"
    [] where[c] = "lost"    -> "out"
    [] where[c] = "queue"   -> "waiting"
    [] where[c] = "unacked" -> "held"
    [] OTHER                -> "gone"]
Consumer == [c \in Calls |-> IF outcome[c] \in {"none", "running"} THEN outcome[c] ELSE "over"]

Volatile == {c \in Calls : Client[c] \in Anonymous}

Q == INSTANCE Delivery WITH
  Messages <- Calls, Unwanted <- {}, place <- Place, consumer <- Consumer, volatile <- Volatile

\* Refinement.  A message of a queue that has a name is delivered at least once, whatever
\* channels close under its consumers: it goes back until one of them acknowledges or
\* rejects it, on the channel that holds it.  What is settled is delivered no more.
ImplementsDelivery == Q!DeliverySpec

\* A consumer of this pattern is bound, and nothing blocks its channel.
Served(kind) ==
  \E n \in open : <<kind, n>> \in bound /\ \A c \in Calls : <<c, n>> \notin stuck

\* Liveness.  A queued message is settled, however its consumer ends, as long as a
\* consumer is open that nothing blocks, unless the message is itself unreadable or
\* given up by a failing filter.
MessageSettles ==
  \A c \in Calls :
    where[c] = "queue" /\ Served(Client[c])
      ~> \/ where[c] = "settled"
         \/ ~Served(Client[c])
         \/ \E n \in 1..MaxChannels : <<c, n>> \in stuck
=============================================================================
