---------------------------- MODULE AmqpRpcProofs ----------------------------
(***************************************************************************)
(* Proofs about AmqpRpc, for any calls, bindings and applications: a       *)
(* request in flight can settle, and a message leaves the broker only      *)
(* when its consumer has ended.                                            *)
(***************************************************************************)
EXTENDS AmqpRpc, TLAPS

Places == {"idle", "connect", "create", "assert", "consume", "ready", "asked", "next",
           "dropped", "resolved", "rejected"}
Actor == [at : Places, conn : Nat, ch : Nat]

\* What a closing channel does to a message: it is queued again, or gone with its queue.
GivenBack(c) == where[c] = "unacked" /\ on[c] \notin open' /\ where'[c] = "queue"
LostWithQueue(c) ==
  /\ where'[c] = "lost" /\ Client[c] \in Anonymous
  /\ where[c] = "queue" \/ (where[c] = "unacked" /\ on[c] \notin open')

-----------------------------------------------------------------------------
(* Where the actors are.                                                   *)

\* Moving some actors keeps their types, and takes none but those to the new place.
LEMMA GotoMoves ==
  ASSUME TypeOK, NEW S, NEW place \in Places, actors' = Goto(S, place)
  PROVE  /\ actors' \in [Actors -> Actor]
         /\ \A a \in Actors : actors'[a].at = IF a \in S THEN place ELSE actors[a].at
<1>1. \A a \in Actors : actors[a] \in Actor
  BY DEF TypeOK, Actor, Places
<1>2. \A a \in Actors : [actors[a] EXCEPT !.at = place] \in Actor
                     /\ [actors[a] EXCEPT !.at = place].at = place
  BY <1>1 DEF Actor
<1> QED BY <1>1, <1>2 DEF Goto

\* createChannel() takes its actor to a connection.
LEMMA ToChannelMoves ==
  ASSUME TypeOK, NEW a \in Actors, ToChannel(a)
  PROVE  /\ actors' \in [Actors -> Actor] /\ conns' \in Nat /\ connecting' \in Nat
         /\ dialing' \subseteq Nat /\ UNCHANGED model
         /\ actors'[a].at # "asked"
         /\ \A b \in Actors \ {a} : actors'[b] = actors[b]
<1> DEFINE i == IF model # 0 THEN model ELSE IF connecting # 0 THEN connecting ELSE conns + 1
           r == [at |-> IF i \in dialing \/ i > conns THEN "connect" ELSE "create",
                 conn |-> i, ch |-> 0]
<1>1. i \in Nat
  BY DEF TypeOK
<1>2. r \in Actor /\ r.at # "asked"
  BY <1>1 DEF Actor, Places
<1>3. actors' = [actors EXCEPT ![a] = r]
  BY DEF ToChannel
<1>4. conns' \in Nat /\ connecting' \in Nat /\ dialing' \subseteq Nat /\ UNCHANGED model
  BY <1>1 DEF ToChannel, TypeOK
<1> HIDE DEF r, i
<1> QED BY <1>2, <1>3, <1>4 DEF TypeOK, Actor, Places

\* Channels that close give back what they had not acknowledged, or delete it.
LEMMA ShutGivesBack ==
  ASSUME TypeOK, NEW S, Shut(S)
  PROVE  /\ where' \in [Calls -> {"none", "lost", "queue", "unacked", "settled"}]
         /\ open' = open \ S
         /\ \A c \in Calls : where'[c] = where[c] \/ GivenBack(c) \/ LostWithQueue(c)
BY DEF TypeOK, Shut, Deleted, GivenBack, LostWithQueue

-----------------------------------------------------------------------------
(* Types.                                                                  *)

\* The initial values have their types.
LEMMA InitTyped == Init => TypeOK
<1> SUFFICES ASSUME Init PROVE TypeOK
  OBVIOUS
<1>1. actors \in [Actors -> Actor]
  BY DEF Init, Actor, Places
<1>2. /\ outcome \in [Calls -> {"none", "running", "returned", "threw"}]
      /\ where \in [Calls -> {"none", "lost", "queue", "unacked", "settled"}]
      /\ on \in [Calls -> Nat] /\ channel \in [Kinds -> Nat]
  BY DEF Init
<1> QED BY <1>1, <1>2 DEF Init, TypeOK, Actor, Places

\* The steps of the connection and of the clients keep the types.
LEMMA ClientTyped ==
  ASSUME TypeOK,
         \/ \E i \in dialing : DialDone(i) \/ DialFails(i)
         \/ CloseBegin \/ CloseEnd
         \/ \E a \in Actors : Create(a) \/ Refuse(a)
         \/ \E c \in Calls : Call(c) \/ Declare(c) \/ Consume(c) \/ Publish(c) \/ TimesOut(c)
         \/ \E reply \in replies : HandleReply(reply)
         \/ \E kind \in Kinds : CloseClient(kind) \/ CloseClientEnd(kind)
  PROVE  TypeOK'
<1> USE DEF Actor, Places
<1>0. ASSUME NEW S, NEW place \in Places, actors' = Goto(S, place)
      PROVE  actors' \in [Actors -> Actor]
  BY <1>0, GotoMoves DEF Actor, Places
<1>1. CASE \E i \in dialing : DialDone(i)
  <2>1. actors' \in [Actors -> Actor]
    BY <1>0, <1>1 DEF DialDone
  <2> QED BY <1>1, <2>1 DEF DialDone, TypeOK, client, explorer, broker
<1>2. CASE \E i \in dialing : DialFails(i)
  <2>1. actors' \in [Actors -> Actor]
    BY <1>0, <1>2 DEF DialFails
  <2> QED BY <1>2, <2>1 DEF DialFails, TypeOK, client, explorer, broker
<1>3. CASE CloseBegin
  BY <1>3, ShutGivesBack DEF CloseBegin, TypeOK, client, explorer
<1>4. CASE CloseEnd
  BY <1>4 DEF CloseEnd, TypeOK, client, explorer, broker
<1>5. CASE \E a \in Actors : Create(a)
  <2> SUFFICES ASSUME NEW a \in Actors, Create(a) PROVE TypeOK'
    BY <1>5
  <2>1. CASE actors' = Goto({a}, "rejected")
    <3>1. actors' \in [Actors -> Actor]
      BY <1>0, <2>1
    <3> QED BY <3>1 DEF Create, TypeOK, connection
  <2>2. CASE actors[a].conn \in up
    <3>1. /\ actors' = [actors EXCEPT ![a].at = "assert", ![a].ch = made + 1]
          /\ made' = made + 1 /\ open' = open \cup {made + 1}
      BY <2>2 DEF Create
    <3>2. actors' \in [Actors -> Actor]
      <4>1. actors \in [Actors -> Actor] /\ made + 1 \in Nat
        BY DEF TypeOK
      <4>2. [actors[a] EXCEPT !.at = "assert", !.ch = made + 1] \in Actor
        BY <4>1
      <4>3. actors' = [actors EXCEPT ![a] = [actors[a] EXCEPT !.at = "assert", !.ch = made + 1]]
        BY <3>1, <4>1
      <4> QED BY <4>1, <4>2, <4>3
    <3>3. channel' \in [Kinds -> Nat]
      BY <2>2 DEF Create, TypeOK
    <3>4. UNCHANGED <<scenario, connection, pending, handlers, outcome, where, on>>
      BY DEF Create
    <3> QED BY <3>1, <3>2, <3>3, <3>4 DEF TypeOK, connection
  <2> QED BY <2>1, <2>2 DEF Create
<1>6. CASE \E a \in Actors : Refuse(a)
  <2>1. PICK a \in Actors : Refuse(a)
    BY <1>6
  <2>2. actors' \in [Actors -> Actor]
    BY <1>0, <2>1 DEF Refuse
  <2> QED BY <2>1, <2>2, ShutGivesBack DEF Refuse, TypeOK, connection, client, explorer
<1>7. CASE \E c \in Calls : Call(c)
  <2>1. PICK c \in Calls : Call(c)
    BY <1>7
  <2>2. c \in Actors /\ Client[c] \in Kinds
    BY ScenarioAssumption DEF Actors, Client, TypeOK
  <2>3. CASE ToChannel(c)
    <3>1. /\ actors' \in [Actors -> Actor] /\ conns' \in Nat /\ connecting' \in Nat
          /\ dialing' \subseteq Nat /\ UNCHANGED model
      BY <2>2, <2>3, ToChannelMoves
    <3> QED BY <2>1, <3>1 DEF Call, TypeOK, client, explorer, broker
  <2>4. CASE channel[Client[c]] # 0
    <3>1. actors' \in [Actors -> Actor]
      BY <2>1, <2>2, <2>4 DEF Call, TypeOK
    <3> QED BY <2>1, <2>4, <3>1 DEF Call, TypeOK, client, explorer, broker, connection
  <2> QED BY <2>1, <2>3, <2>4 DEF Call
<1>8. CASE \E c \in Calls : Declare(c)
  <2>1. PICK c \in Calls : Declare(c)
    BY <1>8
  <2>2. c \in Actors /\ Client[c] \in Kinds
    BY ScenarioAssumption DEF Actors, Client, TypeOK
  <2>3. actors' \in [Actors -> Actor]
    <3>1. CASE actors' = Goto({c}, "rejected")
      BY <1>0, <3>1
    <3>2. CASE actors' # Goto({c}, "rejected")
      BY <2>1, <2>2, <3>2 DEF Declare, TypeOK
    <3> QED BY <3>1, <3>2
  <2> QED BY <2>1, <2>3 DEF Declare, TypeOK, connection, explorer
<1>9. CASE \E c \in Calls : Consume(c)
  <2>1. PICK c \in Calls : Consume(c)
    BY <1>9
  <2>2. actors' \in [Actors -> Actor]
    <3>1. CASE actors' = Goto({c}, "rejected")
      BY <1>0, <3>1
    <3>2. CASE actors' # Goto({c}, "rejected")
      BY <2>1, <3>2 DEF Consume, TypeOK, Kinds
    <3> QED BY <3>1, <3>2
  <2> QED BY <2>1, <2>2 DEF Consume, TypeOK, connection, client, explorer
<1>10. CASE \E c \in Calls : Publish(c)
  <2>1. PICK c \in Calls : Publish(c)
    BY <1>10
  <2>2. actors' \in [Actors -> Actor]
    BY <1>0, <2>1 DEF Publish
  <2>3. /\ where' \in [Calls -> {"none", "lost", "queue", "unacked", "settled"}]
        /\ pending' \subseteq Calls
    BY <2>1 DEF Publish, Routed, TypeOK
  <2> QED BY <2>1, <2>2, <2>3 DEF Publish, TypeOK, connection, explorer
<1>11. CASE \E c \in Calls : TimesOut(c)
  <2>1. PICK c \in Calls : TimesOut(c)
    BY <1>11
  <2>2. actors' \in [Actors -> Actor]
    BY <1>0, <2>1 DEF TimesOut, Reject
  <2> QED BY <2>1, <2>2 DEF TimesOut, TypeOK, connection, explorer, broker
<1>12. CASE \E reply \in replies : HandleReply(reply)
  <2>1. PICK reply \in replies : HandleReply(reply)
    BY <1>12
  <2>2. actors' \in [Actors -> Actor] /\ pending' \subseteq Calls
    <3>1. CASE UNCHANGED <<actors, pending>>
      BY <3>1 DEF TypeOK
    <3>2. CASE reply.of \in pending
      <4>1. pending' \subseteq Calls
        BY <2>1, <3>2 DEF HandleReply, TypeOK
      <4>2. \E S : \E place \in Places : actors' = Goto(S, place)
        BY <2>1, <3>2 DEF HandleReply, Reject
      <4> QED BY <1>0, <4>1, <4>2
    <3> QED BY <2>1, <3>1, <3>2 DEF HandleReply
  <2> QED BY <2>1, <2>2 DEF HandleReply, TypeOK, connection, explorer
<1>13. CASE \E kind \in Kinds : CloseClient(kind)
  <2>1. PICK kind \in Kinds : CloseClient(kind)
    BY <1>13
  <2>2. actors' \in [Actors -> Actor]
    <3>1. CASE UNCHANGED actors
      BY <3>1 DEF TypeOK
    <3>2. CASE actors' = Reject(pending)
      BY <1>0, <3>2 DEF Reject
    <3> QED BY <2>1, <3>1, <3>2 DEF CloseClient
  <2> QED BY <2>1, <2>2, ShutGivesBack DEF CloseClient, TypeOK, connection, explorer
<1>14. CASE \E kind \in Kinds : CloseClientEnd(kind)
  BY <1>14 DEF CloseClientEnd, TypeOK, connection, explorer, broker
<1> QED
  BY <1>1, <1>2, <1>3, <1>4, <1>5, <1>6, <1>7, <1>8, <1>9, <1>10, <1>11, <1>12, <1>13, <1>14

\* The steps of the explorer keep the types.
LEMMA ExplorerTyped ==
  ASSUME TypeOK,
         \/ Discover \/ Bind \/ Shutdown
         \/ \E c \in Calls : Deliver(c)
         \/ \E h \in handlers : Returns(h) \/ Throws(h) \/ Filtered(h)
  PROVE  TypeOK'
<1> USE DEF Actor, Places
<1>0. ASSUME NEW S, NEW place \in Places, actors' = Goto(S, place)
      PROVE  actors' \in [Actors -> Actor]
  BY <1>0, GotoMoves DEF Actor, Places
<1>1. CASE Discover
  <2>1. CASE ToChannel(Explorer)
    <3>1. /\ actors' \in [Actors -> Actor] /\ conns' \in Nat /\ connecting' \in Nat
          /\ dialing' \subseteq Nat /\ UNCHANGED model
      BY <2>1, ToChannelMoves DEF Actors
    <3> QED BY <1>1, <3>1 DEF Discover, TypeOK, client, explorer, broker
  <2>2. CASE actors' = Goto({Explorer}, "resolved") /\ UNCHANGED connection
    <3>1. actors' \in [Actors -> Actor]
      BY <1>0, <2>2
    <3> QED BY <1>1, <2>2, <3>1 DEF Discover, TypeOK, client, explorer, broker, connection
  <2> QED BY <1>1, <2>1, <2>2 DEF Discover
<1>2. CASE Bind
  <2>1. actors' \in [Actors -> Actor]
    BY <1>0, <1>2 DEF Bind
  <2> QED BY <1>2, <2>1 DEF Bind, TypeOK, connection, client
<1>3. CASE Shutdown
  <2>1. CASE UNCHANGED <<open, where>>
    BY <1>3, <2>1 DEF Shutdown, TypeOK, connection, client
  <2>2. CASE Shut({channels[shutdown]})
    BY <1>3, <2>2, ShutGivesBack DEF Shutdown, TypeOK, connection, client
  <2> QED BY <1>3, <2>1, <2>2 DEF Shutdown
<1>4. CASE \E c \in Calls : Deliver(c)
  <2>1. PICK c \in Calls : Deliver(c)
    BY <1>4
  <2>2. PICK n \in open :
          /\ on' = [on EXCEPT ![c] = n]
          /\ \/ UNCHANGED <<handlers, outcome>>
             \/ /\ handlers' = handlers \cup {[of |-> c, on |-> n, at |-> "run"]}
                /\ outcome' = [outcome EXCEPT ![c] = "running"]
    BY <2>1 DEF Deliver
  <2>3. n \in 1..made /\ n \in Nat
    BY <2>2 DEF TypeOK
  <2>4. where' = [where EXCEPT ![c] = "unacked"]
    BY <2>1 DEF Deliver, Delivered
  <2>5. UNCHANGED <<scenario, connection, client, actors, made, open>>
    BY <2>1 DEF Deliver
  <2> QED BY <2>2, <2>3, <2>4, <2>5 DEF TypeOK, connection, client
<1>5. CASE \E h \in handlers : Returns(h) \/ Throws(h) \/ Filtered(h)
  <2>1. PICK h \in handlers : Returns(h) \/ Throws(h) \/ Filtered(h)
    BY <1>5
  <2>2. h \in [of : Calls, on : 1..made, at : {"run", "filter"}]
    BY DEF TypeOK
  <2>3. handlers' \subseteq [of : Calls, on : 1..made, at : {"run", "filter"}]
    BY <2>1, <2>2 DEF Returns, Throws, Filtered, TypeOK
  <2>4. outcome' \in [Calls -> {"none", "running", "returned", "threw"}]
    BY <2>1, <2>2 DEF Returns, Throws, Filtered, TypeOK
  <2>5. where' \in [Calls -> {"none", "lost", "queue", "unacked", "settled"}]
    BY <2>1, <2>2 DEF Returns, Throws, Filtered, Acknowledged, TypeOK, broker
  <2>6. UNCHANGED <<scenario, connection, client, actors, made, open, on>>
    BY <2>1 DEF Returns, Throws, Filtered, broker
  <2> QED BY <2>3, <2>4, <2>5, <2>6 DEF TypeOK, connection, client
<1> QED BY <1>1, <1>2, <1>3, <1>4, <1>5

\* Every step keeps the types.
LEMMA NextTyped == TypeOK /\ [Next]_vars => TypeOK'
<1> SUFFICES ASSUME TypeOK, [Next]_vars PROVE TypeOK'
  OBVIOUS
<1>1. CASE UNCHANGED vars
  BY <1>1 DEF vars, connection, client, explorer, broker, TypeOK
<1>2. CASE Next
  <2>1. \A kind \in Range(Client) : kind \in Kinds
    BY ScenarioAssumption DEF Client, TypeOK, Range
  <2> QED BY <1>2, <2>1, ClientTyped, ExplorerTyped DEF Next
<1> QED BY <1>1, <1>2

\* Type correctness.
THEOREM TypeCorrect == Spec => []TypeOK
<1> QED BY InitTyped, NextTyped, PTL DEF Spec

-----------------------------------------------------------------------------
(* A request in flight can settle.                                         *)

\* Where a call is before its message is written.
Before == {"idle", "connect", "create", "assert", "consume", "ready"}

\* No call goes back before its write, nor to "asked".
Onward ==
  \A c \in Calls : \/ actors'[c].at = actors[c].at
                   \/ /\ actors'[c].at # "asked"
                      /\ actors'[c].at \in Before => actors[c].at \in Before

\* The steps that touch neither the entries nor the timers take no call to "asked".
LEMMA ElsewhereMoves ==
  ASSUME TypeOK,
         \/ \E i \in dialing : DialDone(i) \/ DialFails(i)
         \/ CloseBegin \/ CloseEnd
         \/ \E a \in Actors : Create(a) \/ Refuse(a)
         \/ \E c \in Calls : Call(c) \/ Declare(c) \/ Consume(c) \/ Deliver(c)
         \/ \E kind \in Kinds : CloseClientEnd(kind)
         \/ Discover \/ Bind \/ Shutdown
         \/ \E h \in handlers : Returns(h) \/ Throws(h) \/ Filtered(h)
  PROVE  UNCHANGED <<scenario, pending, timers>> /\ Onward
<1>0. /\ \A a \in Actors : actors[a] \in Actor
      /\ \A c \in Calls : c \in Actors /\ c # Explorer
  BY ScenarioAssumption DEF TypeOK, Actor, Places, Actors
<1>1. ASSUME NEW S, NEW place \in Places \ (Before \cup {"asked"}), actors' = Goto(S, place)
      PROVE  Onward
  BY <1>0, <1>1, GotoMoves DEF Onward
<1>2. ASSUME NEW a \in Actors, NEW r, actors[a].at \in Before, r.at # "asked",
             actors' = [actors EXCEPT ![a] = r]
      PROVE  Onward
  BY <1>0, <1>2 DEF TypeOK, Onward
<1>3. ASSUME NEW a \in Actors, ToChannel(a), a = Explorer \/ actors[a].at \in Before
      PROVE  Onward
  <2>1. actors'[a].at # "asked" /\ \A b \in Actors \ {a} : actors'[b] = actors[b]
    BY <1>3, ToChannelMoves
  <2> QED BY <1>0, <1>3, <2>1 DEF Onward
<1>4. CASE \/ CloseBegin \/ CloseEnd \/ Shutdown
           \/ \E c \in Calls : Deliver(c)
           \/ \E kind \in Kinds : CloseClientEnd(kind)
           \/ \E h \in handlers : Returns(h) \/ Throws(h) \/ Filtered(h)
  <2>1. UNCHANGED <<scenario, pending, timers, actors>>
    BY <1>4 DEF CloseBegin, CloseEnd, Shutdown, Deliver, CloseClientEnd, Returns, Throws,
                Filtered, client
  <2> QED BY <2>1 DEF Onward
<1>5. CASE \/ \E i \in dialing : DialFails(i)
           \/ \E a \in Actors : Refuse(a)
           \/ Bind
  <2>1. UNCHANGED <<scenario, pending, timers>>
    BY <1>5 DEF DialFails, Refuse, Bind, client
  <2>2. \E S : \E place \in Places \ (Before \cup {"asked"}) : actors' = Goto(S, place)
    BY <1>5 DEF DialFails, Refuse, Bind, Places, Before
  <2> QED BY <1>1, <2>1, <2>2
<1>6. CASE \E i \in dialing : DialDone(i)
  <2>1. PICK i \in dialing : DialDone(i)
    BY <1>6
  <2>2. actors' = Goto(Awaiting(i), "create") /\ "create" \in Places
    BY <2>1 DEF DialDone, Places
  <2>3. \A a \in Actors :
          actors'[a].at = IF a \in Awaiting(i) THEN "create" ELSE actors[a].at
    BY <2>2, GotoMoves
  <2>4. Onward
    BY <1>0, <2>3 DEF Onward, Awaiting, At, Before
  <2> QED BY <2>1, <2>4 DEF DialDone, client
<1>7. CASE \E a \in Actors : Create(a)
  <2>1. PICK a \in Actors : Create(a)
    BY <1>7
  <2>2. UNCHANGED <<scenario, pending, timers>>
    BY <2>1 DEF Create
  <2>3. CASE actors' = Goto({a}, "rejected")
    BY <1>1, <2>2, <2>3 DEF Places, Before
  <2>4. CASE actors' = [actors EXCEPT ![a].at = "assert", ![a].ch = made + 1]
    <3> DEFINE r == [actors[a] EXCEPT !.at = "assert", !.ch = made + 1]
    <3>1. r.at # "asked"
      BY <1>0 DEF Actor
    <3>2. actors' = [actors EXCEPT ![a] = r] /\ actors[a].at \in Before
      BY <2>1, <2>4 DEF TypeOK, Create, At, Before
    <3> HIDE DEF r
    <3> QED BY <1>2, <2>2, <3>1, <3>2
  <2> QED BY <2>1, <2>3, <2>4 DEF Create
<1>8. CASE \E c \in Calls : Call(c)
  <2>1. PICK c \in Calls : Call(c)
    BY <1>8
  <2>2. UNCHANGED <<scenario, pending, timers>> /\ actors[c].at \in Before
    BY <2>1 DEF Call, client, At, Before
  <2>3. CASE ToChannel(c)
    BY <1>0, <1>3, <2>2, <2>3
  <2>4. CASE ~ToChannel(c)
    <3> DEFINE r == [actors[c] EXCEPT !.at = "ready", !.ch = channel[Client[c]]]
    <3>1. r.at # "asked"
      BY <1>0 DEF Actor
    <3>2. actors' = [actors EXCEPT ![c] = r]
      BY <1>0, <2>1, <2>4 DEF Call, TypeOK
    <3> HIDE DEF r
    <3> QED BY <1>0, <1>2, <2>2, <3>1, <3>2
  <2> QED BY <2>3, <2>4
<1>9. CASE \E c \in Calls : Declare(c) \/ Consume(c)
  <2>1. PICK c \in Calls : Declare(c) \/ Consume(c)
    BY <1>9
  <2>2. UNCHANGED <<scenario, pending, timers>> /\ actors[c].at \in Before
    BY <2>1 DEF Declare, Consume, client, At, Before
  <2>3. CASE actors' = Goto({c}, "rejected")
    BY <1>1, <2>2, <2>3 DEF Places, Before
  <2>4. CASE actors' # Goto({c}, "rejected")
    <3>1. \A b \in Calls : b # c => actors'[b] = actors[b]
      BY <1>0, <2>1, <2>4 DEF Declare, Consume, TypeOK
    <3>2. actors'[c].at # "asked"
      BY <1>0, <2>1, <2>4 DEF Declare, Consume, TypeOK, Actor
    <3> QED BY <2>2, <3>1, <3>2 DEF Onward
  <2> QED BY <2>3, <2>4
<1>10. CASE Discover
  <2>1. UNCHANGED <<scenario, pending, timers>>
    BY <1>10 DEF Discover, client
  <2>2. CASE ToChannel(Explorer)
    BY <1>3, <2>1, <2>2 DEF Actors
  <2>3. CASE ~ToChannel(Explorer)
    BY <1>1, <1>10, <2>1, <2>3 DEF Discover, Places, Before
  <2> QED BY <2>2, <2>3
<1> QED BY <1>4, <1>5, <1>6, <1>7, <1>8, <1>9, <1>10

\* They keep what is asked able to settle.
LEMMA OthersKeepEntries ==
  ASSUME AskedCanSettle, UNCHANGED <<scenario, pending, timers>>, Onward
  PROVE  AskedCanSettle'
BY DEF AskedCanSettle, At, Requests, Client, Timeout, Onward

\* A request that was written and has had no reply can still settle.
THEOREM RequestsCanSettle == Spec => []AskedCanSettle
<1>1. Init => AskedCanSettle
  BY DEF Init, AskedCanSettle, At, Requests, Actors
<1>2. TypeOK /\ AskedCanSettle /\ [Next]_vars => AskedCanSettle'
  <2> SUFFICES ASSUME TypeOK, AskedCanSettle, [Next]_vars PROVE AskedCanSettle'
    OBVIOUS
  <2>0. \A c \in Calls : c \in Actors /\ actors[c] \in Actor
    BY DEF TypeOK, Actor, Places, Actors
  <2>1. CASE UNCHANGED vars
    BY <2>1, OthersKeepEntries DEF vars, client, Onward
  <2>2. CASE \E c \in Calls : Publish(c)
    <3>1. PICK c \in Calls : Publish(c)
      BY <2>2
    <3>2. UNCHANGED scenario
      BY <3>1 DEF Publish
    <3>3. \A b \in Calls : b # c => actors'[b].at = actors[b].at
      <4>1. \E place \in Places : actors' = Goto({c}, place)
        BY <3>1 DEF Publish, Places
      <4> QED BY <2>0, <4>1, GotoMoves
    <3>4. CASE c \in Requests
      <4>1. pending' = pending \cup {c} /\ timers' = timers \cup Armed(c)
        BY <3>1, <3>4 DEF Publish
      <4> QED BY <3>2, <3>3, <3>4, <4>1 DEF AskedCanSettle, At, Requests, Client, Timeout, Armed
    <3>5. CASE c \notin Requests
      <4>1. UNCHANGED <<pending, timers>>
        BY <3>1, <3>5 DEF Publish
      <4> QED BY <3>2, <3>3, <3>5, <4>1 DEF AskedCanSettle, At, Requests, Client, Timeout
    <3> QED BY <3>4, <3>5
  <2>3. CASE \E c \in Calls : TimesOut(c)
    <3>1. PICK c \in Calls : TimesOut(c)
      BY <2>3
    <3>2. /\ UNCHANGED scenario
          /\ timers' = timers \ {c} /\ pending' = pending \ {c}
          /\ actors' = Goto({c} \ Over, "rejected")
      BY <3>1 DEF TimesOut, Reject
    <3>3. actors'[c].at # "asked" /\ \A b \in Calls : b # c => actors'[b].at = actors[b].at
      BY <2>0, <3>2, GotoMoves DEF Over, Places
    <3> QED BY <3>2, <3>3 DEF AskedCanSettle, At, Requests, Client, Timeout
  <2>4. CASE \E reply \in replies : HandleReply(reply)
    <3>1. PICK reply \in replies : HandleReply(reply)
      BY <2>4
    <3>2. CASE UNCHANGED <<pending, timers, actors>>
      BY <3>1, <3>2, OthersKeepEntries DEF HandleReply, Onward
    <3>3. CASE reply.of \in pending
      <4> DEFINE c == reply.of
      <4>1. c \in Calls
        BY <3>3 DEF TypeOK
      <4>2. /\ UNCHANGED scenario
            /\ timers' = timers \ {c} /\ pending' = pending \ {c}
        BY <3>1, <3>3 DEF HandleReply
      <4>3. \E place \in Places \ {"asked"} : actors' = Goto({c} \ Over, place)
        BY <3>1, <3>3 DEF HandleReply, Reject, Places
      <4>4. actors'[c].at # "asked" /\ \A b \in Calls : b # c => actors'[b].at = actors[b].at
        BY <2>0, <4>1, <4>3, GotoMoves DEF Over
      <4> HIDE DEF c
      <4> QED BY <4>1, <4>2, <4>4 DEF AskedCanSettle, At, Requests, Client, Timeout
    <3> QED BY <3>1, <3>2, <3>3 DEF HandleReply
  <2>5. CASE \E kind \in Kinds : CloseClient(kind)
    <3>1. PICK kind \in Kinds : CloseClient(kind)
      BY <2>5
    <3>2. CASE UNCHANGED <<pending, timers, actors>>
      BY <3>1, <3>2, OthersKeepEntries DEF CloseClient, Onward
    <3>3. CASE kind = "rpc"
      <4>1. /\ UNCHANGED scenario /\ pending' = {} /\ timers' = timers \ pending
            /\ actors' = Goto(pending \ Over, "rejected")
        BY <3>1, <3>3 DEF CloseClient, Reject, Disarmed
      <4>2. "rejected" \in Places
        BY DEF Places
      <4>3. \A a \in Actors :
              actors'[a].at = IF a \in pending \ Over THEN "rejected" ELSE actors[a].at
        BY <4>1, <4>2, GotoMoves
      <4>4. \A c \in Calls : actors'[c].at = "asked" => c \notin pending /\ actors[c].at = "asked"
        BY <2>0, <4>3 DEF Over, At
      <4> QED BY <4>1, <4>4 DEF AskedCanSettle, At, Requests, Client
    <3> QED BY <3>1, <3>2, <3>3 DEF CloseClient
  <2>6. \A kind \in Range(Client) : kind \in Kinds
    BY ScenarioAssumption DEF Client, TypeOK, Range
  <2> QED BY <2>1, <2>2, <2>3, <2>4, <2>5, <2>6, ElsewhereMoves, OthersKeepEntries DEF Next
<1> QED BY <1>1, <1>2, TypeCorrect, PTL DEF Spec

-----------------------------------------------------------------------------
(* A message leaves the broker only when its consumer has ended.           *)

Ended == {"returned", "threw"}

\* A handler whose channel is open holds its message, alone, and has an outcome when
\* it waits for the filters; a call that has not written has no message, and one that
\* is lost was never delivered or had an anonymous queue.
DeliveryInv ==
  /\ \A c \in Calls : actors[c].at \in Before => where[c] = "none"
  /\ \A c \in Calls : /\ where[c] = "none" => on[c] = 0
                      /\ where[c] = "lost" => on[c] = 0 \/ Client[c] \in Anonymous
  /\ \A h \in handlers : h.on \in open =>
       /\ where[h.of] = "unacked" /\ on[h.of] = h.on
       /\ h.at = "filter" => outcome[h.of] \in Ended
  /\ \A h, g \in handlers : h.of = g.of /\ h.on \in open /\ g.on \in open => h = g
  /\ \A c \in Calls : where[c] = "settled" => outcome[c] \in Ended

\* No call goes back before its write.
Later == \A c \in Calls : actors'[c].at \in Before => actors[c].at \in Before

\* The steps outside the handlers: channels may open or close, and a closed one gives
\* its messages back.
LEMMA AroundDeliveries ==
  ASSUME TypeOK, DeliveryInv, Later, UNCHANGED <<scenario, handlers, outcome, on>>,
         \A n \in open' : n \in open \/ n = made + 1,
         \A c \in Calls : where'[c] = where[c] \/ GivenBack(c) \/ LostWithQueue(c)
  PROVE  DeliveryInv'
<1>1. \A h \in handlers : h.of \in Calls /\ h.on \in 1..made
  BY DEF TypeOK
<1>2. \A h \in handlers : h.on \in open' => h.on \in open /\ where'[h.of] = where[h.of]
  <2>1. \A h \in handlers : h.on # made + 1
    BY <1>1 DEF TypeOK
  <2>2. \A h \in handlers : h.on \in open' => h.on \in open
    BY <2>1
  <2> QED BY <1>1, <2>2 DEF DeliveryInv, GivenBack, LostWithQueue
<1>3. \A c \in Calls : actors'[c].at \in Before => where'[c] = "none"
  BY DEF DeliveryInv, Later, GivenBack, LostWithQueue
<1>4. \A c \in Calls : where'[c] = "settled" => outcome'[c] \in Ended
  BY DEF DeliveryInv, GivenBack, LostWithQueue
<1>7. \A c \in Calls : /\ where'[c] = "none" => on'[c] = 0
                       /\ where'[c] = "lost" => on'[c] = 0 \/ Client'[c] \in Anonymous'
  BY DEF DeliveryInv, GivenBack, LostWithQueue, Client, Anonymous
<1>5. \A h \in handlers' : h.on \in open' =>
       /\ where'[h.of] = "unacked" /\ on'[h.of] = h.on
       /\ h.at = "filter" => outcome'[h.of] \in Ended
  BY <1>2 DEF DeliveryInv
<1>6. \A h, g \in handlers' : h.of = g.of /\ h.on \in open' /\ g.on \in open' => h = g
  BY <1>2 DEF DeliveryInv
<1> QED BY <1>3, <1>4, <1>5, <1>6, <1>7 DEF DeliveryInv

\* The steps of the connection, the clients' other calls and the explorer's discovery.
LEMMA ElsewhereDelivers ==
  ASSUME TypeOK, DeliveryInv,
         \/ \E i \in dialing : DialDone(i) \/ DialFails(i)
         \/ CloseBegin \/ CloseEnd
         \/ \E a \in Actors : Create(a) \/ Refuse(a)
         \/ \E c \in Calls : Call(c) \/ Declare(c) \/ Consume(c)
         \/ \E kind \in Kinds : CloseClientEnd(kind)
         \/ Discover \/ Bind \/ Shutdown
  PROVE  DeliveryInv'
<1>1. Later
  BY ElsewhereMoves DEF Onward, Later
<1>2. UNCHANGED <<scenario, handlers, outcome, on>>
  BY DEF DialDone, DialFails, CloseBegin, CloseEnd, Create, Refuse, Call, Declare, Consume,
         CloseClientEnd, Discover, Bind, Shutdown, explorer, broker
<1>3. CASE \E S : Shut(S)
  BY <1>1, <1>2, <1>3, ShutGivesBack, AroundDeliveries
<1>4. CASE \E a \in Actors : Create(a)
  <2>1. UNCHANGED where /\ (UNCHANGED open \/ open' = open \cup {made + 1})
    BY <1>4 DEF Create
  <2> QED BY <1>1, <1>2, <2>1, AroundDeliveries
<1>5. CASE UNCHANGED <<where, open>>
  BY <1>1, <1>2, <1>5, AroundDeliveries
<1> QED
  BY <1>3, <1>4, <1>5 DEF DialDone, DialFails, CloseBegin, CloseEnd, Refuse, Call, Declare,
     Consume, CloseClientEnd, Discover, Bind, Shutdown, explorer, broker

\* The steps that settle the entry of a request.
LEMMA SettlingDelivers ==
  ASSUME TypeOK, DeliveryInv,
         \/ \E c \in Calls : TimesOut(c)
         \/ \E reply \in replies : HandleReply(reply)
         \/ \E kind \in Kinds : CloseClient(kind)
  PROVE  DeliveryInv'
<1>0. \A c \in Calls : c \in Actors /\ actors[c] \in Actor
  BY DEF TypeOK, Actor, Places, Actors
<1>1. Later
  <2>1. CASE UNCHANGED actors
    BY <2>1 DEF Later
  <2>2. CASE \E S : \E place \in Places \ Before : actors' = Goto(S, place)
    BY <1>0, <2>2, GotoMoves DEF Later
  <2> QED BY <2>1, <2>2 DEF TimesOut, HandleReply, CloseClient, Reject, Places, Before
<1>2. UNCHANGED <<scenario, handlers, outcome, on>>
  BY DEF TimesOut, HandleReply, CloseClient, explorer, broker
<1>3. CASE \E S : Shut(S)
  BY <1>1, <1>2, <1>3, ShutGivesBack, AroundDeliveries
<1>4. CASE UNCHANGED <<where, open>>
  BY <1>1, <1>2, <1>4, AroundDeliveries
<1> QED BY <1>3, <1>4 DEF TimesOut, HandleReply, CloseClient, broker

\* A message that is written is new to the broker.
LEMMA PublishDelivers ==
  ASSUME TypeOK, DeliveryInv, NEW c \in Calls, Publish(c)
  PROVE  DeliveryInv'
<1>0. \A b \in Calls : b \in Actors /\ actors[b] \in Actor
  BY DEF TypeOK, Actor, Places, Actors
<1>1. where[c] = "none" /\ \A h \in handlers : h.on \in open => h.of # c
  BY DEF Publish, At, Before, DeliveryInv
<1>2. \E place \in Places \ Before : actors' = Goto({c}, place)
  BY DEF Publish, Places, Before
<1>3. actors'[c].at \notin Before /\ \A b \in Calls : b # c => actors'[b].at = actors[b].at
  <2>1. PICK place \in Places \ Before : actors' = Goto({c}, place)
    BY <1>2
  <2>2. \A a \in Actors : actors'[a].at = IF a \in {c} THEN place ELSE actors[a].at
    BY <2>1, GotoMoves
  <2> QED BY <1>0, <2>2
<1>4. \/ UNCHANGED where
      \/ \E w \in {"queue", "lost"} : where' = [where EXCEPT ![c] = w]
  BY DEF Publish, Routed
<1>5. \A b \in Calls : b # c => where'[b] = where[b]
  BY <1>4 DEF TypeOK
<1>6. where'[c] # "settled"
  BY <1>1, <1>4 DEF TypeOK
<1>7. UNCHANGED <<scenario, handlers, outcome, on, open>>
  BY DEF Publish, explorer
<1>8. \A h \in handlers : h.of \in Calls
  BY DEF TypeOK
<1>9. on[c] = 0
  BY <1>1 DEF DeliveryInv
<1> QED BY <1>1, <1>3, <1>5, <1>6, <1>7, <1>8, <1>9 DEF DeliveryInv, Client, Anonymous

\* A delivery makes the only handler of its message on an open channel.
LEMMA DeliverDelivers ==
  ASSUME TypeOK, DeliveryInv, NEW c \in Calls, Deliver(c)
  PROVE  DeliveryInv'
<1>1. where[c] = "queue" /\ \A h \in handlers : h.on \in open => h.of # c
  BY DEF Deliver, DeliveryInv
<1>2. PICK n \in open :
        /\ on' = [on EXCEPT ![c] = n]
        /\ \/ UNCHANGED <<handlers, outcome>>
           \/ /\ handlers' = handlers \cup {[of |-> c, on |-> n, at |-> "run"]}
              /\ outcome' = [outcome EXCEPT ![c] = "running"]
  BY DEF Deliver
<1>3. where' = [where EXCEPT ![c] = "unacked"] /\ UNCHANGED <<scenario, actors, open>>
  BY DEF Deliver, Delivered
<1>4. /\ where'[c] = "unacked" /\ on'[c] = n
      /\ \A b \in Calls : b # c => where'[b] = where[b] /\ on'[b] = on[b] /\ outcome'[b] = outcome[b]
  BY <1>2, <1>3 DEF TypeOK
<1>5. \A h \in handlers : h.of \in Calls
  BY DEF TypeOK
<1>6. \A h \in handlers' : h \in handlers \/ (h.of = c /\ h.on = n /\ h.at = "run")
  BY <1>2
<1>7. \A b \in Calls : actors'[b].at \in Before => where'[b] = "none"
  BY <1>1, <1>3, <1>4 DEF DeliveryInv
<1>8. \A h \in handlers' : h.on \in open' =>
       /\ where'[h.of] = "unacked" /\ on'[h.of] = h.on
       /\ h.at = "filter" => outcome'[h.of] \in Ended
  BY <1>1, <1>3, <1>4, <1>5, <1>6 DEF DeliveryInv
<1>9. \A h, g \in handlers' : h.of = g.of /\ h.on \in open' /\ g.on \in open' => h = g
  <2>1. \A h \in handlers' : h.on \in open' /\ h \in handlers => h.of # c
    BY <1>1, <1>3
  <2>2. \A h \in handlers' : h \in handlers \/ h = [of |-> c, on |-> n, at |-> "run"]
    BY <1>2
  <2> QED BY <1>3, <2>1, <2>2 DEF DeliveryInv
<1>10. \A b \in Calls : where'[b] = "settled" => outcome'[b] \in Ended
  BY <1>4 DEF DeliveryInv
<1>11. \A b \in Calls : /\ where'[b] = "none" => on'[b] = 0
                        /\ where'[b] = "lost" => on'[b] = 0 \/ Client'[b] \in Anonymous'
  BY <1>3, <1>4 DEF DeliveryInv, Client, Anonymous
<1> QED BY <1>7, <1>8, <1>9, <1>10, <1>11 DEF DeliveryInv

\* A handler that ends settles its own message, after its outcome.
LEMMA HandlersDeliver ==
  ASSUME TypeOK, DeliveryInv, NEW h \in handlers, Returns(h) \/ Throws(h) \/ Filtered(h)
  PROVE  DeliveryInv'
<1>0. /\ h.of \in Calls /\ h \in [of : Calls, on : 1..made, at : {"run", "filter"}]
      /\ \A g \in handlers : g.of \in Calls
  BY DEF TypeOK
<1>1. UNCHANGED <<scenario, actors, open, on>>
  BY DEF Returns, Throws, Filtered, broker
<1>2. \/ handlers' = handlers \ {h}
      \/ handlers' = (handlers \ {h}) \cup {[h EXCEPT !.at = "filter"]}
  BY DEF Returns, Throws, Filtered
<1>3. \A g \in handlers' :
        \/ g \in handlers /\ g # h
        \/ /\ g.of = h.of /\ g.on = h.on /\ handlers' # handlers \ {h}
           /\ g = [h EXCEPT !.at = "filter"]
  BY <1>0, <1>2
<1>4. \A b \in Calls : outcome'[b] = outcome[b] \/ (b = h.of /\ outcome'[b] \in Ended)
  BY <1>0 DEF Returns, Throws, Filtered, Ended, TypeOK
<1>5. \/ UNCHANGED where
      \/ where' = [where EXCEPT ![h.of] = "settled"] /\ h.on \in open /\ handlers' = handlers \ {h}
  BY DEF Returns, Throws, Filtered, Acknowledged, broker
<1>6. \/ outcome'[h.of] \in Ended
      \/ UNCHANGED outcome /\ h.at = "filter" /\ handlers' = handlers \ {h}
  BY <1>0 DEF Returns, Throws, Filtered, Ended, TypeOK
<1>7. \A g \in handlers : g # h /\ g.on \in open /\ h.on \in open => g.of # h.of
  BY DEF DeliveryInv
<1>8. \A b \in Calls : actors'[b].at \in Before => where'[b] = "none"
  BY <1>0, <1>1, <1>5 DEF DeliveryInv, TypeOK
<1>9. \A g \in handlers' : g.on \in open' =>
        /\ where'[g.of] = "unacked" /\ on'[g.of] = g.on
        /\ g.at = "filter" => outcome'[g.of] \in Ended
  <2> SUFFICES ASSUME NEW g \in handlers', g.on \in open
               PROVE  /\ where'[g.of] = "unacked" /\ on'[g.of] = g.on
                      /\ g.at = "filter" => outcome'[g.of] \in Ended
    BY <1>1
  <2>1. CASE g \in handlers /\ g # h
    <3>1. where[g.of] = "unacked" /\ on[g.of] = g.on /\ (g.at = "filter" => outcome[g.of] \in Ended)
      BY <2>1 DEF DeliveryInv
    <3>2. where'[g.of] = where[g.of]
      BY <1>0, <1>5, <1>7, <2>1 DEF TypeOK
    <3> QED BY <1>0, <1>1, <1>4, <2>1, <3>1, <3>2
  <2>2. CASE g.of = h.of /\ g.on = h.on /\ handlers' # handlers \ {h}
    <3>1. where[h.of] = "unacked" /\ on[h.of] = h.on
      BY <2>2 DEF DeliveryInv
    <3> QED BY <1>1, <1>5, <1>6, <2>2, <3>1
  <2> QED BY <1>3, <2>1, <2>2
<1>10. \A g, k \in handlers' : g.of = k.of /\ g.on \in open' /\ k.on \in open' => g = k
  BY <1>1, <1>3, <1>7 DEF DeliveryInv
<1>11. \A b \in Calls : where'[b] = "settled" => outcome'[b] \in Ended
  <2>1. where'[h.of] = "settled" => outcome'[h.of] \in Ended
    BY <1>0, <1>5, <1>6 DEF DeliveryInv
  <2>2. \A b \in Calls : b # h.of => where'[b] = where[b]
    BY <1>5 DEF TypeOK
  <2> QED BY <1>4, <2>1, <2>2 DEF DeliveryInv
<1>12. \A b \in Calls : /\ where'[b] = "none" => on'[b] = 0
                        /\ where'[b] = "lost" => on'[b] = 0 \/ Client'[b] \in Anonymous'
  BY <1>0, <1>1, <1>5 DEF DeliveryInv, Client, Anonymous, TypeOK
<1> QED BY <1>8, <1>9, <1>10, <1>11, <1>12 DEF DeliveryInv

\* Deliveries and the messages they hold belong together in every state.
LEMMA DeliveriesHold == Spec => []DeliveryInv
<1>1. Init => DeliveryInv
  BY DEF Init, DeliveryInv
<1>2. TypeOK /\ DeliveryInv /\ [Next]_vars => DeliveryInv'
  <2> SUFFICES ASSUME TypeOK, DeliveryInv, [Next]_vars PROVE DeliveryInv'
    OBVIOUS
  <2>1. CASE UNCHANGED vars
    BY <2>1, AroundDeliveries DEF vars, explorer, broker, Later
  <2>2. \A kind \in Range(Client) : kind \in Kinds
    BY ScenarioAssumption DEF Client, TypeOK, Range
  <2> QED BY <2>1, <2>2, ElsewhereDelivers, SettlingDelivers, PublishDelivers, DeliverDelivers,
             HandlersDeliver DEF Next
<1> QED BY <1>1, <1>2, TypeCorrect, PTL DEF Spec

\* A message leaves the broker only when its consumer has returned or thrown, and one
\* that was delivered is lost only with an anonymous queue.
THEOREM NothingIsLost == Spec => []NothingLost
<1>1. DeliveryInv => NothingLost
  BY DEF DeliveryInv, NothingLost, Ended
<1> QED BY <1>1, DeliveriesHold, PTL

-----------------------------------------------------------------------------
(* The consumers implement Delivery.                                       *)

\* A call that still runs belongs to a message a consumer was started for.
StartedInv == \A h \in handlers : outcome[h.of] # "none"

\* Every step keeps it: an outcome is never unset.
LEMMA NextStarted == TypeOK /\ StartedInv /\ [Next]_vars => StartedInv'
<1> SUFFICES ASSUME TypeOK, StartedInv, [Next]_vars PROVE StartedInv'
  OBVIOUS
<1>1. CASE UNCHANGED <<handlers, outcome>>
  BY <1>1 DEF StartedInv
<1>2. CASE \E c \in Calls : Deliver(c)
  BY <1>2 DEF Deliver, StartedInv, TypeOK
<1>3. ASSUME NEW h \in handlers, Returns(h) \/ Throws(h) \/ Filtered(h)
      PROVE  StartedInv'
  <2>1. h \in [of : Calls, on : 1..made, at : {"run", "filter"}]
    BY DEF TypeOK
  <2>2. \A g \in handlers' : \E k \in handlers : g.of = k.of
    BY <1>3, <2>1 DEF Returns, Throws, Filtered
  <2>3. \A c \in Calls : outcome[c] # "none" => outcome'[c] # "none"
    BY <1>3, <2>1 DEF Returns, Throws, Filtered, TypeOK
  <2>4. \A k \in handlers : k.of \in Calls
    BY DEF TypeOK
  <2> QED BY <2>2, <2>3, <2>4 DEF StartedInv
<1> QED
  BY <1>1, <1>2, <1>3 DEF Next, DialDone, DialFails, CloseBegin, CloseEnd, Create, Refuse, Call,
     Declare, Consume, Publish, TimesOut, HandleReply, CloseClient, CloseClientEnd, Discover, Bind,
     Shutdown, vars, explorer

\* What a step leaves of the messages and their consumers, Delivery leaves too.
LEMMA UnmovedMaps ==
  ASSUME UNCHANGED <<scenario, where, outcome>>
  PROVE  UNCHANGED Q!deliveryVars
BY DEF Place, Consumer, Volatile, Client, Anonymous, Q!deliveryVars

\* The queues that are deleted with their channel stay the same.
LEMMA VolatileStays ==
  ASSUME UNCHANGED scenario
  PROVE  UNCHANGED Volatile
BY DEF Volatile, Client, Anonymous

\* A channel that closes gives its messages back, but for those of an anonymous queue.
LEMMA ShutMaps ==
  ASSUME NEW S, Shut(S), UNCHANGED <<scenario, outcome>>
  PROVE  Q!DeliveryNext
<1>1. PICK T : T = {c \in Calls : where[c] = "unacked" /\ on[c] \in S}
  OBVIOUS
<1>2. PICK D : D = Deleted(S)
  OBVIOUS
<1>3. T \in SUBSET Q!At("held")
  BY <1>1 DEF Q!At, Place
<1>4. D \in SUBSET (Volatile \cap (T \cup Q!At("waiting")))
  BY <1>1, <1>2 DEF Deleted, Volatile, Q!At, Place
<1>5. where' = [c \in Calls |-> IF c \in D THEN "lost" ELSE IF c \in T THEN "queue" ELSE where[c]]
  BY <1>1, <1>2 DEF Shut
<1>6. Place' = [c \in Calls |-> IF c \in D THEN "out" ELSE IF c \in T THEN "waiting" ELSE Place[c]]
  BY <1>5 DEF Place
<1>7. UNCHANGED <<Consumer, Volatile>>
  BY VolatileStays DEF Consumer
<1>8. Q!Release(T, D)
  BY <1>6, <1>7 DEF Q!Release
<1> QED BY <1>3, <1>4, <1>7, <1>8 DEF Q!DeliveryNext

\* A message that is written reaches a queue or nothing.
LEMMA PublishMaps ==
  ASSUME TypeOK, DeliveryInv, NEW c \in Calls, Publish(c)
  PROVE  [Q!DeliveryNext]_Q!deliveryVars
<1>1. where[c] = "none" /\ DOMAIN where = Calls /\ UNCHANGED <<scenario, outcome>>
  BY DEF Publish, At, Before, DeliveryInv, explorer, TypeOK
<1>2. Place[c] = "new" /\ UNCHANGED <<Consumer, Volatile>>
  BY <1>1, VolatileStays DEF Place, Consumer
<1>3. CASE UNCHANGED where
  BY <1>1, <1>3, UnmovedMaps
<1>4. CASE where' = [where EXCEPT ![c] = "queue"]
  <2>1. Place' = [Place EXCEPT ![c] = "waiting"]
    BY <1>1, <1>4 DEF Place
  <2>2. Q!Accept(c)
    BY <1>2, <2>1 DEF Q!Accept
  <2> QED BY <1>2, <2>2 DEF Q!DeliveryNext
<1>5. CASE where' = [where EXCEPT ![c] = "lost"]
  <2>1. Place' = [b \in Calls |-> IF b \in {c} THEN "out" ELSE Place[b]]
    BY <1>1, <1>5 DEF Place
  <2>2. Q!Refuse({c}) /\ {c} \in SUBSET Q!At("new")
    BY <1>2, <2>1 DEF Q!Refuse, Q!At
  <2> QED BY <1>2, <2>2 DEF Q!DeliveryNext
<1> QED BY <1>3, <1>4, <1>5 DEF Publish, Routed

\* A delivery starts a consumer, or keeps a message that cannot be read.
LEMMA DeliverMaps ==
  ASSUME TypeOK, NEW c \in Calls, Deliver(c)
  PROVE  Q!DeliveryNext
<1>1. /\ where[c] = "queue" /\ DOMAIN where = Calls /\ DOMAIN outcome = Calls
      /\ where' = [where EXCEPT ![c] = "unacked"] /\ UNCHANGED scenario
  BY DEF Deliver, Delivered, TypeOK
<1>2. Place[c] = "waiting" /\ Place' = [Place EXCEPT ![c] = "held"] /\ UNCHANGED Volatile
  BY <1>1, VolatileStays DEF Place
<1>3. CASE UNCHANGED outcome
  <2>1. UNCHANGED Consumer
    BY <1>3 DEF Consumer
  <2>2. Q!Keep(c)
    BY <1>2, <2>1 DEF Q!Keep
  <2> QED BY <1>2, <2>2 DEF Q!DeliveryNext
<1>4. CASE outcome' = [outcome EXCEPT ![c] = "running"]
  <2>1. Consumer' = [Consumer EXCEPT ![c] = "running"]
    BY <1>1, <1>4 DEF Consumer
  <2>2. Q!Start(c)
    BY <1>2, <2>1 DEF Q!Start
  <2> QED BY <1>2, <2>2 DEF Q!DeliveryNext
<1> QED BY <1>3, <1>4 DEF Deliver

\* A consumer that ends settles the message it holds, or leaves it to its channel.
LEMMA HandlerMaps ==
  ASSUME TypeOK, DeliveryInv, StartedInv, NEW h \in handlers,
         Returns(h) \/ Throws(h) \/ Filtered(h)
  PROVE  [Q!DeliveryNext]_Q!deliveryVars
<1>1. PICK c \in Calls : c = h.of
  BY DEF TypeOK
<1>2. /\ DOMAIN where = Calls /\ DOMAIN outcome = Calls /\ outcome[c] # "none"
      /\ h.on \in open =>
           where[c] = "unacked" /\ (h.at = "filter" => outcome[c] \in {"returned", "threw"})
  BY <1>1 DEF TypeOK, StartedInv, DeliveryInv, Ended
<1>3. Consumer[c] # "none" /\ (h.on \in open => Place[c] = "held")
  BY <1>2 DEF Place, Consumer
<1>8. UNCHANGED <<scenario, Volatile>>
  BY VolatileStays DEF Returns, Throws, Filtered
<1>4. /\ UNCHANGED where \/ (h.on \in open /\ where' = [where EXCEPT ![c] = "settled"])
      /\ \/ UNCHANGED outcome /\ h.at = "filter"
         \/ \E how \in {"returned", "threw"} : outcome' = [outcome EXCEPT ![c] = how]
  BY <1>1 DEF Returns, Throws, Filtered, Acknowledged, broker
<1>5. CASE UNCHANGED <<where, outcome>>
  BY <1>5, <1>8, UnmovedMaps
<1>6. CASE UNCHANGED where /\ \E how \in {"returned", "threw"} : outcome' = [outcome EXCEPT ![c] = how]
  <2>1. UNCHANGED Place /\ Consumer' = [Consumer EXCEPT ![c] = "over"]
    BY <1>2, <1>6 DEF Place, Consumer
  <2>2. Q!Decide(c)
    BY <1>3, <2>1 DEF Q!Decide
  <2> QED BY <1>8, <2>2 DEF Q!DeliveryNext
<1>7. CASE h.on \in open /\ where' = [where EXCEPT ![c] = "settled"]
  <2>1. Place' = [Place EXCEPT ![c] = "gone"]
    BY <1>2, <1>7 DEF Place
  <2>2. Consumer' = [Consumer EXCEPT ![c] = "over"]
    BY <1>2, <1>4, <1>7 DEF Consumer
  <2>3. Q!Settle(c)
    BY <1>3, <1>7, <2>1, <2>2 DEF Q!Settle
  <2> QED BY <1>8, <2>3 DEF Q!DeliveryNext
<1> QED BY <1>4, <1>5, <1>6, <1>7

\* Every step is one of Delivery, or leaves it as it is.
LEMMA StepDelivers ==
  TypeOK /\ DeliveryInv /\ StartedInv /\ [Next]_vars => [Q!DeliveryNext]_Q!deliveryVars
<1> SUFFICES ASSUME TypeOK, DeliveryInv, StartedInv, [Next]_vars
             PROVE  [Q!DeliveryNext]_Q!deliveryVars
  OBVIOUS
<1>1. CASE UNCHANGED <<scenario, where, outcome>>
  BY <1>1, UnmovedMaps
<1>2. CASE UNCHANGED <<scenario, outcome>> /\ \E S : Shut(S)
  BY <1>2, ShutMaps
<1>3. CASE \E c \in Calls : Publish(c) \/ Deliver(c)
  BY <1>3, PublishMaps, DeliverMaps
<1>4. CASE \E h \in handlers : Returns(h) \/ Throws(h) \/ Filtered(h)
  BY <1>4, HandlerMaps
<1>5. CASE \/ \E i \in dialing : DialDone(i) \/ DialFails(i)
           \/ CloseEnd
           \/ \E a \in Actors : Create(a)
           \/ \E c \in Calls : Call(c) \/ Declare(c) \/ Consume(c) \/ TimesOut(c)
           \/ \E reply \in replies : HandleReply(reply)
           \/ \E kind \in Range(Client) : CloseClientEnd(kind)
           \/ Discover \/ Bind \/ UNCHANGED vars
  BY <1>1, <1>5 DEF DialDone, DialFails, CloseEnd, Create, Call, Declare, Consume, TimesOut,
     HandleReply, CloseClientEnd, Discover, Bind, vars, explorer, broker
<1>6. CASE \/ CloseBegin
           \/ \E a \in Actors : Refuse(a)
           \/ \E kind \in Range(Client) : CloseClient(kind)
           \/ Shutdown
  BY <1>1, <1>2, <1>6 DEF CloseBegin, Refuse, CloseClient, Shutdown, explorer, broker
<1> QED BY <1>3, <1>4, <1>5, <1>6 DEF Next

\* The AMQP consumers implement Delivery for any application and any number of channels:
\* a message of a named queue is delivered until a consumer has ended that holds it on an
\* open channel, and then no more, whatever closes, is refused or fails under the
\* consumers; an anonymous queue takes its messages with its channel.
THEOREM ConsumersImplementDelivery == Spec => ImplementsDelivery
<1>1. Init => StartedInv
  BY DEF Init, StartedInv
<1>2. Init => Q!DeliveryInit
  <2> SUFFICES ASSUME Init PROVE Q!DeliveryInit
    OBVIOUS
  <2>1. /\ Place = [c \in Calls |-> "new"] /\ Consumer = [c \in Calls |-> "none"]
        /\ Volatile \subseteq Calls
    BY DEF Init, Place, Consumer, Volatile
  <2> QED BY <2>1 DEF Q!DeliveryInit
<1> QED
  BY <1>1, <1>2, TypeCorrect, NextStarted, DeliveriesHold, StepDelivers, PTL
  DEF Spec, ImplementsDelivery, Q!DeliverySpec
=============================================================================
