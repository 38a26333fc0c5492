---------------------------- MODULE RmqRpcProofs ----------------------------
(***************************************************************************)
(* Proofs about RmqRpc, for any sets of messages, any prefetch count and   *)
(* any number of connections, closes, losses and crashes: its types, that  *)
(* a request written to the broker stays settleable, and that nothing the  *)
(* broker holds is acknowledged before its handler has ended.              *)
(***************************************************************************)
EXTENDS RmqRpc, TLAPS

-----------------------------------------------------------------------------
(* Types.                                                                  *)

\* The initial values have their types.
LEMMA InitTyped == Init => TypeOK
<1> SUFFICES ASSUME Init PROVE TypeOK
  OBVIOUS
<1>1. /\ budget \in [{"listen", "stop", "close", "loss"} -> Nat]
      /\ where \in [Messages -> {"none", "wire", "lost", "queue", "unacked", "settled"}]
  <2>1. PICK s \in Scenarios :
          /\ where = [m \in Messages |-> IF m \in s.poison THEN "queue" ELSE "none"]
          /\ budget = s.budget
    BY DEF Init
  <2>2. budget \in [{"listen", "stop", "close", "loss"} -> Nat]
    BY <2>1, BoundAssumption
  <2>3. where \in [Messages -> {"none", "wire", "lost", "queue", "unacked", "settled"}]
    BY <2>1
  <2> QED BY <2>2, <2>3
<1>2. sends \in [Sent -> {"idle", "connecting", "connected", "asked", "resolved", "rejected"}]
  BY DEF Init
<1>3. replyTo \in [Messages -> {0}] /\ tag \in [Messages -> {0}]
  BY DEF Init
<1>4. dial \in [at : {"no", "connect", "channel", "queue", "consume"}, to : 0..dials]
  BY DEF Init
<1>5. outcome \in [Messages -> {"none", "running", "returned", "threw"}]
  BY DEF Init
<1>6. consumed \in BOOLEAN /\ stopping \in BOOLEAN /\ misdirected \in BOOLEAN
  BY Zenon DEF Init
<1> QED BY <1>1, <1>2, <1>3, <1>4, <1>5, <1>6 DEF Init, TypeOK

\* Settling some of the messages keeps the type of `sends`.
LEMMA SettleAllTyped ==
  ASSUME NEW S, NEW how \in {"connected", "resolved", "rejected"}, TypeOK, SettleAll(S, how)
  PROVE  sends' \in [Sent -> {"idle", "connecting", "connected", "asked", "resolved",
                              "rejected"}]
BY DEF TypeOK, SettleAll

\* Losing the channel of the server keeps the types of what it changes.
LEMMA DisconnectedTyped ==
  ASSUME TypeOK, Disconnected
  PROVE  /\ live' = 0 /\ consumed' \in BOOLEAN /\ nextTag' = 1
         /\ tag' \in [Messages -> Nat]
         /\ where' \in [Messages -> {"none", "wire", "lost", "queue", "unacked", "settled"}]
<1>1. consumed' \in BOOLEAN
  BY Zenon DEF Disconnected
<1> QED BY <1>1 DEF TypeOK, Disconnected

\* The steps of the client keep the types.
LEMMA ClientTyped ==
  ASSUME TypeOK,
         \/ DialConnects \/ DialOpens \/ DialNames \/ DialConsumes \/ DialFails
         \/ CloseBegin \/ CloseConnection \/ CloseEnd \/ HandleReply
         \/ \E m \in Sent : Start(m) \/ Publish(m)
  PROVE  TypeOK'
<1>1. CASE DialConnects
  BY <1>1 DEF DialConnects, TypeOK, server
<1>2. CASE DialOpens
  BY <1>2 DEF DialOpens, TypeOK, server, broker
<1>3. CASE DialNames
  <2>1. sends' \in [Sent -> {"idle", "connecting", "connected", "asked", "resolved",
                             "rejected"}]
    <3>1. CASE channel = 0
      BY <1>3, <3>1, SettleAllTyped DEF DialNames
    <3>2. CASE channel # 0
      BY <1>3, <3>2 DEF DialNames, TypeOK
    <3> QED BY <3>1, <3>2
  <2> QED BY <1>3, <2>1 DEF DialNames, TypeOK, server, broker
<1>4. CASE DialConsumes
  <2>1. sends' \in [Sent -> {"idle", "connecting", "connected", "asked", "resolved",
                             "rejected"}]
    BY <1>4, SettleAllTyped DEF DialConsumes
  <2>2. dial' \in [at : {"no", "connect", "channel", "queue", "consume"}, to : 0..dials]
    BY <1>4 DEF DialConsumes, TypeOK
  <2>3. consuming' \subseteq 0..dials
    BY <1>4 DEF DialConsumes, TypeOK
  <2> QED BY <1>4, <2>1, <2>2, <2>3 DEF DialConsumes, TypeOK, server
<1>5. CASE DialFails
  <2>1. sends' \in [Sent -> {"idle", "connecting", "connected", "asked", "resolved",
                             "rejected"}]
    BY <1>5, SettleAllTyped DEF DialFails
  <2>2. dial' \in [at : {"no", "connect", "channel", "queue", "consume"}, to : 0..dials]
    BY <1>5 DEF DialFails, TypeOK
  <2> QED BY <1>5, <2>1, <2>2 DEF DialFails, TypeOK, server
<1>6. CASE CloseBegin
  <2>1. sends' \in [Sent -> {"idle", "connecting", "connected", "asked", "resolved",
                             "rejected"}]
    BY <1>6, SettleAllTyped DEF CloseBegin
  <2> QED BY <1>6, <2>1 DEF CloseBegin, TypeOK, server, Spend
<1>7. CASE CloseConnection
  BY <1>7 DEF CloseConnection, TypeOK, server
<1>8. CASE CloseEnd
  BY <1>8 DEF CloseEnd, TypeOK, server, broker
<1>9. CASE HandleReply
  <2>1. PICK reply \in replies :
          /\ replies' = replies \ {reply}
          /\ pending' = pending \ {reply.of}
          /\ SettleAll({reply.of} \cap pending, Verdict(reply))
    BY <1>9 DEF HandleReply
  <2>2. Verdict(reply) \in {"resolved", "rejected"}
    BY DEF Verdict
  <2>3. sends' \in [Sent -> {"idle", "connecting", "connected", "asked", "resolved",
                             "rejected"}]
    BY <2>1, <2>2, SettleAllTyped
  <2> QED BY <1>9, <2>1, <2>3 DEF HandleReply, TypeOK, server
<1>10. CASE \E m \in Sent : Start(m)
  BY <1>10 DEF Start, TypeOK, server, broker
<1>11. CASE \E m \in Sent : Publish(m)
  <2> SUFFICES ASSUME NEW m \in Sent, Publish(m) PROVE TypeOK'
    BY <1>11
  <2> USE DEF Publish, TypeOK, server, Messages
  <2>1. sends' \in [Sent -> {"idle", "connecting", "connected", "asked", "resolved",
                             "rejected"}]
    OBVIOUS
  <2>2. pending' \subseteq Requests
    OBVIOUS
  <2>3. where' \in [Messages -> {"none", "wire", "lost", "queue", "unacked", "settled"}]
    OBVIOUS
  <2>4. replyTo' \in [Messages -> 0..dials]
    OBVIOUS
  <2> QED BY <2>1, <2>2, <2>3, <2>4
<1> QED
  BY <1>1, <1>2, <1>3, <1>4, <1>5, <1>6, <1>7, <1>8, <1>9, <1>10, <1>11

\* The steps of the broker and of the server keep the types.
LEMMA ServerTyped ==
  ASSUME TypeOK,
         \/ Lose \/ Listen \/ ListenOpens \/ ListenConsumes
         \/ StopBegin \/ StopEnd \/ ServerLost \/ Crash
         \/ \E m \in Messages : Route(m) \/ Deliver(m)
         \/ \E h \in handlers : Finish(h)
  PROVE  TypeOK'
<1>1. CASE Lose
  BY <1>1 DEF Lose, Spend, TypeOK, client, server
<1>2. CASE Listen
  BY <1>2 DEF Listen, Spend, TypeOK, client, broker
<1>3. CASE ListenOpens
  BY <1>3 DEF ListenOpens, TypeOK, client
<1>4. CASE ListenConsumes
  BY <1>4 DEF ListenConsumes, Writable, TypeOK, client
<1>5. CASE StopBegin
  <2>1. CASE Writable
    <3>1. Disconnected
      BY <1>5, <2>1 DEF StopBegin
    <3>2. /\ live' = 0 /\ consumed' \in BOOLEAN /\ nextTag' = 1 /\ tag' \in [Messages -> Nat]
          /\ where' \in [Messages -> {"none", "wire", "lost", "queue", "unacked", "settled"}]
      BY <3>1, DisconnectedTyped
    <3>3. stopping' \in BOOLEAN
      BY <1>5, Zenon DEF StopBegin
    <3> QED BY <1>5, <3>2, <3>3 DEF StopBegin, Spend, TypeOK, client
  <2>2. CASE ~Writable
    BY <1>5, <2>2 DEF StopBegin, Spend, TypeOK, client
  <2> QED BY <2>1, <2>2
<1>6. CASE StopEnd
  <2>1. stopping' \in BOOLEAN
    BY <1>6, Zenon DEF StopEnd
  <2> QED BY <1>6, <2>1 DEF StopEnd, TypeOK, client, broker
<1>7. CASE ServerLost
  <2>1. Disconnected
    BY <1>7 DEF ServerLost
  <2>2. /\ live' = 0 /\ consumed' \in BOOLEAN /\ nextTag' = 1 /\ tag' \in [Messages -> Nat]
        /\ where' \in [Messages -> {"none", "wire", "lost", "queue", "unacked", "settled"}]
    BY <2>1, DisconnectedTyped
  <2> QED BY <1>7, <2>2 DEF ServerLost, Spend, TypeOK, client, server
<1>8. CASE Crash
  <2>1. Disconnected
    BY <1>8 DEF Crash
  <2>2. /\ live' = 0 /\ consumed' \in BOOLEAN /\ nextTag' = 1 /\ tag' \in [Messages -> Nat]
        /\ where' \in [Messages -> {"none", "wire", "lost", "queue", "unacked", "settled"}]
    BY <2>1, DisconnectedTyped
  <2>3. stopping' \in BOOLEAN
    BY <1>8, Zenon DEF Crash
  <2> QED BY <1>8, <2>2, <2>3 DEF Crash, Spend, TypeOK, client
<1>9. CASE \E m \in Messages : Route(m)
  BY <1>9 DEF Route, TypeOK, client, server
<1>10. CASE \E m \in Messages : Deliver(m)
  <2> SUFFICES ASSUME NEW m \in Messages, Deliver(m) PROVE TypeOK'
    BY <1>10
  <2> USE DEF Deliver
  <2>1. where' \in [Messages -> {"none", "wire", "lost", "queue", "unacked", "settled"}]
    BY DEF TypeOK, Delivered
  <2>2. tag' \in [Messages -> Nat] /\ nextTag' \in Nat \ {0}
    BY DEF TypeOK
  <2>3. handlers' \subseteq [of : Sent, tag : Nat \ {0}, on : 0..epoch]
    BY DEF TypeOK, Messages
  <2>4. outcome' \in [Messages -> {"none", "running", "returned", "threw"}]
    BY DEF TypeOK
  <2> QED BY <2>1, <2>2, <2>3, <2>4 DEF TypeOK, client
<1>11. CASE \E h \in handlers : Finish(h)
  <2> SUFFICES ASSUME NEW h \in handlers, Finish(h) PROVE TypeOK'
    BY <1>11
  <2>1. h.of \in Sent /\ h.of \in Messages
    BY DEF TypeOK, Messages
  <2>2. /\ live' \in 0..epoch /\ consumed' \in BOOLEAN /\ nextTag' \in Nat \ {0}
        /\ misdirected' \in BOOLEAN
        /\ tag' \in [Messages -> Nat]
        /\ where' \in [Messages -> {"none", "wire", "lost", "queue", "unacked", "settled"}]
    <3>1. CASE Writable /\ ~noAck
      <4>1. Acknowledge(h)
        BY <3>1 DEF Finish
      <4>2. CASE Disconnected
        <5>1. /\ live' = 0 /\ consumed' \in BOOLEAN /\ nextTag' = 1
              /\ tag' \in [Messages -> Nat]
              /\ where' \in [Messages -> {"none", "wire", "lost", "queue", "unacked", "settled"}]
          BY <4>2, DisconnectedTyped
        <5>2. misdirected' \in BOOLEAN
          BY <4>1 DEF Acknowledge, TypeOK
        <5> QED BY <5>1, <5>2 DEF TypeOK
      <4>3. CASE ~Disconnected
        BY <4>1, <4>3 DEF Acknowledge, TypeOK
      <4> QED BY <4>2, <4>3
    <3>2. CASE ~(Writable /\ ~noAck)
      BY <3>2 DEF Finish, TypeOK
    <3> QED BY <3>1, <3>2
  <2>3. PICK how \in {"returned", "unserializable", "threw"} :
          /\ outcome' = [outcome EXCEPT ![h.of] = IF how = "threw" THEN "threw" ELSE "returned"]
          /\ replies' = IF Writable THEN replies \cup Answer(h.of, how) ELSE replies
    BY DEF Finish
  <2>4. Answer(h.of, how) \subseteq [of : Messages, to : 0..dials, kind : {"value", "err"}]
    BY <2>1 DEF Answer, TypeOK
  <2>5. replies' \subseteq [of : Messages, to : 0..dials, kind : {"value", "err"}]
    BY <2>3, <2>4 DEF TypeOK
  <2>6. outcome' \in [Messages -> {"none", "running", "returned", "threw"}]
    BY <2>1, <2>3 DEF TypeOK
  <2>7. handlers' \subseteq handlers
    BY DEF Finish
  <2> QED BY <2>2, <2>5, <2>6, <2>7 DEF Finish, TypeOK, client
<1> QED
  BY <1>1, <1>2, <1>3, <1>4, <1>5, <1>6, <1>7, <1>8, <1>9, <1>10, <1>11

\* Every step keeps the types.
LEMMA NextTyped == TypeOK /\ [Next]_vars => TypeOK'
<1> SUFFICES ASSUME TypeOK, [Next]_vars PROVE TypeOK'
  OBVIOUS
<1>1. CASE Next
  BY <1>1, ClientTyped, ServerTyped DEF Next, Proceed
<1>2. CASE UNCHANGED vars
  BY <1>2 DEF vars, client, broker, server, TypeOK
<1> QED BY <1>1, <1>2

\* The variables of RmqClient, RmqServer and the broker keep their types.
THEOREM TypeCorrect == Spec => []TypeOK
BY InitTyped, NextTyped, PTL DEF Spec

-----------------------------------------------------------------------------
(* What was asked can be settled.                                          *)

\* A step that settles some messages and leaves `pending` alone keeps the rest.
LEMMA SettleAllAsked ==
  ASSUME TypeOK, AskedIsPending, NEW S, NEW how \in {"connected", "resolved", "rejected"},
         SettleAll(S, how), pending' = pending
  PROVE  AskedIsPending'
BY DEF TypeOK, AskedIsPending, SettleAll, Sent

\* Every step of the client or of the server keeps AskedIsPending.
LEMMA NextAsked == TypeOK /\ AskedIsPending /\ [Next]_vars => AskedIsPending'
<1> SUFFICES ASSUME TypeOK, AskedIsPending, [Next]_vars PROVE AskedIsPending'
  OBVIOUS
<1>1. CASE DialNames \/ DialConsumes \/ DialFails
  <2>1. pending' = pending
    BY <1>1 DEF DialNames, DialConsumes, DialFails
  <2>2. CASE UNCHANGED sends
    BY <2>1, <2>2 DEF AskedIsPending
  <2>3. CASE SettleAll(Connecting, "rejected") \/ SettleAll(Connecting, "connected")
    BY <2>1, <2>3, SettleAllAsked
  <2> QED BY <1>1, <2>2, <2>3 DEF DialNames, DialConsumes, DialFails
<1>2. CASE CloseBegin
  BY <1>2 DEF CloseBegin, SettleAll, Settled, AskedIsPending, TypeOK, Sent
<1>3. CASE HandleReply
  <2>1. PICK reply \in replies :
          /\ pending' = pending \ {reply.of}
          /\ SettleAll({reply.of} \cap pending, Verdict(reply))
    BY <1>3 DEF HandleReply
  <2>2. Verdict(reply) # "asked"
    BY DEF Verdict
  <2> QED BY <2>1, <2>2 DEF SettleAll, Settled, AskedIsPending, TypeOK, Sent
<1>4. CASE \E m \in Sent : Start(m)
  BY <1>4 DEF Start, AskedIsPending, TypeOK, Sent
<1>5. CASE \E m \in Sent : Publish(m)
  BY <1>5 DEF Publish, AskedIsPending, TypeOK, Sent
<1>6. CASE UNCHANGED <<pending, sends>>
  BY <1>6 DEF AskedIsPending
<1>7. CASE \/ DialConnects \/ DialOpens \/ CloseConnection \/ CloseEnd
           \/ \E m \in Messages : Route(m) \/ Deliver(m)
           \/ \E h \in handlers : Finish(h)
           \/ ListenOpens \/ ListenConsumes \/ StopEnd
           \/ Lose \/ Listen \/ StopBegin \/ ServerLost \/ Crash
  BY <1>6, <1>7 DEF DialConnects, DialOpens, CloseConnection, CloseEnd, Route, Deliver,
     Finish, ListenOpens, ListenConsumes, StopEnd, Lose, Listen, StopBegin, ServerLost,
     Crash, client
<1>8. CASE UNCHANGED vars
  BY <1>6, <1>8 DEF vars, client
<1> QED
  BY <1>1, <1>2, <1>3, <1>4, <1>5, <1>7, <1>8 DEF Next, Proceed

\* A request whose promise is open after it was written is in the map of RmqClient,
\* however its connects, closes and losses overlap.
THEOREM AskedStaysPending == Spec => []AskedIsPending
<1>1. Init => AskedIsPending
  BY DEF Init, AskedIsPending, Sent
<1> QED BY <1>1, InitTyped, NextTyped, NextAsked, PTL DEF Spec

-----------------------------------------------------------------------------
(* Nothing is acknowledged before its handler has ended.                   *)

\* The deliveries the broker holds have a tag each, of the channel that is open;
\* without a consumer it holds none, and none is consumed before listen() ends.
TagsMatch ==
  /\ consumed => live # 0
  /\ listen # "no" => ~consumed
  /\ Unacked # {} => consumed
  /\ \A m \in Unacked : tag[m] < nextTag
  /\ \A h \in handlers : h.on # 0
  /\ \A h \in handlers : h.on = live => h.tag < nextTag
  /\ \A h \in handlers : \A m \in Unacked :
       h.on = live /\ h.tag = tag[m] => h.of = m

\* Strengthening NothingLost to an inductive invariant.
DeliveryInv == ~noAck => TagsMatch /\ (~misdirected => NothingLost)

\* The initial state satisfies it.
LEMMA InitDelivery == Init => DeliveryInv
BY DEF Init, DeliveryInv, TagsMatch, NothingLost, Unacked

\* A channel that closes takes its deliveries and their tags with it.
LEMMA DisconnectedTags ==
  ASSUME TypeOK, TagsMatch, Disconnected, handlers' \subseteq handlers,
         listen' \in {listen, "no"}
  PROVE  TagsMatch'
<1>1. Unacked' = {}
  BY DEF Disconnected, Unacked
<1>2. \A h \in handlers' : h.on # 0
  BY DEF TagsMatch
<1> QED BY <1>1, <1>2 DEF TagsMatch, Disconnected

\* Nor does it settle any message.
LEMMA DisconnectedKeeps ==
  ASSUME TypeOK, NothingLost, Disconnected, UNCHANGED <<noAck, misdirected, outcome>>
  PROVE  NothingLost'
BY DEF NothingLost, Disconnected

\* A delivery takes a tag no other has.
LEMMA DeliverKeeps ==
  ASSUME TypeOK, ~noAck, TagsMatch, ~misdirected => NothingLost,
         NEW m \in Messages, Deliver(m)
  PROVE  TagsMatch' /\ (~misdirected' => NothingLost')
<1> USE DEF Deliver
<1>1. /\ where' = [where EXCEPT ![m] = "unacked"]
      /\ tag' = [tag EXCEPT ![m] = nextTag] /\ nextTag' = nextTag + 1
  BY DEF Delivered
<1>2. Unacked' = Unacked \cup {m} /\ m \notin Unacked
  BY <1>1 DEF Unacked, TypeOK
<1>3. UNCHANGED <<consumed, live, listen, noAck, misdirected>> /\ consumed
  OBVIOUS
<1>4. handlers' \subseteq handlers \cup {[of |-> m, tag |-> nextTag, on |-> live]}
  OBVIOUS
<1>5. \A n \in Messages \ {m} : outcome'[n] = outcome[n] /\ where'[n] = where[n]
  BY <1>1 DEF TypeOK
<1>6. \A n \in Unacked : n # m /\ tag'[n] = tag[n]
  BY <1>1, <1>2 DEF TypeOK, Unacked
<1>7. tag'[m] = nextTag /\ nextTag \in Nat /\ \A n \in Messages : tag[n] \in Nat
  BY <1>1 DEF TypeOK
<1>8. \A h \in handlers : h.tag \in Nat
  BY DEF TypeOK
<1>9. \A n \in Unacked' : tag'[n] < nextTag'
  BY <1>1, <1>2, <1>6, <1>7 DEF TagsMatch, Unacked
<1>10. ASSUME NEW h \in handlers' PROVE h.on # 0 /\ (h.on = live => h.tag < nextTag')
  BY <1>1, <1>3, <1>4, <1>7, <1>8 DEF TagsMatch
<1>11. ASSUME NEW h \in handlers', NEW n \in Unacked', h.on = live, h.tag = tag'[n]
       PROVE  h.of = n
  <2>1. CASE h \in handlers /\ n = m
    BY <1>7, <1>8, <1>11, <2>1 DEF TagsMatch
  <2>2. CASE h \in handlers /\ n \in Unacked
    BY <1>6, <1>11, <2>2 DEF TagsMatch
  <2>3. CASE h = [of |-> m, tag |-> nextTag, on |-> live] /\ n \in Unacked
    <3>1. tag[n] < nextTag /\ tag[n] = nextTag
      BY <1>6, <1>11, <2>3 DEF TagsMatch
    <3> QED BY <3>1, <1>7 DEF Unacked
  <2>4. CASE h = [of |-> m, tag |-> nextTag, on |-> live] /\ n = m
    BY <2>4
  <2> QED BY <1>2, <1>4, <2>1, <2>2, <2>3, <2>4
<1>12. TagsMatch'
  BY <1>3, <1>9, <1>10, <1>11 DEF TagsMatch
<1>13. where'[m] = "unacked"
  BY <1>1 DEF TypeOK
<1> QED BY <1>3, <1>5, <1>12, <1>13 DEF NothingLost

\* An acknowledgement on the channel of its delivery settles that message alone.
LEMMA FinishKeeps ==
  ASSUME TypeOK, ~noAck, TagsMatch, ~misdirected => NothingLost,
         NEW h \in handlers, Finish(h)
  PROVE  TagsMatch' /\ (~misdirected' => NothingLost')
<1> USE DEF Finish
<1>1. handlers' \subseteq handlers /\ UNCHANGED <<noAck, listen>>
  OBVIOUS
<1>2. /\ h.of \in Messages
      /\ outcome'[h.of] \in {"returned", "threw"}
      /\ \A n \in Messages \ {h.of} : outcome'[n] = outcome[n]
  BY DEF TypeOK, Messages
<1>3. CASE ~Writable
  <2>1. UNCHANGED <<where, tag, live, consumed, nextTag, misdirected>>
    BY <1>3
  <2>2. Unacked' = Unacked
    BY <2>1 DEF Unacked
  <2>3. TagsMatch'
    BY <1>1, <2>1, <2>2 DEF TagsMatch
  <2> QED BY <1>1, <1>2, <2>1, <2>3 DEF NothingLost
<1>4. CASE Writable
  <2> DEFINE hit == {m \in Unacked : tag[m] = h.tag}
  <2>1. Acknowledge(h)
    BY <1>4
  <2>2. CASE hit = {}
    <3>1. Disconnected
      BY <2>1, <2>2 DEF Acknowledge
    <3>2. TagsMatch'
      BY <1>1, <3>1, DisconnectedTags
    <3>3. \A m \in Messages : where'[m] = "settled" => where[m] = "settled"
      BY <3>1 DEF Disconnected
    <3>4. ~misdirected' => ~misdirected
      BY <2>1 DEF Acknowledge
    <3> QED BY <1>1, <1>2, <3>2, <3>3, <3>4 DEF NothingLost
  <2>3. CASE hit # {}
    <3>1. /\ where' = [m \in Messages |-> IF m \in hit THEN "settled" ELSE where[m]]
          /\ tag' = [m \in Messages |-> IF m \in hit THEN 0 ELSE tag[m]]
          /\ UNCHANGED <<live, consumed, nextTag>>
      BY <2>1, <2>3 DEF Acknowledge
    <3>2. Unacked' \subseteq Unacked \ hit
      BY <3>1 DEF Unacked
    <3>3. \A m \in Unacked' : tag'[m] = tag[m]
      BY <3>1, <3>2 DEF Unacked
    <3>4. TagsMatch'
      BY <1>1, <3>1, <3>2, <3>3 DEF TagsMatch
    <3>5. (~misdirected' => ~misdirected /\ h.on = live)
      BY <2>1 DEF Acknowledge
    <3>6. h.on = live => \A m \in hit : m = h.of
      BY DEF TagsMatch
    <3> QED BY <1>1, <1>2, <3>1, <3>4, <3>5, <3>6 DEF NothingLost
  <2> QED BY <2>2, <2>3
<1> QED BY <1>3, <1>4

\* Every step keeps it.
LEMMA NextDelivery == TypeOK /\ DeliveryInv /\ [Next]_vars => DeliveryInv'
<1> SUFFICES ASSUME TypeOK, DeliveryInv, [Next]_vars, ~noAck'
             PROVE  TagsMatch' /\ (~misdirected' => NothingLost')
  BY DEF DeliveryInv
<1>1. UNCHANGED noAck
  BY DEF Next, Proceed, DialConnects, DialOpens, DialNames, DialConsumes, CloseConnection,
     CloseEnd, HandleReply, Publish, Route, Deliver, Finish, ListenOpens, ListenConsumes,
     StopEnd, Start, DialFails, CloseBegin, Lose, Listen, StopBegin, ServerLost, Crash, vars
<1>2. TagsMatch /\ (~misdirected => NothingLost)
  BY <1>1 DEF DeliveryInv
<1>3. CASE \E m \in Messages : Deliver(m)
  BY <1>1, <1>2, <1>3, DeliverKeeps
<1>4. CASE \E h \in handlers : Finish(h)
  BY <1>1, <1>2, <1>4, FinishKeeps
<1>5. CASE Disconnected /\ (StopBegin \/ ServerLost \/ Crash)
  <2>1. handlers' \subseteq handlers /\ listen' \in {listen, "no"}
    BY <1>5 DEF StopBegin, ServerLost, Crash, server
  <2>2. UNCHANGED <<outcome, misdirected>>
    BY <1>5 DEF StopBegin, ServerLost, Crash, server
  <2> QED BY <1>1, <1>2, <1>5, <2>1, <2>2, DisconnectedTags, DisconnectedKeeps
<1>6. CASE ListenOpens
  <2>1. Unacked' = Unacked /\ Unacked = {} /\ ~consumed
    BY <1>2, <1>6 DEF ListenOpens, TagsMatch, Unacked
  <2>2. live' = epoch + 1 /\ \A h \in handlers : h.on \in 0..epoch /\ epoch \in Nat
    BY <1>6 DEF ListenOpens, TypeOK
  <2>3. \A h \in handlers : h.on # live'
    BY <2>2
  <2>4. TagsMatch'
    BY <1>2, <1>6, <2>1, <2>3 DEF ListenOpens, TagsMatch
  <2> QED BY <1>2, <1>6, <2>4 DEF ListenOpens, NothingLost
<1>7. CASE ListenConsumes
  <2>1. Unacked' = Unacked /\ Unacked = {}
    BY <1>2, <1>7 DEF ListenConsumes, TagsMatch, Unacked
  <2>2. TagsMatch'
    BY <1>2, <1>7, <2>1 DEF ListenConsumes, TagsMatch, Writable
  <2> QED BY <1>2, <1>7, <2>2 DEF ListenConsumes, NothingLost
<1>8. CASE Listen
  <2>1. Unacked' = Unacked
    BY <1>8 DEF Listen, broker, Unacked
  <2>2. TagsMatch'
    BY <1>2, <1>8, <2>1 DEF Listen, broker, TagsMatch
  <2> QED BY <1>2, <1>8, <2>2 DEF Listen, broker, NothingLost
<1>9. CASE /\ UNCHANGED <<consumed, live, listen, tag, nextTag, handlers, outcome, misdirected>>
           /\ \A m \in Messages : where'[m] = where[m]
                                  \/ {where[m], where'[m]} \cap {"unacked", "settled"} = {}
  <2>1. Unacked' = Unacked
    BY <1>9 DEF Unacked
  <2>2. TagsMatch'
    BY <1>2, <1>9, <2>1 DEF TagsMatch
  <2>3. \A m \in Messages : where'[m] = "settled" => where[m] = "settled"
    BY <1>9
  <2>4. ~misdirected =>
          \A m \in Messages : where[m] = "settled" => outcome[m] \in {"returned", "threw"}
    BY <1>1, <1>2 DEF NothingLost
  <2> QED BY <1>9, <2>2, <2>3, <2>4 DEF NothingLost
<1>10. CASE \E m \in Messages : Route(m)
  BY <1>9, <1>10 DEF Route, TypeOK, server
<1>11. CASE Lose
  BY <1>9, <1>11 DEF Lose, TypeOK, server
<1>12. CASE \E m \in Sent : Publish(m)
  BY <1>9, <1>12 DEF Publish, TypeOK, server
<1>13. CASE \/ DialConnects \/ DialOpens \/ DialNames \/ DialConsumes \/ DialFails
            \/ CloseBegin \/ CloseConnection \/ CloseEnd \/ HandleReply
            \/ StopEnd \/ (StopBegin /\ ~Disconnected)
            \/ \E m \in Sent : Start(m)
  <2>1. UNCHANGED <<consumed, live, listen, tag, nextTag, handlers, outcome, misdirected,
                    where>>
    BY <1>13 DEF DialConnects, DialOpens, DialNames, DialConsumes, DialFails, CloseBegin,
       CloseConnection, CloseEnd, HandleReply, StopEnd, StopBegin, Start, broker, server
  <2> QED BY <1>9, <2>1
<1>14. CASE UNCHANGED vars
  BY <1>9, <1>14 DEF vars, broker, server
<1>15. ServerLost \/ Crash => Disconnected
  BY DEF ServerLost, Crash
<1> QED
  BY <1>3, <1>4, <1>5, <1>6, <1>7, <1>8, <1>10, <1>11, <1>12, <1>13, <1>14, <1>15
     DEF Next, Proceed

\* With acknowledgements, no message leaves the broker before dispatch() has settled for
\* it, whatever crashes, closes and losses happen, unless an acknowledgement went to
\* another channel than its delivery.
THEOREM NothingIsLost == Spec => []NothingLost
<1>1. DeliveryInv => NothingLost
  BY DEF DeliveryInv, NothingLost
<1> QED BY <1>1, InitTyped, NextTyped, InitDelivery, NextDelivery, PTL DEF Spec

-----------------------------------------------------------------------------
(* Without acknowledgements the transport implements Rpc.                  *)

\* What is not settled yet was not handled, what is handled has one handler, a value
\* is that of its handler, and nothing is sent before send() has its channel.
OnceInv ==
  /\ noAck => \A m \in Messages :
       /\ where[m] # "unacked"
       /\ where[m] # "settled" => outcome[m] = "none" /\ \A h \in handlers : h.of # m
  /\ noAck => \A h \in handlers :
       outcome[h.of] = "running" /\ \A g \in handlers : g.of = h.of => g = h
  /\ noAck => \A reply \in replies : reply.kind = "value" => outcome[reply.of] = "returned"
  /\ \A m \in Sent : sends[m] \in {"idle", "connecting", "connected"} =>
       where[m] = "none" /\ m \notin pending

\* The initial state satisfies it.
LEMMA InitOnce == Init => OnceInv
<1> SUFFICES ASSUME Init PROVE OnceInv
  OBVIOUS
<1>1. PICK s \in Scenarios :
        where = [m \in Messages |-> IF m \in s.poison THEN "queue" ELSE "none"]
  BY DEF Init
<1>2. \A m \in Sent : where[m] = "none"
  BY <1>1, MessageAssumption, BoundAssumption DEF Messages
<1> QED BY <1>2, MessageAssumption DEF Init, OnceInv, Messages, Sent

\* Settling promises keeps it.
LEMMA SettleAllOnce ==
  ASSUME TypeOK, OnceInv, NEW S, NEW how \in {"connected", "resolved", "rejected"},
         SettleAll(S, how), how = "connected" => S = Connecting, pending' \subseteq pending,
         replies' \subseteq replies, UNCHANGED <<noAck, where, handlers, outcome>>
  PROVE  OnceInv'
<1>1. \A m \in Sent : sends'[m] \in {"idle", "connecting", "connected"} =>
                      sends[m] \in {"idle", "connecting", "connected"}
  BY DEF SettleAll, Connecting
<1> QED BY <1>1 DEF OnceInv

\* A channel that closes has nothing unacknowledged to give back.
LEMMA DisconnectedOnce ==
  ASSUME TypeOK, OnceInv, Disconnected, handlers' \subseteq handlers,
         UNCHANGED <<noAck, sends, pending, outcome, replies>>
  PROVE  OnceInv'
<1>1. \A m \in Messages : /\ where[m] # "unacked" => where'[m] = where[m]
                          /\ where[m] = "unacked" => where'[m] = "queue"
  BY DEF Disconnected, Unacked
<1>2. \A m \in Sent : where[m] = "none" => where'[m] = "none"
  BY <1>1 DEF Messages
<1>3. \A m \in Sent : sends'[m] \in {"idle", "connecting", "connected"} =>
        where'[m] = "none" /\ m \notin pending'
  BY <1>2 DEF OnceInv
<1> QED BY <1>1, <1>3 DEF OnceInv

\* The end of a handler keeps it.
LEMMA FinishOnce ==
  ASSUME TypeOK, OnceInv, NEW h \in handlers, Finish(h)
  PROVE  OnceInv'
<1> USE DEF Finish
<1>1. \A m \in Sent : where[m] = "none" => where'[m] = "none"
  <2>1. CASE Writable /\ ~noAck
    <3>1. Acknowledge(h)
      BY <2>1
    <3> QED BY <3>1 DEF Acknowledge, Disconnected, Unacked, Messages
  <2>2. CASE ~(Writable /\ ~noAck)
    BY <2>2
  <2> QED BY <2>1, <2>2
<1>2. \A m \in Sent : sends'[m] \in {"idle", "connecting", "connected"} =>
        where'[m] = "none" /\ m \notin pending'
  BY <1>1 DEF OnceInv, client
<1>3. CASE ~noAck
  BY <1>2, <1>3 DEF OnceInv
<1>4. CASE noAck
  <2>1. /\ handlers' = handlers \ {h} /\ UNCHANGED <<where, noAck>>
        /\ h.of \in Messages
    BY <1>4 DEF TypeOK, Messages
  <2>2. PICK how \in {"returned", "unserializable", "threw"} :
          /\ outcome' = [outcome EXCEPT ![h.of] = IF how = "threw" THEN "threw" ELSE "returned"]
          /\ replies' = IF Writable THEN replies \cup Answer(h.of, how) ELSE replies
    OBVIOUS
  <2>3. \A m \in Messages \ {h.of} : outcome'[m] = outcome[m]
    BY <2>2 DEF TypeOK
  <2>4. outcome[h.of] = "running"
    BY <1>4 DEF OnceInv
  <2>5. ASSUME NEW reply \in replies', reply.kind = "value"
        PROVE  outcome'[reply.of] = "returned"
    <3>1. CASE reply \in replies
      <4>1. reply.of \in Messages /\ outcome[reply.of] = "returned"
        BY <1>4, <2>5, <3>1 DEF OnceInv, TypeOK
      <4> QED BY <2>3, <2>4, <4>1
    <3>2. CASE reply \in Answer(h.of, how)
      <4>1. reply.of = h.of /\ how = "returned"
        BY <2>5, <3>2 DEF Answer
      <4> QED BY <2>1, <2>2, <4>1 DEF TypeOK
    <3> QED BY <2>2, <3>1, <3>2
  <2>6. \A g \in handlers' : g \in handlers /\ g.of # h.of /\ g.of \in Messages
    BY <1>4, <2>1 DEF OnceInv, TypeOK, Messages
  <2>7. \A g \in handlers' : outcome'[g.of] = "running"
    BY <1>4, <2>3, <2>6 DEF OnceInv
  <2>8. \A m \in Messages : where[m] # "settled" => m # h.of /\ outcome'[m] = "none"
    BY <1>4, <2>3 DEF OnceInv
  <2> QED BY <1>2, <1>4, <2>1, <2>5, <2>6, <2>7, <2>8 DEF OnceInv
<1> QED BY <1>3, <1>4

\* A delivery keeps it.
LEMMA DeliverOnce ==
  ASSUME TypeOK, OnceInv, NEW m \in Messages, Deliver(m)
  PROVE  OnceInv'
<1> USE DEF Deliver
<1>1. /\ UNCHANGED <<noAck, sends, pending, replies>>
      /\ where' = [where EXCEPT ![m] = Delivered] /\ where[m] = "queue"
  BY DEF client
<1>2. \A n \in Messages \ {m} : where'[n] = where[n] /\ outcome'[n] = outcome[n]
  BY <1>1 DEF TypeOK
<1>3. \A n \in Sent : sends'[n] \in {"idle", "connecting", "connected"} =>
        where'[n] = "none" /\ n \notin pending'
  BY <1>1, <1>2 DEF OnceInv, Messages
<1>4. CASE ~noAck
  BY <1>1, <1>3, <1>4 DEF OnceInv
<1>5. CASE noAck
  <2>1. where'[m] = "settled"
    BY <1>1, <1>5 DEF Delivered, TypeOK
  <2>2. outcome[m] = "none" /\ \A g \in handlers : g.of # m
    BY <1>1, <1>5 DEF OnceInv
  <2>3. CASE m \in Poison
    BY <1>1, <1>2, <1>3, <1>5, <2>1, <2>3 DEF OnceInv
  <2>4. CASE m \notin Poison
    <3>1. /\ handlers' = handlers \cup {[of |-> m, tag |-> nextTag, on |-> live]}
          /\ outcome' = [outcome EXCEPT ![m] = "running"]
      BY <2>4
    <3>2. outcome'[m] = "running"
      BY <3>1 DEF TypeOK
    <3>3. \A g \in handlers : g.of \in Messages
      BY DEF TypeOK, Messages
    <3>4. \A g \in handlers' : outcome'[g.of] = "running"
                              /\ \A f \in handlers' : f.of = g.of => f = g
      BY <1>2, <1>5, <2>2, <3>1, <3>2, <3>3 DEF OnceInv
    <3>5. \A reply \in replies : reply.of \in Messages
      BY DEF TypeOK
    <3>6. \A reply \in replies' : reply.kind = "value" => outcome'[reply.of] = "returned"
      BY <1>1, <1>2, <1>5, <2>2, <3>5 DEF OnceInv
    <3>7. \A n \in Messages : /\ where'[n] # "unacked"
                              /\ where'[n] # "settled" =>
                                   outcome'[n] = "none" /\ \A g \in handlers' : g.of # n
      BY <1>2, <1>5, <2>1, <3>1 DEF OnceInv
    <3> QED BY <1>3, <3>4, <3>6, <3>7 DEF OnceInv
  <2> QED BY <2>3, <2>4
<1> QED BY <1>4, <1>5

\* Every step keeps it.
LEMMA NextOnce == TypeOK /\ OnceInv /\ [Next]_vars => OnceInv'
<1> SUFFICES ASSUME TypeOK, OnceInv, [Next]_vars PROVE OnceInv'
  OBVIOUS
<1>1. CASE \E m \in Messages : Deliver(m)
  BY <1>1, DeliverOnce
<1>2. CASE \E h \in handlers : Finish(h)
  BY <1>2, FinishOnce
<1>3. CASE Disconnected /\ (StopBegin \/ ServerLost \/ Crash)
  <2>1. handlers' \subseteq handlers /\ UNCHANGED <<noAck, sends, pending, outcome, replies>>
    BY <1>3 DEF StopBegin, ServerLost, Crash, client, server
  <2> QED BY <1>3, <2>1, DisconnectedOnce
<1>4. CASE DialNames \/ DialConsumes \/ DialFails \/ CloseBegin
  <2>1. pending' \subseteq pending /\ UNCHANGED <<replies, noAck, where, handlers, outcome>>
    BY <1>4 DEF DialNames, DialConsumes, DialFails, CloseBegin, broker, server
  <2>2. CASE UNCHANGED sends
    BY <2>1, <2>2 DEF OnceInv
  <2>3. CASE SettleAll(Connecting, "connected")
    BY <2>1, <2>3, SettleAllOnce
  <2>4. CASE SettleAll(Connecting, "rejected") \/ SettleAll(pending, "rejected")
    BY <2>1, <2>4, SettleAllOnce
  <2> QED BY <1>4, <2>2, <2>3, <2>4 DEF DialNames, DialConsumes, DialFails, CloseBegin
<1>5. CASE HandleReply
  <2>1. PICK reply \in replies :
          /\ replies' = replies \ {reply} /\ pending' = pending \ {reply.of}
          /\ SettleAll({reply.of} \cap pending, Verdict(reply))
    BY <1>5 DEF HandleReply
  <2>2. Verdict(reply) \in {"resolved", "rejected"} /\ Verdict(reply) # "connected"
    BY DEF Verdict
  <2>3. UNCHANGED <<noAck, where, handlers, outcome>>
    BY <1>5 DEF HandleReply, server
  <2> QED BY <2>1, <2>2, <2>3, SettleAllOnce
<1>6. CASE \E m \in Sent : Start(m)
  BY <1>6 DEF Start, OnceInv, TypeOK, broker, server
<1>7. CASE \E m \in Sent : Publish(m)
  <2> SUFFICES ASSUME NEW m \in Sent, Publish(m) PROVE OnceInv'
    BY <1>7
  <2> USE DEF Publish
  <2>1. UNCHANGED <<noAck, handlers, outcome, replies>>
    BY DEF server
  <2>2. where[m] = "none" /\ m \in Messages
    BY DEF OnceInv, Messages
  <2>3. /\ \A n \in Messages \ {m} : where'[n] = where[n]
        /\ where'[m] \in {"none", "wire"}
    BY <2>2 DEF TypeOK
  <2>4. \A n \in Sent : sends'[n] \in {"idle", "connecting", "connected"} =>
          n # m /\ sends'[n] = sends[n] /\ n \notin pending' \ pending
    BY DEF TypeOK
  <2>5. \A n \in Sent : sends'[n] \in {"idle", "connecting", "connected"} =>
          where'[n] = "none" /\ n \notin pending'
    BY <2>3, <2>4 DEF OnceInv, Messages
  <2>6. noAck => \A n \in Messages :
          /\ where'[n] # "unacked"
          /\ where'[n] # "settled" => outcome[n] = "none" /\ \A h \in handlers : h.of # n
    BY <2>2, <2>3 DEF OnceInv
  <2> QED BY <2>1, <2>5, <2>6 DEF OnceInv
<1>8. CASE /\ UNCHANGED <<noAck, sends, pending, handlers, outcome, replies>>
           /\ \A m \in Messages : where'[m] = where[m]
                                  \/ {where[m], where'[m]} \subseteq {"wire", "queue", "lost"}
  BY <1>8 DEF OnceInv, Messages
<1>9. CASE (\E m \in Messages : Route(m)) \/ Lose
  BY <1>8, <1>9 DEF Route, Lose, TypeOK, client, server
<1>10. CASE \/ DialConnects \/ DialOpens \/ CloseConnection \/ CloseEnd
            \/ Listen \/ ListenOpens \/ ListenConsumes \/ StopEnd
            \/ (StopBegin /\ ~Disconnected)
  <2>1. UNCHANGED <<noAck, sends, pending, handlers, outcome, replies, where>>
    BY <1>10 DEF DialConnects, DialOpens, CloseConnection, CloseEnd, Listen, ListenOpens,
       ListenConsumes, StopEnd, StopBegin, client, broker, server
  <2> QED BY <1>8, <2>1
<1>11. CASE UNCHANGED vars
  BY <1>8, <1>11 DEF vars, client, broker, server
<1>12. ServerLost \/ Crash => Disconnected
  BY DEF ServerLost, Crash
<1> QED
  BY <1>1, <1>2, <1>3, <1>4, <1>5, <1>6, <1>7, <1>9, <1>10, <1>11, <1>12 DEF Next, Proceed

\* Settling promises is a Reject of Rpc, or leaves what the callers see.
LEMMA SettleAllMaps ==
  ASSUME TypeOK, NEW S, NEW how \in {"connected", "rejected"}, SettleAll(S, how),
         how = "connected" => S = Connecting, UNCHANGED outcome,
         \A r \in S : sends[r] # "idle"
  PROVE  R!RpcNext
<1>1. PICK T \in SUBSET Requests :
        T = {r \in Requests : r \in S /\ ~Settled(r) /\ how = "rejected"}
  OBVIOUS
<1>2. R!Reject(T)
  BY <1>1 DEF R!Reject, SettleAll, Settled, Connecting, TypeOK, Sent, Messages
<1> QED BY <1>2 DEF R!RpcNext

\* A step that leaves every request alone leaves what Rpc sees.
LEMMA Stutters ==
  ASSUME \A r \in Requests : sends'[r] = sends[r] /\ outcome'[r] = outcome[r]
  PROVE  UNCHANGED R!rpcVars
BY DEF R!rpcVars

\* The steps of a handler are those of Rpc.
LEMMA HandlerMaps ==
  ASSUME TypeOK, OnceInv, noAck,
         (\E m \in Messages : Deliver(m)) \/ (\E h \in handlers : Finish(h))
  PROVE  [R!RpcNext]_R!rpcVars
<1>1. CASE \E m \in Messages : Deliver(m)
  <2>1. PICK m \in Messages : Deliver(m)
    BY <1>1
  <2>2. UNCHANGED sends
    BY <2>1 DEF Deliver, client
  <2>3. CASE m \in Requests /\ m \notin Poison
    <3>1. sends[m] # "idle" /\ outcome[m] = "none"
      BY <2>1, <2>3 DEF Deliver, OnceInv, Sent
    <3>2. R!Begin(m)
      BY <2>1, <2>2, <2>3, <3>1 DEF Deliver, R!Begin, TypeOK, Messages, Sent
    <3> QED BY <2>3, <3>2 DEF R!RpcNext
  <2>4. CASE ~(m \in Requests /\ m \notin Poison)
    <3>1. \A r \in Requests : outcome'[r] = outcome[r]
      BY <2>1, <2>4 DEF Deliver, TypeOK, Messages, Sent
    <3> QED BY <2>2, <3>1, Stutters
  <2> QED BY <2>3, <2>4
<1>2. CASE \E h \in handlers : Finish(h)
  <2>1. PICK h \in handlers : Finish(h)
    BY <1>2
  <2>2. UNCHANGED sends
    BY <2>1 DEF Finish, client
  <2>3. PICK how \in {"returned", "threw"} : outcome' = [outcome EXCEPT ![h.of] = how]
    BY <2>1 DEF Finish
  <2>4. CASE h.of \in Requests
    <3>1. outcome[h.of] = "running"
      BY DEF OnceInv
    <3>2. R!Finish(h.of)
      BY <2>2, <2>3, <2>4, <3>1 DEF R!Finish, TypeOK, Messages, Sent
    <3> QED BY <2>4, <3>2 DEF R!RpcNext
  <2>5. CASE h.of \notin Requests
    <3>1. \A r \in Requests : outcome'[r] = outcome[r]
      BY <2>3, <2>5 DEF TypeOK
    <3> QED BY <2>2, <3>1, Stutters
  <2> QED BY <2>4, <2>5
<1> QED BY <1>1, <1>2

\* The steps that settle promises are those of Rpc.
LEMMA SettlingMaps ==
  ASSUME TypeOK, OnceInv, noAck,
         DialNames \/ DialConsumes \/ DialFails \/ CloseBegin \/ HandleReply
  PROVE  [R!RpcNext]_R!rpcVars
<1>1. UNCHANGED outcome
  BY DEF DialNames, DialConsumes, DialFails, CloseBegin, HandleReply, server
<1>2. \A r \in Connecting \cup pending : sends[r] # "idle"
  BY DEF OnceInv, TypeOK, Connecting, Sent
<1>3. CASE UNCHANGED sends
  BY <1>1, <1>3, Stutters
<1>4. CASE \/ SettleAll(Connecting, "connected") \/ SettleAll(Connecting, "rejected")
           \/ SettleAll(pending, "rejected")
  <2>1. CASE SettleAll(Connecting, "connected")
    BY <1>1, <1>2, <2>1, SettleAllMaps
  <2>2. CASE SettleAll(Connecting, "rejected")
    BY <1>1, <1>2, <2>2, SettleAllMaps
  <2>3. CASE SettleAll(pending, "rejected")
    BY <1>1, <1>2, <2>3, SettleAllMaps
  <2> QED BY <1>4, <2>1, <2>2, <2>3
<1>5. CASE HandleReply
  <2>1. PICK reply \in replies : SettleAll({reply.of} \cap pending, Verdict(reply))
    BY <1>5 DEF HandleReply
  <2>2. CASE Verdict(reply) = "rejected"
    <3>1. SettleAll({reply.of} \cap pending, "rejected")
      BY <2>1, <2>2
    <3> QED BY <1>1, <1>2, <3>1, SettleAllMaps
  <2>3. CASE reply.kind = "value" /\ reply.of \in pending /\ ~Settled(reply.of)
    <3>1. reply.of \in Requests /\ outcome[reply.of] = "returned"
      BY <2>3 DEF OnceInv, TypeOK
    <3>2. sends[reply.of] = "asked"
      BY <2>3, <3>1 DEF OnceInv, TypeOK, Settled, Sent
    <3>3. sends' = [sends EXCEPT ![reply.of] = "resolved"]
      BY <2>1, <2>3 DEF SettleAll, Verdict, Settled, TypeOK
    <3>4. R!Resolve(reply.of)
      BY <1>1, <3>1, <3>2, <3>3 DEF R!Resolve, TypeOK, Sent
    <3> QED BY <3>1, <3>4 DEF R!RpcNext
  <2>4. CASE reply.of \notin pending \/ Settled(reply.of)
    <3>1. \A r \in Requests : sends'[r] = sends[r]
      BY <2>1, <2>4 DEF SettleAll, Settled, TypeOK, Sent
    <3> QED BY <1>1, <3>1, Stutters
  <2> QED BY <2>2, <2>3, <2>4 DEF Verdict
<1> QED
  BY <1>3, <1>4, <1>5 DEF DialNames, DialConsumes, DialFails, CloseBegin

\* Every step of the transport is a step of Rpc or leaves what Rpc sees.
LEMMA StepMaps == TypeOK /\ OnceInv /\ noAck /\ [Next]_vars => [R!RpcNext]_R!rpcVars
<1> SUFFICES ASSUME TypeOK, OnceInv, noAck, [Next]_vars PROVE [R!RpcNext]_R!rpcVars
  OBVIOUS
<1>1. CASE \/ \E m \in Messages : Deliver(m)
           \/ \E h \in handlers : Finish(h)
  BY <1>1, HandlerMaps
<1>2. CASE DialNames \/ DialConsumes \/ DialFails \/ CloseBegin \/ HandleReply
  BY <1>2, SettlingMaps
<1>3. CASE \E m \in Sent : Start(m)
  <2>1. PICK m \in Sent : Start(m)
    BY <1>3
  <2>2. UNCHANGED outcome
    BY <2>1 DEF Start, server
  <2>3. CASE m \in Requests
    <3>1. R!Call(m)
      BY <2>1, <2>2, <2>3 DEF Start, R!Call, TypeOK, Sent
    <3> QED BY <2>3, <3>1 DEF R!RpcNext
  <2>4. CASE m \notin Requests
    <3>1. \A r \in Requests : sends'[r] = sends[r]
      BY <2>1, <2>4 DEF Start, TypeOK, Sent
    <3> QED BY <2>2, <3>1, Stutters
  <2> QED BY <2>3, <2>4
<1>4. CASE \E m \in Sent : Publish(m)
  <2>1. PICK m \in Sent : Publish(m)
    BY <1>4
  <2>2. sends[m] = "connected" /\ UNCHANGED outcome
    BY <2>1 DEF Publish, server
  <2>3. CASE m \in Requests /\ sends' = [sends EXCEPT ![m] = "rejected"]
    <3>1. R!Reject({m})
      BY <2>2, <2>3 DEF R!Reject, TypeOK, Sent
    <3> QED BY <2>3, <3>1 DEF R!RpcNext
  <2>4. CASE m \in Requests /\ sends' = [sends EXCEPT ![m] = "asked"]
    <3>1. UNCHANGED R!rpcVars
      BY <2>2, <2>4 DEF R!rpcVars, TypeOK, Sent
    <3> QED BY <3>1
  <2>5. CASE m \notin Requests
    <3>1. \A r \in Requests : sends'[r] = sends[r]
      BY <2>1, <2>5 DEF Publish, TypeOK, Sent
    <3> QED BY <2>2, <3>1, Stutters
  <2> QED BY <2>1, <2>3, <2>4, <2>5, MessageAssumption DEF Publish
<1>5. CASE UNCHANGED <<sends, outcome>>
  BY <1>5, Stutters
<1>6. CASE \/ DialConnects \/ DialOpens \/ CloseConnection \/ CloseEnd \/ Lose
           \/ Listen \/ ListenOpens \/ ListenConsumes \/ StopBegin \/ StopEnd
           \/ ServerLost \/ Crash \/ (\E m \in Messages : Route(m))
  BY <1>5, <1>6 DEF DialConnects, DialOpens, CloseConnection, CloseEnd, Lose, Listen,
     ListenOpens, ListenConsumes, StopBegin, StopEnd, ServerLost, Crash, Route, client, server
<1>7. CASE UNCHANGED vars
  BY <1>5, <1>7 DEF vars, client, server
<1> QED
  BY <1>1, <1>2, <1>3, <1>4, <1>6, <1>7 DEF Next, Proceed

\* RmqClient, RmqServer and the broker implement Rpc as long as nothing is acknowledged:
\* a request is handled at most once and its promise settles at most once, and only with
\* the value of its own handler.
THEOREM TransportImplementsRpc == Spec => ImplementsRpc
<1>1. Init => R!RpcInit
  BY DEF Init, R!RpcInit, Sent, Messages
<1>2. TypeOK /\ OnceInv /\ [Next]_vars => [noAck => R!RpcNext]_R!rpcVars
  BY StepMaps
<1> QED
  BY <1>1, <1>2, InitTyped, NextTyped, InitOnce, NextOnce, PTL DEF Spec, ImplementsRpc

-----------------------------------------------------------------------------
(* With acknowledgements the server implements Delivery.                   *)

\* A handler of the channel that is open has its tag for itself, and holds its message
\* unless an acknowledgement went astray.
HoldsOwn ==
  /\ \A h \in handlers : outcome[h.of] # "none"
  /\ \A h, g \in handlers : h.on = live /\ g.on = live /\ h.tag = g.tag => h = g
  /\ ~misdirected =>
       \A h \in handlers : h.on = live => where[h.of] = "unacked" /\ tag[h.of] = h.tag

HeldInv == ~noAck => HoldsOwn

\* A step keeps it that leaves the handlers, and what is unacknowledged with its tags.
LEMMA AroundHeld ==
  ASSUME TypeOK, HoldsOwn, UNCHANGED <<handlers, outcome, live, tag, misdirected>>,
         \A m \in Messages : where[m] = "unacked" => where'[m] = "unacked"
  PROVE  HoldsOwn'
<1>1. \A h \in handlers : h.of \in Messages
  BY DEF TypeOK, Messages
<1> QED BY <1>1 DEF HoldsOwn

\* A step keeps it after which no handler is of the channel that is open.
LEMMA NoneHeld ==
  ASSUME HoldsOwn, handlers' \subseteq handlers, UNCHANGED outcome,
         \A h \in handlers' : h.on # live'
  PROVE  HoldsOwn'
BY DEF HoldsOwn

\* A delivery gives the next tag.
LEMMA DeliverHolds ==
  ASSUME TypeOK, TagsMatch, HoldsOwn, ~noAck, NEW m \in Messages, Deliver(m)
  PROVE  HoldsOwn'
<1>1. /\ where[m] = "queue" /\ where' = [where EXCEPT ![m] = "unacked"]
      /\ tag' = [tag EXCEPT ![m] = nextTag] /\ UNCHANGED <<live, misdirected>>
  BY DEF Deliver, Delivered
<1>2. \A h \in handlers : h.of \in Messages /\ (h.on = live => h.tag # nextTag)
  BY DEF TypeOK, TagsMatch, Messages
<1>3. \A h \in handlers : h.on = live /\ ~misdirected => h.of # m
  BY <1>1 DEF HoldsOwn
<1>4. /\ where'[m] = "unacked" /\ tag'[m] = nextTag
      /\ \A k \in Messages \ {m} : where'[k] = where[k] /\ tag'[k] = tag[k]
  BY <1>1 DEF TypeOK
<1>5. \A h \in handlers : h.on = live /\ ~misdirected => where'[h.of] = "unacked" /\ tag'[h.of] = h.tag
  BY <1>2, <1>3, <1>4 DEF HoldsOwn
<1>6. CASE UNCHANGED <<handlers, outcome>>
  BY <1>1, <1>5, <1>6 DEF HoldsOwn
<1>7. CASE /\ handlers' = handlers \cup {[of |-> m, tag |-> nextTag, on |-> live]}
           /\ outcome' = [outcome EXCEPT ![m] = "running"]
  <2>1. \A k \in Messages : outcome[k] # "none" \/ k = m => outcome'[k] # "none"
    BY <1>7 DEF TypeOK
  <2>2. \A h \in handlers' : outcome'[h.of] # "none"
    BY <1>2, <1>7, <2>1 DEF HoldsOwn
  <2>3. \A h, g \in handlers' : h.on = live /\ g.on = live /\ h.tag = g.tag => h = g
    BY <1>2, <1>7 DEF HoldsOwn
  <2>4. ~misdirected => \A h \in handlers' : h.on = live => where'[h.of] = "unacked" /\ tag'[h.of] = h.tag
    BY <1>4, <1>5, <1>7
  <2> QED BY <1>1, <2>2, <2>3, <2>4 DEF HoldsOwn
<1> QED BY <1>6, <1>7 DEF Deliver

\* What an acknowledgement on the channel of its delivery reaches is its own message.
LEMMA HitsOwn ==
  ASSUME TypeOK, TagsMatch, HoldsOwn, ~misdirected, NEW h \in handlers, h.on = live
  PROVE  {m \in Unacked : tag[m] = h.tag} = {h.of}
<1>1. h.of \in Unacked /\ tag[h.of] = h.tag
  BY DEF HoldsOwn, Unacked, TypeOK, Messages
<1>2. \A m \in Unacked : tag[m] = h.tag => m = h.of
  BY DEF TagsMatch
<1> QED BY <1>1, <1>2

\* A handler that ends takes no other's message.
LEMMA FinishHolds ==
  ASSUME TypeOK, TagsMatch, HoldsOwn, ~noAck, NEW h \in handlers, Finish(h)
  PROVE  HoldsOwn'
<1>1. /\ handlers' = handlers \ {h} /\ h.of \in Messages
      /\ \A g \in handlers : g.of \in Messages
  BY DEF Finish, TypeOK, Messages
<1>2. \A k \in Messages : outcome[k] # "none" => outcome'[k] # "none"
  BY <1>1 DEF Finish, TypeOK
<1>3. \A g \in handlers' : outcome'[g.of] # "none"
  BY <1>1, <1>2 DEF HoldsOwn
<1>4. CASE ~Writable
  <2>1. UNCHANGED <<where, tag, live, misdirected>>
    BY <1>4 DEF Finish
  <2> QED BY <1>1, <1>3, <2>1 DEF HoldsOwn
<1>5. CASE Writable
  <2>1. Acknowledge(h)
    BY <1>5 DEF Finish
  <2>2. CASE Disconnected
    <3>1. live' = 0 /\ \A g \in handlers' : g.on # 0
      BY <1>1, <2>2 DEF Disconnected, TagsMatch
    <3> QED BY <1>3, <3>1 DEF HoldsOwn
  <2>3. CASE ~Disconnected
    <3>1. UNCHANGED live
      BY <2>1, <2>3 DEF Acknowledge
    <3>2. ASSUME ~misdirected', NEW g \in handlers', g.on = live
          PROVE  where'[g.of] = "unacked" /\ tag'[g.of] = g.tag
      <4>1. ~misdirected /\ h.on = live
        BY <2>1, <3>2 DEF Acknowledge
      <4>2. {m \in Unacked : tag[m] = h.tag} = {h.of}
        BY <4>1, HitsOwn
      <4>3. /\ where' = [m \in Messages |-> IF m = h.of THEN "settled" ELSE where[m]]
            /\ tag' = [m \in Messages |-> IF m = h.of THEN 0 ELSE tag[m]]
        BY <2>1, <2>3, <4>2 DEF Acknowledge
      <4>4. where[g.of] = "unacked" /\ tag[g.of] = g.tag /\ g \in handlers /\ g # h
        BY <1>1, <3>2, <4>1 DEF HoldsOwn
      <4>5. g.of # h.of
        BY <3>2, <4>1, <4>4 DEF HoldsOwn
      <4> QED BY <1>1, <4>3, <4>4, <4>5
    <3> QED BY <1>1, <1>3, <3>1, <3>2 DEF HoldsOwn
  <2> QED BY <2>2, <2>3
<1> QED BY <1>4, <1>5

\* Every step keeps it.
LEMMA NextHeld == TypeOK /\ DeliveryInv /\ OnceInv /\ HeldInv /\ [Next]_vars => HeldInv'
<1> SUFFICES ASSUME TypeOK, DeliveryInv, OnceInv, HeldInv, [Next]_vars, ~noAck' PROVE HoldsOwn'
  BY DEF HeldInv
<1>1. UNCHANGED noAck
  BY DEF Next, Proceed, DialConnects, DialOpens, DialNames, DialConsumes, CloseConnection,
     CloseEnd, HandleReply, Publish, Route, Deliver, Finish, ListenOpens, ListenConsumes,
     StopEnd, Start, DialFails, CloseBegin, Lose, Listen, StopBegin, ServerLost, Crash, vars
<1>2. ~noAck /\ TagsMatch /\ HoldsOwn
  BY <1>1 DEF DeliveryInv, HeldInv
<1>3. CASE \E m \in Messages : Deliver(m)
  BY <1>2, <1>3, DeliverHolds
<1>4. CASE \E h \in handlers : Finish(h)
  BY <1>2, <1>4, FinishHolds
<1>5. CASE Disconnected /\ (StopBegin \/ ServerLost \/ Crash)
  <2>1. handlers' \subseteq handlers /\ UNCHANGED outcome /\ live' = 0
    BY <1>5 DEF StopBegin, ServerLost, Crash, server, Disconnected
  <2>2. \A h \in handlers' : h.on # 0
    BY <1>2, <2>1 DEF TagsMatch
  <2> QED BY <1>2, <2>1, <2>2, NoneHeld
<1>6. CASE ListenOpens
  <2>1. UNCHANGED <<handlers, outcome>> /\ live' = epoch + 1
    BY <1>6 DEF ListenOpens
  <2>2. \A h \in handlers : h.on # epoch + 1
    BY DEF TypeOK
  <2> QED BY <1>2, <2>1, <2>2, NoneHeld
<1>7. CASE /\ UNCHANGED <<handlers, outcome, live, tag, misdirected>>
           /\ \A m \in Messages : where[m] = "unacked" => where'[m] = "unacked"
  BY <1>2, <1>7, AroundHeld
<1>8. CASE \E m \in Sent : Publish(m)
  <2>1. PICK m \in Sent : Publish(m)
    BY <1>8
  <2>2. where[m] = "none"
    BY <2>1 DEF Publish, OnceInv
  <2>3. UNCHANGED <<handlers, outcome, live, tag, misdirected>>
    BY <2>1 DEF Publish, server
  <2>4. UNCHANGED where \/ where' = [where EXCEPT ![m] = "wire"]
    BY <2>1 DEF Publish
  <2> QED BY <1>7, <2>2, <2>3, <2>4 DEF TypeOK
<1>9. CASE (\E m \in Messages : Route(m)) \/ Lose
  BY <1>7, <1>9 DEF Route, Lose, TypeOK, server
<1>10. CASE \/ DialConnects \/ DialOpens \/ DialNames \/ DialConsumes \/ DialFails
            \/ CloseBegin \/ CloseConnection \/ CloseEnd \/ HandleReply
            \/ Listen \/ ListenConsumes \/ StopEnd \/ (StopBegin /\ ~Disconnected)
            \/ (\E m \in Sent : Start(m)) \/ UNCHANGED vars
  <2>1. UNCHANGED <<handlers, outcome, live, tag, misdirected, where>>
    BY <1>10 DEF DialConnects, DialOpens, DialNames, DialConsumes, DialFails, CloseBegin,
       CloseConnection, CloseEnd, HandleReply, Listen, ListenConsumes, StopEnd, StopBegin,
       Start, broker, server, vars
  <2> QED BY <1>7, <2>1
<1>11. ServerLost \/ Crash => Disconnected
  BY DEF ServerLost, Crash
<1> QED
  BY <1>3, <1>4, <1>5, <1>6, <1>8, <1>9, <1>10, <1>11 DEF Next, Proceed

\* What a step leaves of the messages and their handlers, Delivery leaves too.
LEMMA UnmovedDelivers ==
  ASSUME UNCHANGED outcome,
         \A m \in Messages : where'[m] = where[m] \/ {where[m], where'[m]} \subseteq {"none", "wire"}
  PROVE  UNCHANGED Q!deliveryVars
<1>1. UNCHANGED Consumer
  BY DEF Consumer
<1>2. ASSUME NEW m \in Messages PROVE Place'[m] = Place[m]
  BY DEF Place
<1>3. UNCHANGED Place
  BY <1>2 DEF Place
<1> QED BY <1>1, <1>3 DEF Q!deliveryVars

\* The broker takes a message, or the connection goes with it.
LEMMA BrokerDelivers ==
  ASSUME TypeOK, (\E m \in Messages : Route(m)) \/ Lose
  PROVE  Q!DeliveryNext
<1>1. UNCHANGED Consumer
  BY DEF Route, Lose, server, Consumer
<1>2. ASSUME NEW m \in Messages, Route(m) PROVE Q!DeliveryNext
  <2>1. where[m] = "wire" /\ where' = [where EXCEPT ![m] = "queue"] /\ DOMAIN where = Messages
    BY <1>2 DEF Route, TypeOK
  <2>2. Place[m] = "new" /\ Place' = [Place EXCEPT ![m] = "waiting"]
    BY <2>1 DEF Place
  <2>3. Q!Accept(m)
    BY <1>1, <2>2 DEF Q!Accept
  <2> QED BY <2>3 DEF Q!DeliveryNext
<1>3. ASSUME Lose PROVE Q!DeliveryNext
  <2>1. PICK S \in SUBSET {m \in Messages : where[m] = "wire"} :
          where' = [m \in Messages |-> IF m \in S THEN "lost" ELSE where[m]]
    BY <1>3 DEF Lose
  <2>2. S \in SUBSET Q!At("new")
    BY DEF Q!At, Place
  <2>3. Place' = [m \in Messages |-> IF m \in S THEN "out" ELSE Place[m]]
    BY <2>1 DEF Place
  <2>4. Q!Refuse(S)
    BY <1>1, <2>3 DEF Q!Refuse
  <2> QED BY <2>2, <2>4 DEF Q!DeliveryNext
<1> QED BY <1>2, <1>3

\* A channel that closes gives its messages back.
LEMMA DisconnectedDelivers ==
  ASSUME Disconnected, UNCHANGED outcome
  PROVE  Q!DeliveryNext
<1>1. Unacked \in SUBSET Q!At("held")
  BY DEF Unacked, Q!At, Place
<1>2. Place' = [m \in Messages |-> IF m \in Unacked THEN "waiting" ELSE Place[m]]
  BY DEF Disconnected, Place
<1>3. UNCHANGED Consumer
  BY DEF Consumer
<1>4. Q!Release(Unacked, {})
  BY <1>2, <1>3 DEF Q!Release
<1> QED BY <1>1, <1>4 DEF Q!DeliveryNext

\* A delivery starts a handler, or keeps a message that cannot be read.
LEMMA DeliverDelivers ==
  ASSUME TypeOK, ~noAck, NEW m \in Messages, Deliver(m)
  PROVE  Q!DeliveryNext
<1>1. /\ where[m] = "queue" /\ DOMAIN where = Messages /\ DOMAIN outcome = Messages
      /\ where' = [where EXCEPT ![m] = "unacked"]
  BY DEF Deliver, Delivered, TypeOK
<1>2. Place[m] = "waiting" /\ Place' = [Place EXCEPT ![m] = "held"]
  BY <1>1 DEF Place
<1>3. CASE UNCHANGED outcome
  <2>1. UNCHANGED Consumer
    BY <1>3 DEF Consumer
  <2>2. Q!Keep(m)
    BY <1>2, <2>1 DEF Q!Keep
  <2> QED BY <2>2 DEF Q!DeliveryNext
<1>4. CASE outcome' = [outcome EXCEPT ![m] = "running"]
  <2>1. Consumer' = [Consumer EXCEPT ![m] = "running"]
    BY <1>1, <1>4 DEF Consumer
  <2>2. Q!Start(m)
    BY <1>2, <2>1 DEF Q!Start
  <2> QED BY <2>2 DEF Q!DeliveryNext
<1> QED BY <1>3, <1>4 DEF Deliver

\* A handler that ends settles the message it holds, or has lost it to the queue.
LEMMA FinishDelivers ==
  ASSUME TypeOK, TagsMatch, HoldsOwn, ~noAck, ~misdirected', NEW h \in handlers, Finish(h)
  PROVE  Q!DeliveryNext
<1>1. PICK m \in Messages : m = h.of
  BY DEF TypeOK, Messages
<1>2. DOMAIN where = Messages /\ DOMAIN outcome = Messages /\ outcome[m] # "none"
  BY <1>1 DEF TypeOK, HoldsOwn
<1>3. \E how \in {"returned", "threw"} : outcome' = [outcome EXCEPT ![m] = how]
  BY <1>1 DEF Finish
<1>4. Consumer[m] # "none" /\ Consumer' = [Consumer EXCEPT ![m] = "over"]
  BY <1>2, <1>3 DEF Consumer
<1>5. CASE ~Writable
  <2>1. UNCHANGED Place
    BY <1>5 DEF Finish, Place
  <2>2. Q!Decide(m)
    BY <1>4, <2>1 DEF Q!Decide
  <2> QED BY <2>2 DEF Q!DeliveryNext
<1>6. CASE Writable
  <2>1. Acknowledge(h)
    BY <1>6 DEF Finish
  <2>2. ~misdirected /\ h.on = live
    BY <2>1 DEF Acknowledge
  <2>3. {k \in Unacked : tag[k] = h.tag} = {m}
    BY <1>1, <2>2, HitsOwn
  <2>4. where' = [k \in Messages |-> IF k \in {m} THEN "settled" ELSE where[k]]
    BY <2>1, <2>3 DEF Acknowledge
  <2>5. Place[m] = "held"
    BY <1>1, <2>2 DEF HoldsOwn, Place
  <2>6. Place' = [Place EXCEPT ![m] = "gone"]
    BY <2>4 DEF Place
  <2>7. Q!Settle(m)
    BY <1>4, <2>5, <2>6 DEF Q!Settle
  <2> QED BY <2>7 DEF Q!DeliveryNext
<1> QED BY <1>5, <1>6

\* Every step is one of Delivery, or leaves it as it is.
LEMMA StepDelivers ==
  /\ TypeOK /\ DeliveryInv /\ OnceInv /\ HeldInv /\ [Next]_vars
  => [~noAck /\ ~misdirected' => Q!DeliveryNext]_Q!deliveryVars
<1> SUFFICES ASSUME TypeOK, DeliveryInv, OnceInv, HeldInv, [Next]_vars, ~noAck, ~misdirected'
             PROVE  [Q!DeliveryNext]_Q!deliveryVars
  OBVIOUS
<1>1. TagsMatch /\ HoldsOwn
  BY DEF DeliveryInv, HeldInv
<1>2. CASE \E m \in Messages : Deliver(m)
  BY <1>2, DeliverDelivers
<1>3. CASE \E h \in handlers : Finish(h)
  BY <1>1, <1>3, FinishDelivers
<1>4. CASE (\E m \in Messages : Route(m)) \/ Lose
  BY <1>4, BrokerDelivers
<1>5. CASE Disconnected /\ (StopBegin \/ ServerLost \/ Crash)
  <2>1. UNCHANGED outcome
    BY <1>5 DEF StopBegin, ServerLost, Crash, server
  <2> QED BY <1>5, <2>1, DisconnectedDelivers
<1>6. CASE \E m \in Sent : Publish(m)
  <2>1. PICK m \in Sent : Publish(m)
    BY <1>6
  <2>2. where[m] = "none"
    BY <2>1 DEF Publish, OnceInv
  <2>3. UNCHANGED outcome /\ (UNCHANGED where \/ where' = [where EXCEPT ![m] = "wire"])
    BY <2>1 DEF Publish, server
  <2>4. \A k \in Messages : where'[k] = where[k] \/ {where[k], where'[k]} \subseteq {"none", "wire"}
    BY <2>2, <2>3 DEF TypeOK
  <2> QED BY <2>3, <2>4, UnmovedDelivers
<1>7. CASE \/ DialConnects \/ DialOpens \/ DialNames \/ DialConsumes \/ DialFails
           \/ CloseBegin \/ CloseConnection \/ CloseEnd \/ HandleReply
           \/ Listen \/ ListenOpens \/ ListenConsumes \/ StopEnd \/ (StopBegin /\ ~Disconnected)
           \/ (\E m \in Sent : Start(m)) \/ UNCHANGED vars
  <2>1. UNCHANGED <<outcome, where>>
    BY <1>7 DEF DialConnects, DialOpens, DialNames, DialConsumes, DialFails, CloseBegin,
       CloseConnection, CloseEnd, HandleReply, Listen, ListenOpens, ListenConsumes, StopEnd,
       StopBegin, Start, broker, server, vars
  <2> QED BY <2>1, UnmovedDelivers
<1>8. ServerLost \/ Crash => Disconnected
  BY DEF ServerLost, Crash
<1> QED
  BY <1>2, <1>3, <1>4, <1>5, <1>6, <1>7, <1>8 DEF Next, Proceed

\* RmqServer and the broker implement Delivery for any messages, prefetch and number of
\* crashes, losses and close() calls, as long as no acknowledgement goes to another channel
\* than its delivery: a message is delivered until the dispatch() that holds it has
\* settled, and then no more.
THEOREM ServerImplementsDelivery == Spec => ImplementsDelivery
<1>1. Init => HeldInv
  BY DEF Init, HeldInv, HoldsOwn
<1>2. Init => Q!DeliveryInit
  <2> SUFFICES ASSUME Init PROVE Q!DeliveryInit
    OBVIOUS
  <2>1. Consumer = [m \in Messages |-> "none"]
    BY DEF Init, Consumer
  <2>2. Place \in [Messages -> {"new", "waiting"}]
    BY DEF Init, Place
  <2> QED BY <2>1, <2>2 DEF Q!DeliveryInit
<1> QED
  BY <1>1, <1>2, InitTyped, NextTyped, InitDelivery, NextDelivery, InitOnce, NextOnce, NextHeld,
     StepDelivers, PTL DEF Spec, ImplementsDelivery
=============================================================================
