---------------------------- MODULE KvQueueProofs ----------------------------
(***************************************************************************)
(* Proofs about KvConnections, for any registered names and any number of  *)
(* connect() and close() calls: get() gives no closed handle but one whose *)
(* close() threw, and unless calls overlap no open handle is lost.  And    *)
(* about KvQueueListener, for any handlers and messages: a message is      *)
(* forgotten once it is decided.                                           *)
(***************************************************************************)
EXTENDS KvQueue, WellFoundedInduction, TLAPS

-----------------------------------------------------------------------------
(* Numbers.                                                                *)

\* A set of naturals that is not empty has a least element.
LEMMA HasMinimum ==
  ASSUME NEW S, S \subseteq Nat, S # {}
  PROVE  \E m \in S : \A k \in S : m <= k
<1>1. PICK m \in S : \A k \in S : ~(<<k, m>> \in OpToRel(<, Nat))
  BY NatLessThanWellFounded, WFMin
<1>2. OpToRel(<, Nat) = {pair \in Nat \X Nat : pair[1] < pair[2]}
  BY DEF OpToRel
<1>3. ASSUME NEW k \in S PROVE m <= k
  <2>1. k \in Nat /\ m \in Nat
    OBVIOUS
  <2>2. <<k, m>> \in OpToRel(<, Nat) <=> k < m
    BY <1>2, <2>1
  <2>3. ~(k < m)
    BY <1>1, <2>2
  <2> QED BY <2>1, <2>3
<1> QED BY <1>3
-----------------------------------------------------------------------------
(* The entries of KvConnections.                                           *)

\* Entries are numbered from 1.
LEMMA EntriesAreNat ==
  /\ Entries \subseteq Nat \ {0}
  /\ \A i \in Entries : Names[i] \in Range(Names)
  /\ \A i \in Entries : i + 1 \in Nat
<1>1. Entries \subseteq Nat \ {0}
  BY NamesAssumption DEF Entries
<1>2. \A i \in Entries : i + 1 \in Nat
  BY <1>1
<1> QED BY <1>1, <1>2 DEF Entries, Range

\* What connect() opens next is an entry without a handle.
LEMMA NextClosedIsClosed ==
  ASSUME NEW handles, NEW i \in Nat
  PROVE  /\ NextClosed(handles, i) \in {0} \cup Entries
         /\ NextClosed(handles, i) # 0 => handles[Names[NextClosed(handles, i)]] = 0
<1> DEFINE closed == {j \in Entries : j >= i /\ handles[Names[j]] = 0}
<1>1. CASE closed = {}
  BY <1>1 DEF NextClosed
<1>2. CASE closed # {}
  <2>1. closed \subseteq Nat
    BY EntriesAreNat
  <2>2. \E j \in closed : \A k \in closed : j <= k
    BY <1>2, <2>1, HasMinimum
  <2>3. NextClosed(handles, i) \in closed
    BY <1>2, <2>2 DEF NextClosed
  <2> QED BY <2>3
<1> QED BY <1>1, <1>2

-----------------------------------------------------------------------------
(* Types.                                                                  *)

\* The initial values have their types.
LEMMA InitTyped == Init => TypeOK
<1> SUFFICES ASSUME Init PROVE TypeOK
  OBVIOUS
<1>1. overlap \in BOOLEAN
  BY Zenon DEF Init
<1> QED BY <1>1 DEF Init, TypeOK

\* Every step keeps the types.
LEMMA NextTyped == TypeOK /\ [Next]_vars => TypeOK'
<1> SUFFICES ASSUME TypeOK, [Next]_vars PROVE TypeOK'
  OBVIOUS
<1>1. CASE \E t \in Tasks : Connect(t)
  <2>1. PICK t \in Tasks : Connect(t)
    BY <1>1
  <2>2. NextClosed(kv, 1) \in {0} \cup Entries
    BY NextClosedIsClosed
  <2>3. overlap' \in BOOLEAN
    BY <2>1, Zenon DEF Connect
  <2> QED BY <2>1, <2>2, <2>3 DEF Connect, TypeOK
<1>2. CASE \E t \in Tasks : Opened(t)
  <2>1. PICK t \in Tasks : Opened(t)
    BY <1>2
  <2>2. connects[t] \in Entries /\ connects[t] + 1 \in Nat
    <3>1. connects[t] \in Entries
      BY <2>1 DEF Opened, TypeOK
    <3> QED BY <3>1, EntriesAreNat
  <2>3. NextClosed(kv', connects[t] + 1) \in {0} \cup Entries
    BY <2>2, EntriesAreNat, NextClosedIsClosed, Zenon
  <2>4. made' = made + 1 /\ open' \subseteq 1..made' /\ spoilt' \subseteq 1..made'
    BY <2>1 DEF Opened, TypeOK
  <2>5. kv' \in [Range(Names) -> 0..made']
    <3>1. Names[connects[t]] \in Range(Names)
      BY <2>2, EntriesAreNat
    <3>2. kv' = [kv EXCEPT ![Names[connects[t]]] = made + 1]
      BY <2>1 DEF Opened
    <3> QED BY <2>4, <3>1, <3>2 DEF TypeOK
  <2>6. connects' \in [Tasks -> {0} \cup Entries] /\ UNCHANGED overlap
    BY <2>1, <2>3 DEF Opened, TypeOK
  <2> QED BY <2>4, <2>5, <2>6 DEF TypeOK
<1>3. CASE \E t \in Tasks : OpenFails(t)
  <2>1. PICK t \in Tasks : OpenFails(t)
    BY <1>3
  <2>2. connects[t] \in Entries /\ connects[t] + 1 \in Nat
    <3>1. connects[t] \in Entries
      BY <2>1 DEF OpenFails, TypeOK
    <3> QED BY <3>1, EntriesAreNat
  <2>3. NextClosed(kv, connects[t] + 1) \in {0} \cup Entries
    BY <2>2, EntriesAreNat, NextClosedIsClosed, Zenon
  <2> QED BY <2>1, <2>2, <2>3 DEF OpenFails, TypeOK
<1>4. CASE Close
  <2>1. overlap' \in BOOLEAN
    BY <1>4, Zenon DEF Close
  <2>2. kv' \in [Range(Names) -> 0..made']
    BY <1>4 DEF Close, Forgotten, TypeOK
  <2>3. UNCHANGED <<made, connects>> /\ open' \subseteq open
    BY <1>4 DEF Close
  <2>4. spoilt' \subseteq 1..made'
    <3>1. Range(kv) \subseteq 0..made
      BY DEF TypeOK, Range
    <3>2. \E S : S \subseteq Range(kv) \ {0} /\ spoilt' = spoilt \cup S
      BY <1>4 DEF Close, Throwing
    <3>3. made \in Nat /\ made' = made /\ spoilt \subseteq 1..made
      BY <2>3 DEF TypeOK
    <3>4. Range(kv) \ {0} \subseteq 1..made
      BY <3>1, <3>3
    <3> QED BY <3>2, <3>3, <3>4
  <2> QED BY <2>1, <2>2, <2>3, <2>4 DEF TypeOK
<1>5. CASE UNCHANGED connections
  BY <1>5 DEF connections, TypeOK
<1> QED
  BY <1>1, <1>2, <1>3, <1>4, <1>5 DEF Next, Discover, Send, Deliver, GuardsPass, Returns,
     Throws, Report, vars

\* The variables of KvConnections keep their types.
THEOREM TypeCorrect == Spec => []TypeOK
BY InitTyped, NextTyped, PTL DEF Spec

-----------------------------------------------------------------------------
(* The handles are owned.                                                  *)

\* Strengthening HandlesOwned to an inductive invariant: while no calls overlap there is
\* one connect() at most, and what it opens replaces no handle.
OwnedInv ==
  /\ HandlesOwned
  /\ ~overlap =>
       /\ \A t \in Busy : kv[Names[connects[t]]] = 0
       /\ \A t, u \in Busy : t = u

\* The initial state satisfies it.
LEMMA InitOwned == Init => OwnedInv
BY DEF Init, OwnedInv, HandlesOwned, Busy, Range

\* Every step keeps it.
LEMMA NextOwned == TypeOK /\ TypeOK' /\ OwnedInv /\ [Next]_vars => OwnedInv'
<1> SUFFICES ASSUME TypeOK, TypeOK', OwnedInv, [Next]_vars PROVE OwnedInv'
  OBVIOUS
<1>1. CASE \E t \in Tasks : Connect(t)
  <2>1. PICK t \in Tasks : Connect(t)
    BY <1>1
  <2>2. ~overlap' => ~overlap /\ Busy = {}
    BY <2>1 DEF Connect
  <2>3. ~overlap' => Busy' \subseteq {t}
    BY <2>1, <2>2 DEF Connect, Busy, TypeOK
  <2>4. NextClosed(kv, 1) # 0 => kv[Names[NextClosed(kv, 1)]] = 0
    BY NextClosedIsClosed
  <2>5. ~overlap' => \A u \in Busy' : kv'[Names[connects'[u]]] = 0
    BY <2>1, <2>3, <2>4 DEF Connect, Busy, TypeOK
  <2> QED BY <2>1, <2>2, <2>3, <2>5 DEF Connect, OwnedInv, HandlesOwned
<1>2. CASE \E t \in Tasks : Opened(t)
  <2>1. PICK t \in Tasks : Opened(t)
    BY <1>2
  <2> DEFINE n == Names[connects[t]]  next == NextClosed(kv', connects[t] + 1)
  <2>2. /\ connects[t] \in Entries /\ n \in Range(Names) /\ t \in Busy
        /\ connects[t] + 1 \in Nat
    <3>1. connects[t] \in Entries /\ t \in Busy
      BY <2>1 DEF Opened, TypeOK, Busy
    <3> QED BY <3>1, EntriesAreNat
  <2>3. kv' = [kv EXCEPT ![n] = made + 1] /\ open' = open \cup {made + 1}
    BY <2>1 DEF Opened
  <2>4. Range(kv') \subseteq Range(kv) \cup {made + 1}
    BY <2>2, <2>3 DEF TypeOK, Range
  <2>5. kv[n] = 0 => Range(kv) \ {0} \subseteq Range(kv') /\ made + 1 \in Range(kv')
    BY <2>2, <2>3 DEF TypeOK, Range
  <2>6. Range(kv') \ {0} \subseteq open' \cup spoilt'
    BY <2>1, <2>3, <2>4 DEF Opened, OwnedInv, HandlesOwned
  <2>7. ~overlap' => open' \subseteq Range(kv')
    <3>1. ~overlap' => kv[n] = 0 /\ open \subseteq Range(kv)
      BY <2>1, <2>2 DEF Opened, OwnedInv, HandlesOwned
    <3>2. 0 \notin open
      BY DEF TypeOK
    <3> QED BY <2>3, <2>5, <3>1, <3>2
  <2>8. next # 0 => kv'[Names[next]] = 0
    BY <2>2, EntriesAreNat, NextClosedIsClosed, Zenon
  <2>9. ~overlap' => Busy' \subseteq {t}
    BY <2>1, <2>2 DEF Opened, OwnedInv, Busy, TypeOK
  <2>10. connects'[t] = next
    BY <2>1 DEF Opened, TypeOK
  <2>11. ~overlap' => \A u \in Busy' : kv'[Names[connects'[u]]] = 0
    BY <2>8, <2>9, <2>10 DEF Busy
  <2> QED BY <2>6, <2>7, <2>9, <2>11 DEF OwnedInv, HandlesOwned
<1>3. CASE \E t \in Tasks : OpenFails(t)
  <2>1. PICK t \in Tasks : OpenFails(t)
    BY <1>3
  <2> DEFINE next == NextClosed(kv, connects[t] + 1)
  <2>2. connects[t] \in Entries /\ t \in Busy /\ connects[t] + 1 \in Nat
    <3>1. connects[t] \in Entries /\ t \in Busy
      BY <2>1 DEF OpenFails, TypeOK, Busy
    <3> QED BY <3>1, EntriesAreNat
  <2>3. next # 0 => kv[Names[next]] = 0
    BY <2>2, EntriesAreNat, NextClosedIsClosed, Zenon
  <2>4. ~overlap' => Busy' \subseteq {t}
    BY <2>1, <2>2 DEF OpenFails, OwnedInv, Busy, TypeOK
  <2>5. connects'[t] = next /\ UNCHANGED <<kv, open, spoilt, overlap>>
    BY <2>1 DEF OpenFails, TypeOK
  <2>6. ~overlap' => \A u \in Busy' : kv'[Names[connects'[u]]] = 0
    BY <2>3, <2>4, <2>5 DEF Busy
  <2> QED BY <2>4, <2>5, <2>6 DEF OwnedInv, HandlesOwned
<1>4. CASE Close
  <2>1. PICK S \in SUBSET Range(kv) : \E still \in SUBSET (S \cap open) :
          /\ spoilt' = spoilt \cup S
          /\ open' = open \ (Range(kv) \ still)
          /\ kv' = Forgotten(S)
    BY <1>4 DEF Close, Throwing
  <2>2. PICK still \in SUBSET (S \cap open) : open' = open \ (Range(kv) \ still)
    BY <2>1
  <2>3. Range(kv') \subseteq S \cup {0} /\ S \subseteq Range(kv')
    BY <2>1 DEF Forgotten, Range, TypeOK
  <2>4. Range(kv') \ {0} \subseteq open' \cup spoilt'
    BY <2>1, <2>3
  <2>5. ~overlap' => ~overlap /\ Busy = {} /\ Busy' = {}
    BY <1>4 DEF Close, Busy
  <2>6. ~overlap => open' \subseteq Range(kv')
    BY <2>2, <2>3 DEF OwnedInv, HandlesOwned
  <2> QED BY <2>4, <2>5, <2>6 DEF OwnedInv, HandlesOwned
<1>5. CASE UNCHANGED connections
  BY <1>5 DEF connections, OwnedInv, HandlesOwned, Busy
<1> QED
  BY <1>1, <1>2, <1>3, <1>4, <1>5 DEF Next, Discover, Send, Deliver, GuardsPass, Returns,
     Throws, Report, vars

\* KvConnections.get() gives no closed handle, however connect() and close() interleave,
\* but one whose close() has thrown, and no open handle is lost from the registry as long as the calls do not overlap.
THEOREM HandlesAreOwned == Spec => []HandlesOwned
<1>1. OwnedInv => HandlesOwned
  BY DEF OwnedInv
<1> QED BY <1>1, InitTyped, NextTyped, InitOwned, NextOwned, PTL DEF Spec

-----------------------------------------------------------------------------
(* A message is decided before it is forgotten.                            *)

DeliveryType ==
  [of : Messages, by : DOMAIN Handlers, on : Nat, at : {"guards", "run", "report"}]

\* Strengthening DoneIsDecided: what the listener keeps of the messages has its type.
DecidedInv ==
  /\ DoneIsDecided
  /\ running \subseteq DeliveryType
  /\ DOMAIN where = Messages /\ DOMAIN verdict = Messages

\* What find() gives is a method meant for the message, and it misses none but those whose
\* lastIndex is past a match.
LEMMA FoundIsFor ==
  ASSUME NEW m \in Messages
  PROVE  /\ Found(m) # 0 => IsFor(Found(m), m)
         /\ Found(m) = 0 => \A i \in DOMAIN Handlers : IsFor(i, m) => Handlers[i].global
<1> DEFINE hits == {i \in MethodsOf(To[m]) : Tested(i, m)}
<1>1. hits \subseteq Nat \ {0}
  BY HandlerAssumption DEF MethodsOf
<1>2. CASE hits = {}
  <2>1. Found(m) = 0
    BY <1>2 DEF Found
  <2>2. \A i \in DOMAIN Handlers : IsFor(i, m) => i \in MethodsOf(To[m]) /\ ~Tested(i, m)
    BY <1>2 DEF IsFor, MethodsOf
  <2> QED BY <2>1, <2>2 DEF IsFor, Tested
<1>3. CASE hits # {}
  <2>1. \E i \in hits : \A k \in hits : i <= k
    BY <1>1, <1>3, HasMinimum
  <2>2. Found(m) \in hits
    BY <1>3, <2>1 DEF Found, Min
  <2> QED BY <1>1, <2>2 DEF IsFor, MethodsOf, Tested
<1> QED BY <1>2, <1>3

\* The initial state satisfies it.
LEMMA InitDecided == Init => DecidedInv
BY DEF Init, DecidedInv, DoneIsDecided

\* A step keeps it that leaves the deliveries or moves one, and that leaves, decides or
\* puts back messages.
LEMMA DecisionsKeep ==
  ASSUME DecidedInv,
         DOMAIN where' = Messages, DOMAIN verdict' = Messages,
         \A d \in running' : d \in running \/ \E e \in running, place \in {"run", "report"} :
                                                d = [e EXCEPT !.at = place],
         \A m \in Messages : where'[m] = "done" =>
           \/ where[m] = "done" /\ verdict'[m] = verdict[m]
           \/ verdict'[m] \in {"handled", "reported"}
  PROVE  DecidedInv'
<1>1. ASSUME NEW d \in running'
      PROVE  d \in DeliveryType /\ IsFor(d.by, d.of)
  <2>1. CASE d \in running
    BY <2>1 DEF DecidedInv, DoneIsDecided
  <2>2. ASSUME NEW e \in running, NEW place \in {"run", "report"}, d = [e EXCEPT !.at = place]
        PROVE  d \in DeliveryType /\ IsFor(d.by, d.of)
    <3>1. e \in DeliveryType /\ IsFor(e.by, e.of)
      BY DEF DecidedInv, DoneIsDecided
    <3>2. d \in DeliveryType /\ d.by = e.by /\ d.of = e.of
      BY <2>2, <3>1 DEF DeliveryType
    <3> QED BY <3>1, <3>2
  <2> QED BY <2>1, <2>2
<1> QED BY <1>1 DEF DecidedInv, DoneIsDecided

\* A delivery decides a message without a method, or starts the one that is found.
LEMMA DeliverDecides ==
  ASSUME TypeOK, DecidedInv, NEW m \in Messages, Deliver(m)
  PROVE  DecidedInv'
<1>0. CASE UNCHANGED <<where, verdict, running>>
  BY <1>0, DecisionsKeep DEF DecidedInv
<1>1. UNCHANGED <<where, verdict, running>> \/ \E n \in open :
        IF m \in Foreign \/ Found(m) = 0
        THEN /\ where' = [where EXCEPT ![m] = "done"]
             /\ verdict' = [verdict EXCEPT ![m] = IF m \in Foreign THEN "ignored" ELSE "unmatched"]
             /\ UNCHANGED running
        ELSE /\ where' = [where EXCEPT ![m] = "taken"]
             /\ running' = running \cup {[of |-> m, by |-> Found(m), on |-> n, at |-> "guards"]}
             /\ verdict' = [verdict EXCEPT ![m] = "running"]
  BY DEF Deliver, Rejects
<1>2. CASE m \in Foreign \/ Found(m) = 0
  BY <1>0, <1>1, <1>2, FoundIsFor DEF DecidedInv, DoneIsDecided
<1>3. CASE ~(m \in Foreign \/ Found(m) = 0)
  <2>0. CASE UNCHANGED <<where, verdict, running>>
    BY <1>0, <2>0
  <2>3. PICK n \in open : UNCHANGED <<where, verdict, running>> \/
          /\ where' = [where EXCEPT ![m] = "taken"]
          /\ running' = running \cup {[of |-> m, by |-> Found(m), on |-> n, at |-> "guards"]}
          /\ verdict' = [verdict EXCEPT ![m] = "running"]
    BY <1>3 DEF Deliver, Rejects
  <2>1. IsFor(Found(m), m) /\ n \in Nat
    BY <1>3, FoundIsFor DEF TypeOK
  <2>2. [of |-> m, by |-> Found(m), on |-> n, at |-> "guards"] \in DeliveryType
    BY <2>1 DEF IsFor, DeliveryType
  <2> QED BY <2>0, <2>1, <2>2, <2>3 DEF DecidedInv, DoneIsDecided
<1> QED BY <1>2, <1>3

\* Every step keeps it.
LEMMA NextDecided == TypeOK /\ DecidedInv /\ [Next]_vars => DecidedInv'
<1> SUFFICES ASSUME TypeOK, DecidedInv, [Next]_vars PROVE DecidedInv'
  OBVIOUS
<1>1. DOMAIN where = Messages /\ DOMAIN verdict = Messages
  BY DEF DecidedInv
<1>2. CASE UNCHANGED <<where, verdict, running>>
  BY <1>1, <1>2, DecisionsKeep
<1>3. CASE Close
  BY <1>1, <1>3, DecisionsKeep DEF Close, listener
<1>4. CASE \E m \in Messages : Send(m)
  BY <1>1, <1>4, DecisionsKeep DEF Send, listener
<1>5. CASE \E m \in Messages : Deliver(m)
  BY <1>5, DeliverDecides
<1>6. CASE \E d \in running : GuardsPass(d) \/ Throws(d)
  BY <1>1, <1>6, DecisionsKeep DEF GuardsPass, Throws, Move
<1>7. ASSUME NEW d \in running, NEW how \in {"handled", "reported"}, Resolves(d, how)
      PROVE  DecidedInv'
  <2>1. /\ running' \subseteq running
        /\ verdict' = [verdict EXCEPT ![d.of] = how]
        /\ where' \in {where, [where EXCEPT ![d.of] = "done"]}
    BY <1>7 DEF Resolves
  <2> QED BY <1>1, <1>7, <2>1, DecisionsKeep
<1>8. CASE \E d \in running : Returns(d)
  BY <1>7, <1>8 DEF Returns
<1>9. CASE \E d \in running : Report(d)
  <2>1. PICK d \in running : Reported(d)
    BY <1>9 DEF Report
  <2>2. CASE Resolves(d, "reported")
    BY <1>7, <2>2
  <2>3. CASE ~Resolves(d, "reported")
    BY <1>1, <2>1, <2>3, DecisionsKeep DEF Reported
  <2> QED BY <2>2, <2>3
<1> QED
  BY <1>2, <1>3, <1>4, <1>5, <1>6, <1>8, <1>9 DEF Next, Connect, Opened, OpenFails, Discover,
     listener, vars

\* Whatever handles close under its deliveries, and however often one is repeated, Deno
\* forgets a message only once a method meant for it has handled it or its error was
\* reported, or when no method is meant for it but through a RegExp with a lastIndex.
THEOREM ForgottenIsDecided == Spec => []DoneIsDecided
<1>1. DecidedInv => DoneIsDecided
  BY DEF DecidedInv
<1> QED BY <1>1, InitTyped, NextTyped, InitDecided, NextDecided, PTL DEF Spec

-----------------------------------------------------------------------------
(* The listener implements Delivery.                                       *)

\* What makes an acknowledgement reach the message it is meant for: a callback on an open
\* handle is the only one there for its message, which Deno keeps for that handle.
HeldInv ==
  /\ DOMAIN takenOn = Messages
  /\ \A d \in running : d.on \in 1..made /\ verdict[d.of] # "none"
  /\ \A d \in running : d.on \in open => where[d.of] = "taken" /\ takenOn[d.of] = d.on
  /\ \A d, e \in running : d.of = e.of /\ d.on \in open /\ e.on \in open => d = e

\* The steps outside the listener: handles open and close, messages are sent, and those of
\* a closed handle are queued again.
LEMMA AroundHeld ==
  ASSUME TypeOK, HeldInv, UNCHANGED <<running, verdict, takenOn>>,
         made' \in Nat, made' >= made, \A n \in open' : n \in open \/ n = made + 1,
         \A d \in running : d.of \in Messages,
         \A m \in Messages : \/ where'[m] = where[m]
                             \/ where[m] = "taken" /\ takenOn[m] \notin open'
                             \/ where[m] # "taken"
  PROVE  HeldInv'
<1>1. \A d \in running : d.on \in 1..made' /\ d.on # made + 1
  BY DEF HeldInv, TypeOK
<1>2. \A d \in running : d.on \in open' => d.on \in open
  BY <1>1
<1>3. \A d \in running : d.on \in open' => where'[d.of] = "taken" /\ takenOn[d.of] = d.on
  BY <1>2 DEF HeldInv
<1> QED BY <1>1, <1>2, <1>3 DEF HeldInv

\* A delivery starts the only callback of its message on an open handle.
LEMMA DeliverHolds ==
  ASSUME TypeOK, DecidedInv, HeldInv, NEW m \in Messages, Deliver(m)
  PROVE  HeldInv'
<1>0. UNCHANGED <<open, made, spoilt>>
  BY DEF Deliver, connections
<1>10. CASE UNCHANGED <<where, takenOn, running, verdict>>
  BY <1>0, <1>10 DEF HeldInv
<1> SUFFICES ASSUME ~Rejects(m) PROVE HeldInv'
  BY <1>10 DEF Rejects
<1>1. PICK n \in open :
        /\ takenOn' = [takenOn EXCEPT ![m] = n]
        /\ \/ UNCHANGED running /\ verdict'[m] # "none"
           \/ /\ where'[m] = "taken" /\ verdict'[m] # "none"
              /\ running' = running \cup {[of |-> m, by |-> Found(m), on |-> n, at |-> "guards"]}
  BY DEF Deliver, DecidedInv
<1>2. where[m] = "queue" /\ UNCHANGED <<open, made>>
  BY <1>0 DEF Deliver
<1>3. \A k \in Messages \ {m} : where'[k] = where[k] /\ verdict'[k] = verdict[k]
  BY DEF Deliver, DecidedInv
<1>4. \A d \in running : d.of \in Messages /\ (d.on \in open => d.of # m)
  BY <1>2 DEF DecidedInv, DeliveryType, HeldInv
<1>5. takenOn'[m] = n /\ \A k \in Messages \ {m} : takenOn'[k] = takenOn[k]
  BY <1>1 DEF HeldInv
<1>6. n \in 1..made /\ DOMAIN takenOn' = Messages
  BY <1>1 DEF TypeOK, HeldInv
<1>7. \A d \in running :
        /\ d.on \in 1..made /\ verdict'[d.of] # "none"
        /\ d.on \in open => where'[d.of] = "taken" /\ takenOn'[d.of] = d.on
  BY <1>1, <1>3, <1>4, <1>5 DEF HeldInv
<1>8. CASE UNCHANGED running
  BY <1>2, <1>6, <1>7, <1>8 DEF HeldInv
<1>9. ASSUME NEW new, new.of = m, new.on = n, running' = running \cup {new},
             where'[m] = "taken", verdict'[m] # "none"
      PROVE  HeldInv'
  <2>1. \A d \in running' :
          /\ d.on \in 1..made /\ verdict'[d.of] # "none"
          /\ d.on \in open => where'[d.of] = "taken" /\ takenOn'[d.of] = d.on
    BY <1>5, <1>6, <1>7, <1>9
  <2>2. \A d, e \in running' : d.of = e.of /\ d.on \in open /\ e.on \in open => d = e
    BY <1>4, <1>9 DEF HeldInv
  <2> QED BY <1>2, <1>6, <2>1, <2>2 DEF HeldInv
<1> QED BY <1>1, <1>8, <1>9

\* A callback that goes on, or that ends with the only hold on its message.
LEMMA CallbackHolds ==
  ASSUME TypeOK, DecidedInv, HeldInv, NEW d \in running, UNCHANGED <<open, made, takenOn>>,
         \/ /\ \E place \in {"run", "report"} : Move(d, place)
            /\ UNCHANGED <<where, verdict>>
         \/ /\ running' = running \ {d}
            /\ UNCHANGED where \/ d.on \in open
            /\ \A m \in Messages : m # d.of => where'[m] = where[m]
            /\ \A m \in Messages : verdict'[m] = "none" => verdict[m] = "none"
  PROVE  HeldInv'
<1>1. \A e \in running : e \in DeliveryType /\ e.of \in Messages
  BY DEF DecidedInv, DeliveryType
<1>2. CASE \E place \in {"run", "report"} : Move(d, place) /\ UNCHANGED <<where, verdict>>
  <2>1. PICK new : /\ new.of = d.of /\ new.on = d.on
                   /\ running' = (running \ {d}) \cup {new}
    BY <1>1, <1>2 DEF Move, DeliveryType
  <2> QED BY <1>2, <2>1 DEF HeldInv
<1>3. CASE /\ running' = running \ {d}
           /\ UNCHANGED where \/ d.on \in open
           /\ \A m \in Messages : m # d.of => where'[m] = where[m]
           /\ \A m \in Messages : verdict'[m] = "none" => verdict[m] = "none"
  <2>1. \A e \in running' : e.on \in open => where'[e.of] = where[e.of]
    BY <1>1, <1>3 DEF HeldInv
  <2> QED BY <1>1, <1>3, <2>1 DEF HeldInv
<1> QED BY <1>2, <1>3

\* Every step keeps it.
LEMMA NextHeld == TypeOK /\ DecidedInv /\ HeldInv /\ [Next]_vars => HeldInv'
<1> SUFFICES ASSUME TypeOK, DecidedInv, HeldInv, [Next]_vars PROVE HeldInv'
  OBVIOUS
<1>0. /\ DOMAIN where = Messages /\ DOMAIN verdict = Messages /\ made \in Nat
      /\ \A d \in running : d.of \in Messages
  BY DEF DecidedInv, DeliveryType, TypeOK
<1>1. CASE \E t \in Tasks : Connect(t) \/ Opened(t) \/ OpenFails(t)
  <2>1. UNCHANGED <<running, verdict, takenOn, where>>
    BY <1>1 DEF Connect, Opened, OpenFails, listener
  <2>2. (UNCHANGED <<made, open>>) \/ (made' = made + 1 /\ open' = open \cup {made + 1})
    BY <1>1 DEF Connect, Opened, OpenFails
  <2> QED BY <1>0, <2>1, <2>2, AroundHeld
<1>2. CASE Close
  <2>1. UNCHANGED <<running, verdict, takenOn, made>> /\ open' \subseteq open
    BY <1>2 DEF Close, listener
  <2>2. \A m \in Messages : \/ where'[m] = where[m]
                            \/ where[m] = "taken" /\ takenOn[m] \notin open'
    BY <1>2 DEF Close
  <2> QED BY <1>0, <2>1, <2>2, AroundHeld
<1>3. CASE Discover \/ (\E m \in Messages : Send(m)) \/ UNCHANGED vars
  <2>1. UNCHANGED <<running, verdict, takenOn, made, open>>
    BY <1>3 DEF Discover, Send, vars, listener, connections
  <2>2. \A m \in Messages : where'[m] = where[m] \/ where[m] # "taken"
    BY <1>0, <1>3 DEF Discover, Send, vars
  <2> QED BY <1>0, <2>1, <2>2, AroundHeld
<1>4. CASE \E m \in Messages : Deliver(m)
  BY <1>4, DeliverHolds
<1>5. CASE \E d \in running : GuardsPass(d) \/ Throws(d)
  BY <1>5, CallbackHolds DEF GuardsPass, Throws, connections
<1>6. ASSUME NEW d \in running, Returns(d) \/ Report(d)
      PROVE  HeldInv'
  <2>1. UNCHANGED <<open, made, takenOn>>
    BY <1>6 DEF Returns, Report, connections
  <2>2. /\ running' = running \ {d}
        /\ UNCHANGED where \/ d.on \in open
        /\ \A m \in Messages : m # d.of => where'[m] = where[m]
        /\ \A m \in Messages : verdict'[m] = "none" => verdict[m] = "none"
    BY <1>0, <1>6 DEF Returns, Report, Reported, Resolves
  <2> QED BY <2>1, <2>2, CallbackHolds
<1> QED BY <1>1, <1>2, <1>3, <1>4, <1>5, <1>6 DEF Next

\* What a step leaves of the messages and their runs, Delivery leaves too.
LEMMA UnmovedMaps ==
  ASSUME UNCHANGED <<where, verdict>>
  PROVE  UNCHANGED Q!deliveryVars
BY DEF Place, Consumer, Q!deliveryVars

\* A callback that ends settles its message, gives it back, or comes too late for either.
LEMMA CallbackMaps ==
  ASSUME TypeOK, DecidedInv, HeldInv, NEW d \in running, Returns(d) \/ Report(d)
  PROVE  Q!DeliveryNext
<1>0. /\ DOMAIN where = Messages /\ DOMAIN verdict = Messages /\ d.of \in Messages
      /\ verdict[d.of] # "none" /\ (d.on \in open => where[d.of] = "taken")
  BY DEF DecidedInv, DeliveryType, HeldInv
<1>1. PICK m \in Messages : m = d.of
  BY <1>0
<1>2. Consumer[m] # "none" /\ (d.on \in open => Place[m] = "held")
  BY <1>0, <1>1 DEF Place, Consumer
<1>3. ASSUME NEW how \in {"handled", "reported"}, Resolves(d, how)
      PROVE  Q!DeliveryNext
  <2>1. Consumer' = [Consumer EXCEPT ![m] = "over"]
    BY <1>0, <1>1, <1>3 DEF Consumer, Resolves
  <2>2. CASE d.on \in open
    <3>1. Place' = [Place EXCEPT ![m] = "gone"]
      BY <1>0, <1>1, <1>3, <2>2 DEF Place, Resolves
    <3>2. Q!Settle(m)
      BY <1>2, <2>1, <2>2, <3>1 DEF Q!Settle
    <3> QED BY <3>2 DEF Q!DeliveryNext
  <2>3. CASE d.on \notin open
    <3>1. UNCHANGED Place
      BY <1>3, <2>3 DEF Place, Resolves
    <3>2. Q!Decide(m)
      BY <1>2, <2>1, <3>1 DEF Q!Decide
    <3> QED BY <3>2 DEF Q!DeliveryNext
  <2> QED BY <2>2, <2>3
<1>4. ASSUME where' = IF d.on \in open THEN [where EXCEPT ![d.of] = "queue"] ELSE where,
             UNCHANGED verdict
      PROVE  Q!DeliveryNext
  <2>1. UNCHANGED Consumer
    BY <1>4 DEF Consumer
  <2>2. PICK S \in SUBSET Messages : S = IF d.on \in open THEN {m} ELSE {}
    OBVIOUS
  <2>3. S \subseteq Q!At("held")
    BY <1>2, <2>2 DEF Q!At
  <2>4. Place' = [k \in Messages |-> IF k \in S THEN "waiting" ELSE Place[k]]
    BY <1>0, <1>1, <1>4, <2>2 DEF Place
  <2>5. Q!Release(S, {})
    BY <2>1, <2>4 DEF Q!Release
  <2> QED BY <2>3, <2>5 DEF Q!DeliveryNext
<1> QED BY <1>3, <1>4 DEF Returns, Report, Reported

\* A delivery starts a callback, or ends a message that none is meant for.
LEMMA DeliverMaps ==
  ASSUME DecidedInv, NEW m \in Messages, Deliver(m)
  PROVE  [Q!DeliveryNext]_Q!deliveryVars
<1>0. CASE Rejects(m)
  BY <1>0, UnmovedMaps DEF Rejects
<1> SUFFICES ASSUME ~Rejects(m) PROVE Q!DeliveryNext
  BY <1>0
<1>1. where[m] = "queue" /\ DOMAIN where = Messages /\ DOMAIN verdict = Messages
  BY DEF Deliver, DecidedInv
<1>2. Place[m] = "waiting"
  BY <1>1 DEF Place
<1>3. CASE m \in Foreign \/ Found(m) = 0
  <2>1. /\ where' = [where EXCEPT ![m] = "done"]
        /\ verdict' = [verdict EXCEPT ![m] = IF m \in Foreign THEN "ignored" ELSE "unmatched"]
    BY <1>3 DEF Deliver
  <2>2. Place' = [Place EXCEPT ![m] = "gone"]
    BY <1>1, <2>1 DEF Place
  <2>3. Consumer' = [Consumer EXCEPT ![m] = "over"]
    BY <1>1, <2>1 DEF Consumer
  <2>4. m \in Foreign \cup Unmatched
    BY <1>3, FoundIsFor DEF Unmatched
  <2>5. Q!Drop(m)
    BY <1>2, <2>2, <2>3, <2>4 DEF Q!Drop
  <2> QED BY <2>5 DEF Q!DeliveryNext
<1>4. CASE ~(m \in Foreign \/ Found(m) = 0)
  <2>1. where' = [where EXCEPT ![m] = "taken"] /\ verdict' = [verdict EXCEPT ![m] = "running"]
    BY <1>4 DEF Deliver
  <2>2. Place' = [Place EXCEPT ![m] = "held"]
    BY <1>1, <2>1 DEF Place
  <2>3. Consumer' = [Consumer EXCEPT ![m] = "running"]
    BY <1>1, <2>1 DEF Consumer
  <2>4. Q!Start(m)
    BY <1>2, <2>2, <2>3 DEF Q!Start
  <2> QED BY <2>4 DEF Q!DeliveryNext
<1> QED BY <1>3, <1>4

\* send() is accepted or refused.
LEMMA SendMaps ==
  ASSUME DecidedInv, NEW m \in Messages, Send(m)
  PROVE  Q!DeliveryNext
<1>1. where[m] = "none" /\ DOMAIN where = Messages /\ UNCHANGED verdict
  BY DEF Send, DecidedInv, listener
<1>2. Place[m] = "new" /\ UNCHANGED Consumer
  BY <1>1 DEF Place, Consumer
<1>3. CASE where' = [where EXCEPT ![m] = "queue"]
  <2>1. Place' = [Place EXCEPT ![m] = "waiting"]
    BY <1>1, <1>3 DEF Place
  <2>2. Q!Accept(m)
    BY <1>2, <2>1 DEF Q!Accept
  <2> QED BY <2>2 DEF Q!DeliveryNext
<1>4. CASE where' = [where EXCEPT ![m] = "refused"]
  <2>1. Place' = [k \in Messages |-> IF k \in {m} THEN "out" ELSE Place[k]]
    BY <1>1, <1>4 DEF Place
  <2>2. Q!Refuse({m}) /\ {m} \in SUBSET Q!At("new")
    BY <1>2, <2>1 DEF Q!Refuse, Q!At
  <2> QED BY <2>2 DEF Q!DeliveryNext
<1> QED BY <1>3, <1>4 DEF Send

\* close() gives back what its handles hold.
LEMMA CloseMaps ==
  ASSUME Close
  PROVE  Q!DeliveryNext
<1>1. PICK S : S = {m \in Messages : where[m] = "taken" /\ takenOn[m] \notin open'}
  OBVIOUS
<1>2. S \subseteq Q!At("held") /\ S \subseteq Messages
  BY <1>1 DEF Q!At, Place
<1>3. where' = [m \in Messages |-> IF m \in S THEN "queue" ELSE where[m]] /\ UNCHANGED verdict
  BY <1>1 DEF Close, listener
<1>4. Place' = [m \in Messages |-> IF m \in S THEN "waiting" ELSE Place[m]]
  BY <1>3 DEF Place
<1>5. UNCHANGED Consumer
  BY <1>3 DEF Consumer
<1>6. Q!Release(S, {})
  BY <1>4, <1>5 DEF Q!Release
<1> QED BY <1>2, <1>6 DEF Q!DeliveryNext

\* Every step of the listener is one of Delivery, or leaves it as it is.
LEMMA StepDelivers == TypeOK /\ DecidedInv /\ HeldInv /\ [Next]_vars => [Q!DeliveryNext]_Q!deliveryVars
<1> SUFFICES ASSUME TypeOK, DecidedInv, HeldInv, [Next]_vars
             PROVE  [Q!DeliveryNext]_Q!deliveryVars
  OBVIOUS
<1>1. CASE UNCHANGED <<where, verdict>>
  BY <1>1, UnmovedMaps
<1>2. CASE Close \/ (\E m \in Messages : Send(m) \/ Deliver(m))
  BY <1>2, CloseMaps, SendMaps, DeliverMaps
<1>3. CASE \E d \in running : Returns(d) \/ Report(d)
  BY <1>3, CallbackMaps
<1> QED
  BY <1>1, <1>2, <1>3 DEF Next, Connect, Opened, OpenFails, Discover, GuardsPass, Throws, listener,
     vars

\* KvQueueListener implements Delivery for any handles, handlers and messages: whatever
\* connect() and close() do under its callbacks, an enqueued message is delivered until a
\* callback that holds it has decided, with a method meant for it, and then no more.
THEOREM ListenerImplementsDelivery == Spec => ImplementsDelivery
<1>1. Init => HeldInv
  BY DEF Init, HeldInv
<1>2. Init => Q!DeliveryInit
  <2> SUFFICES ASSUME Init PROVE Q!DeliveryInit
    OBVIOUS
  <2>1. Place = [m \in Messages |-> "new"] /\ Consumer = [m \in Messages |-> "none"]
    BY DEF Init, Place, Consumer
  <2> QED BY <2>1 DEF Q!DeliveryInit
<1>3. TypeOK /\ DecidedInv /\ HeldInv /\ [Next]_vars
        => [Q!DeliveryNext /\ DoneIsDecided']_Q!deliveryVars
  BY StepDelivers, NextDecided DEF DecidedInv
<1> QED
  BY <1>1, <1>2, <1>3, InitTyped, NextTyped, InitDecided, NextDecided, NextHeld, PTL
  DEF Spec, ImplementsDelivery
=============================================================================
