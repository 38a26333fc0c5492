------------------------------ MODULE KvQueue ------------------------------
(***************************************************************************)
(* Deno KV connections and the queues over them (packages/kv):             *)
(* KvConnections opens and closes a handle per registered name,            *)
(* KvQueueListener dispatches what Deno delivers, KvQueue.send() enqueues. *)
(* Deno keeps a message until the callback of a listener has resolved for  *)
(* it on a handle that is still open.                                      *)
(***************************************************************************)
EXTENDS Naturals, Sequences, FiniteSets, SequencesExt

CONSTANTS
  Names,       \* the registered connections, in order
  Queues,      \* those registered with `queue`
  Handlers,    \* the @OnMessage methods of the tagged classes, see below
  Messages,
  To, Event,   \* message -> the queue it is sent to, and its id
  Foreign,     \* messages that somebody else enqueued, which have no id
  MaxHandles,  \* bound on the handles opened
  MaxConnects, MaxCloses, MaxFaults  \* bounds on connect(), close(), and failures

\* class: the queue of the handler's class; name: the one of the method, or the same;
\* match: the ids its event matches; global: it is a RegExp with the flag g or y.
ASSUME NamesAssumption == Names \in Seq(Range(Names)) /\ IsInjective(Names)
ASSUME HandlerAssumption ==
  /\ Queues \subseteq Range(Names) /\ Foreign \subseteq Messages
  /\ Handlers \in Seq(Range(Handlers))
  /\ \A i \in DOMAIN Handlers :
       DOMAIN Handlers[i] = {"class", "name", "match", "global"}

VARIABLES
  kv,         \* name -> entry.kv: a handle, or 0
  open, made, \* handles that are open, and how many were opened
  spoilt,     \* handles whose close() has thrown
  connects,   \* task -> the entry whose Deno.openKv() connect() awaits, or 0
  overlap,    \* two connect() calls, or a connect() and a close(), overlapped
  listening,  \* <<name, handle>> of the listeners
  discovery,  \* "idle", "done" or "failed"
  where,      \* message -> "none", "refused", "queue", "taken" or "done"
  takenOn,    \* message -> the handle it was last delivered on
  running,    \* deliveries inside handleMessage(): [of, by, on, at]
  lastIndex,  \* handler -> its RegExp's lastIndex is past a match
  verdict,    \* message -> what handleMessage() last did with it
  budget

connections == <<kv, open, made, spoilt, connects, overlap>>
listener == <<listening, discovery, running, lastIndex, verdict>>
vars == <<connections, listener, where, takenOn, budget>>

-----------------------------------------------------------------------------
Spend(what) == budget[what] > 0 /\ budget' = [budget EXCEPT ![what] = @ - 1]
Entries == DOMAIN Names
Tasks == 1..MaxConnects
Busy == {t \in Tasks : connects[t] # 0}

-----------------------------------------------------------------------------
(* KvConnections.                                                          *)

\* The first entry from i on that has no handle, or 0.
NextClosed(handles, i) ==
  LET closed == {j \in Entries : j >= i /\ handles[Names[j]] = 0} IN
  IF closed = {} THEN 0 ELSE CHOOSE j \in closed : \A k \in closed : j <= k

\* connect() up to its first await.
Connect(t) ==
  /\ connects[t] = 0
  /\ Spend("connect")
  /\ connects' = [connects EXCEPT ![t] = NextClosed(kv, 1)]
  /\ overlap' = (overlap \/ Busy # {})
  /\ UNCHANGED <<kv, open, made, spoilt, listener, where, takenOn>>

\* The handle is assigned whatever entry.kv is by now.
Opened(t) ==
  /\ connects[t] # 0
  /\ made < MaxHandles
  /\ made' = made + 1
  /\ open' = open \cup {made + 1}
  /\ kv' = [kv EXCEPT ![Names[connects[t]]] = made + 1]
  /\ connects' = [connects EXCEPT ![t] = NextClosed(kv', connects[t] + 1)]
  /\ UNCHANGED <<spoilt, overlap, listener, where, takenOn, budget>>

\* A failure is reported, and the next entry opened.
OpenFails(t) ==
  /\ connects[t] # 0
  /\ Spend("fault")
  /\ connects' = [connects EXCEPT ![t] = NextClosed(kv, @ + 1)]
  /\ UNCHANGED <<kv, open, made, spoilt, overlap, listener, where, takenOn>>

\* Faulty variant: close() keeps the handles it has closed.
MutForgotten(S) == kv

\* What entry.kv is after a close() for which the handles S have thrown.
Forgotten(S) == [n \in Range(Names) |-> IF kv[n] \in S THEN kv[n] ELSE 0]

\* The handles S throw when close() is called on them, as one that is closed does: each
\* is reported, and the loop goes on.
Throwing(S) ==
  /\ S \subseteq Range(kv) \ {0} /\ Range(kv) \ {0} \subseteq S \cup open
  /\ S # {} => budget["fault"] > 0
  /\ spoilt' = spoilt \cup S
  /\ budget' = [budget EXCEPT !["close"] = @ - 1, !["fault"] = IF S = {} THEN @ ELSE @ - 1]

\* close() takes no await.  A handle that throws is still open or not; what the closed ones
\* have not acknowledged is kept by Deno.
Close ==
  /\ budget["close"] > 0
  /\ \E S \in SUBSET Range(kv) : \E still \in SUBSET (S \cap open) :
       /\ Throwing(S)
       /\ open' = open \ (Range(kv) \ still)
       /\ kv' = Forgotten(S)
  /\ overlap' = (overlap \/ Busy # {})
  /\ where' = [m \in Messages |-> IF where[m] = "taken" /\ takenOn[m] \notin open' THEN "queue"
                                                                           ELSE where[m]]
  /\ UNCHANGED <<made, connects, listener, takenOn>>

-----------------------------------------------------------------------------
(* KvQueueListener: discovery.                                             *)

\* Methods of classes whose queue is registered as one.
Eligible == SelectSeq(Handlers, LAMBDA h : h.class \in Queues)

\* The keys of the handler map in the order they were added.
Keys == FoldLeft(LAMBDA keys, h : IF h.name \in Range(keys) THEN keys ELSE Append(keys, h.name),
                 <<>>, Eligible)

\* Faulty variant: a key keeps the first of its methods only.
MutMethodsOf(key) ==
  LET named == {i \in DOMAIN Handlers : Handlers[i].name = key /\ Handlers[i].class \in Queues} IN
  {i \in named : \A j \in named : i <= j}

\* A key's methods: their positions in Handlers, which is their order.
MethodsOf(key) == {i \in DOMAIN Handlers : Handlers[i].name = key /\ Handlers[i].class \in Queues}

\* get() finds an open connection.
Established(key) == key \in Range(Names) /\ kv[key] # 0

\* A key that is not registered or not open makes get() throw: the bootstrap fails,
\* and the keys before it are listened to.
Discover ==
  LET lost == {i \in DOMAIN Keys : ~Established(Keys[i])}
      reached == {i \in DOMAIN Keys : \A j \in lost : i < j} IN
  /\ discovery = "idle"
  /\ discovery' = IF lost = {} THEN "done" ELSE "failed"
  /\ listening' = listening \cup {<<Keys[i], kv[Keys[i]]>> : i \in reached}
  /\ UNCHANGED <<connections, running, lastIndex, verdict, where, takenOn, budget>>

-----------------------------------------------------------------------------
(* KvQueue.send(), and what Deno delivers.                                 *)

Send(m) ==
  /\ where[m] = "none"
  /\ where' = [where EXCEPT ![m] = IF Established(To[m]) \/ m \in Foreign THEN "queue"
                                                                        ELSE "refused"]
  /\ UNCHANGED <<connections, listener, takenOn, budget>>

\* RegExp.test(), or the comparison with a string.
Tested(i, m) == Event[m] \in Handlers[i].match /\ ~(Handlers[i].global /\ lastIndex[i])

\* The method find() gives, or 0; the tests on the way leave lastIndex behind them.
Found(m) ==
  LET hits == {i \in MethodsOf(To[m]) : Tested(i, m)} IN
  IF hits = {} THEN 0 ELSE Min(hits)

Tests(m) == {i \in MethodsOf(To[m]) : Found(m) = 0 \/ i <= Found(m)}

\* The payload of a message that has a method cannot be constructed: handleMessage() throws
\* before its try, the callback rejects and Deno delivers again.
Rejects(m) ==
  /\ m \notin Foreign /\ Found(m) # 0
  /\ Spend("fault")
  /\ UNCHANGED <<where, takenOn, running, verdict>>

\* handleMessage() up to the await of the handler's instance.
Deliver(m) ==
  /\ where[m] = "queue"
  /\ \E n \in open :
       /\ <<To[m], n>> \in listening
       /\ \/ Rejects(m)
          \/ /\ takenOn' = [takenOn EXCEPT ![m] = n] /\ UNCHANGED budget
             /\ IF m \in Foreign \/ Found(m) = 0
                THEN /\ where' = [where EXCEPT ![m] = "done"]
                     /\ verdict' = [verdict EXCEPT ![m] = IF m \in Foreign THEN "ignored"
                                                                         ELSE "unmatched"]
                     /\ UNCHANGED running
                ELSE /\ where' = [where EXCEPT ![m] = "taken"]
                     /\ running' = running \cup
                          {[of |-> m, by |-> Found(m), on |-> n, at |-> "guards"]}
                     /\ verdict' = [verdict EXCEPT ![m] = "running"]
  /\ lastIndex' = [i \in DOMAIN Handlers |->
       IF m \notin Foreign /\ i \in Tests(m) /\ Handlers[i].global THEN i = Found(m)
                                                                  ELSE lastIndex[i]]
  /\ UNCHANGED <<connections, listening, discovery>>

Move(d, place) == running' = (running \ {d}) \cup {[d EXCEPT !.at = place]}

\* The callback resolves: Deno forgets the message, if the handle is still open.
Resolves(d, how) ==
  /\ running' = running \ {d}
  /\ verdict' = [verdict EXCEPT ![d.of] = how]
  /\ where' = IF d.on \in open THEN [where EXCEPT ![d.of] = "done"] ELSE where

\* The guards let the message pass: the RegExp is executed for the handler.
GuardsPass(d) ==
  /\ d.at = "guards"
  /\ Move(d, "run")
  /\ lastIndex' = [lastIndex EXCEPT ![d.by] = Handlers[d.by].global /\ ~@]
  /\ UNCHANGED <<connections, listening, discovery, verdict, where, takenOn, budget>>

Returns(d) ==
  /\ d.at = "run"
  /\ Resolves(d, "handled")
  /\ UNCHANGED <<connections, listening, discovery, lastIndex, takenOn, budget>>

\* A guard refuses or the handler throws: the exception handler is awaited.
Throws(d) ==
  /\ d.at \in {"guards", "run"}
  /\ Move(d, "report")
  /\ UNCHANGED <<connections, listening, discovery, lastIndex, verdict, where, takenOn, budget>>

\* Faulty variant: the error is thrown on after it was reported.
MutReported(d) ==
  /\ running' = running \ {d}
  /\ where' = IF d.on \in open THEN [where EXCEPT ![d.of] = "queue"] ELSE where
  /\ UNCHANGED <<verdict, budget>>

\* A reported error is the end of its message; Deno delivers it again only when the
\* exception handler itself rejects.
Reported(d) ==
  \/ Resolves(d, "reported") /\ UNCHANGED budget
  \/ /\ Spend("fault")
     /\ running' = running \ {d}
     /\ where' = IF d.on \in open THEN [where EXCEPT ![d.of] = "queue"] ELSE where
     /\ UNCHANGED verdict

Report(d) ==
  /\ d.at = "report"
  /\ Reported(d)
  /\ UNCHANGED <<connections, listening, discovery, lastIndex, takenOn>>

-----------------------------------------------------------------------------
Init ==
  /\ kv = [n \in Range(Names) |-> 0] /\ open = {} /\ made = 0 /\ spoilt = {}
  /\ connects = [t \in Tasks |-> 0] /\ overlap = FALSE
  /\ listening = {} /\ discovery = "idle" /\ running = {}
  /\ lastIndex = [i \in DOMAIN Handlers |-> FALSE]
  /\ verdict = [m \in Messages |-> "none"]
  /\ where = [m \in Messages |-> "none"] /\ takenOn = [m \in Messages |-> 0]
  /\ budget = [connect |-> MaxConnects, close |-> MaxCloses, fault |-> MaxFaults]

Next ==
  \/ \E t \in Tasks : Connect(t) \/ Opened(t) \/ OpenFails(t)
  \/ Close \/ Discover
  \/ \E m \in Messages : Send(m) \/ Deliver(m)
  \/ \E d \in running : GuardsPass(d) \/ Returns(d) \/ Throws(d) \/ Report(d)

Spec == Init /\ [][Next]_vars

\* Deno delivers to an open listener, and guards, handlers and filters end.
Fairness ==
  \A m \in Messages :
    /\ WF_vars(Deliver(m))
    /\ WF_vars(\E d \in running : d.of = m /\ (Returns(d) \/ Throws(d) \/ Report(d)))

FairSpec == Spec /\ Fairness
-----------------------------------------------------------------------------
\* The variables of KvConnections keep their types.
TypeOK ==
  /\ made \in Nat /\ open \subseteq 1..made /\ spoilt \subseteq 1..made
  /\ kv \in [Range(Names) -> 0..made]
  /\ connects \in [Tasks -> {0} \cup Entries] /\ overlap \in BOOLEAN

\* Safety.  However connect() and close() calls interleave, get() gives no closed handle
\* but one whose close() has thrown, which the registry keeps; and unless they overlap, no
\* open handle is lost from the registry.
HandlesOwned ==
  /\ Range(kv) \ {0} \subseteq open \cup spoilt
  /\ ~overlap => open \subseteq Range(kv)

\* What the comment on close() says: it closes all open KV connections.  A close() of
\* which no handle throws leaves none open.
CloseClosesAll == [][Close /\ spoilt' = {} => open' = {}]_vars

\* Method i is meant for message m.
IsFor(i, m) ==
  /\ i \in DOMAIN Handlers /\ Handlers[i].class \in Queues
  /\ Handlers[i].name = To[m] /\ Event[m] \in Handlers[i].match

\* Safety.  What runs for a message is a method meant for it; Deno forgets a message only
\* after such a method has returned or its error was reported, or when there is none; an
\* event with the flag g or y may miss a message that it matches, since test() leaves its
\* lastIndex behind.
DoneIsDecided ==
  /\ \A d \in running : IsFor(d.by, d.of)
  /\ \A m \in Messages \ Foreign :
       where[m] = "done" =>
         \/ verdict[m] \in {"handled", "reported"}
         \/ /\ verdict[m] = "unmatched"
            /\ \A i \in DOMAIN Handlers : IsFor(i, m) => Handlers[i].global

\* Messages that no method is meant for, but through a RegExp with a lastIndex.
Unmatched == {m \in Messages : \A i \in DOMAIN Handlers : IsFor(i, m) => Handlers[i].global}

\* Where a message is and what its handler does, in the words of Delivery.
Place == [m \in Messages |->
  CASE where[m] = "none"    -> "new"
    [] where[m] = "refused" -> "out"
    [] where[m] = "queue"   -> "waiting"
    [] where[m] = "taken"   -> "held"
    [] OTHER                -> "gone"]
Consumer == [m \in Messages |-> IF verdict[m] \in {"none", "running"} THEN verdict[m] ELSE "over"]

Q == INSTANCE Delivery WITH
  Unwanted <- Foreign \cup Unmatched, place <- Place, consumer <- Consumer, volatile <- {}

\* Refinement.  The listener takes a message at least once, whatever closes under it: an
\* enqueued message goes only from a callback that runs for it, once its handler has
\* ended or its error was reported, and is then delivered no more.  Each such step
\* leaves DoneIsDecided true: what runs for a message is a method meant for it.
ImplementsDelivery ==
  Q!DeliveryInit /\ [][Q!DeliveryNext /\ DoneIsDecided']_Q!deliveryVars

\* Liveness.  A message in a queue that is listened to is decided, also when its
\* handler always throws, as long as the listener's handle stays open.
MessageSettles ==
  \A m \in Messages :
    LET Heard == \E n \in open : <<To[m], n>> \in listening IN
    where[m] = "queue" /\ Heard ~> where[m] = "done" \/ ~Heard
=============================================================================
