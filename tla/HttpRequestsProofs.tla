------------------------- MODULE HttpRequestsProofs -------------------------
(***************************************************************************)
(* Proofs about ExceptionFilters and HttpRequests, for any filters, any    *)
(* number of register() calls and any requests: the filters of a class are *)
(* in order, the containers of request contexts are released, and a        *)
(* success has passed all of its guards.  And about Pipes: what a handler  *)
(* reads through a pipe is what it asks for.                               *)
(***************************************************************************)
EXTENDS HttpRequests, Pipes, SequenceTheorems, WellFoundedInduction, TLAPS

Entry == [filter : DOMAIN Filters, priority : Int, nth : Nat]

-----------------------------------------------------------------------------
(* Numbers.                                                                *)

\* A set of naturals that is not empty has a least element.
LEMMA HasMinimum ==
  ASSUME NEW S, S \subseteq Nat, S # {}
  PROVE  \E m \in S : \A k \in S : m <= k
<1>1. PICK m \in S : \A k \in S : ~(<<k, m>> \in OpToRel(<, Nat))
  BY NatLessThanWellFounded, WFMin
<1>2. OpToRel(<, Nat) = {pair \in Nat \X Nat : pair[1] < pair[2]}
  BY DEF OpToRel
<1>3. ASSUME NEW k \in S PROVE m <= k
  <2>1. k \in Nat /\ m \in Nat
    OBVIOUS
  <2>2. <<k, m>> \in OpToRel(<, Nat) <=> k < m
    BY <1>2, <2>1
  <2>3. ~(k < m)
    BY <1>1, <2>2
  <2> QED BY <2>1, <2>3
<1> QED BY <1>3
-----------------------------------------------------------------------------
(* The filters of a class.                                                 *)

\* A list of filters: in descending priority, those of one priority as inserted.
Ordered(list) ==
  \A i, j \in DOMAIN list :
    i < j => \/ list[i].priority > list[j].priority
             \/ list[i].priority = list[j].priority /\ list[i].nth < list[j].nth

\* An entry that is newer than those of a list, put after those of its priority or a
\* higher one, keeps the order.
LEMMA InsertedIsOrdered ==
  ASSUME NEW list \in Seq(Entry), NEW e \in Entry, Ordered(list),
         \A k \in DOMAIN list : list[k].nth < e.nth,
         NEW i \in 1..(Len(list) + 1), NEW t \in Seq(Entry), DOMAIN t = 1..(Len(list) + 1),
         \A k \in DOMAIN t : t[k] = IF k < i THEN list[k] ELSE IF k = i THEN e ELSE list[k - 1],
         \A k \in 1..(i - 1) : list[k].priority >= e.priority,
         i <= Len(list) => list[i].priority < e.priority
  PROVE  Ordered(t)
<1>1. Len(list) \in Nat /\ DOMAIN list = 1..Len(list)
  OBVIOUS
<1>2. \A k \in 1..Len(list) : list[k].priority \in Int /\ list[k].nth \in Nat
  <2>1. \A k \in 1..Len(list) : list[k] \in Entry
    BY <1>1
  <2> QED BY <2>1 DEF Entry
<1>3. e.priority \in Int /\ e.nth \in Nat
  BY DEF Entry
<1>4. \A k \in i..Len(list) : list[k].priority < e.priority
  <2> SUFFICES ASSUME NEW k \in i..Len(list) PROVE list[k].priority < e.priority
    OBVIOUS
  <2>1. CASE k = i
    BY <2>1
  <2>2. CASE k # i
    <3>1. i \in DOMAIN list /\ k \in DOMAIN list /\ i < k /\ i <= Len(list)
      BY <1>1, <2>2
    <3>2. list[i].priority >= list[k].priority
      BY <1>1, <1>2, <3>1 DEF Ordered
    <3> QED BY <1>1, <1>2, <1>3, <3>1, <3>2
  <2> QED BY <2>1, <2>2
<1>5. ASSUME NEW j \in DOMAIN t, NEW k \in DOMAIN t, j < k
      PROVE  \/ t[j].priority > t[k].priority
             \/ t[j].priority = t[k].priority /\ t[j].nth < t[k].nth
  <2>1. CASE k < i
    <3>1. t[j] = list[j] /\ t[k] = list[k] /\ j \in DOMAIN list /\ k \in DOMAIN list
      BY <1>1, <1>5, <2>1
    <3> QED BY <1>5, <3>1 DEF Ordered
  <2>2. CASE k = i
    <3>1. t[j] = list[j] /\ t[k] = e /\ j \in 1..(i - 1) /\ j \in 1..Len(list)
      BY <1>1, <1>5, <2>2
    <3> QED BY <1>1, <1>2, <1>3, <3>1
  <2>3. CASE j < i /\ k > i
    <3>1. /\ t[j] = list[j] /\ t[k] = list[k - 1] /\ j \in 1..(i - 1)
          /\ j \in 1..Len(list) /\ k - 1 \in i..Len(list) /\ k - 1 \in 1..Len(list)
      BY <1>1, <1>5, <2>3
    <3> QED BY <1>2, <1>3, <1>4, <3>1
  <2>4. CASE j = i
    <3>1. t[j] = e /\ t[k] = list[k - 1] /\ k - 1 \in i..Len(list) /\ k - 1 \in 1..Len(list)
      BY <1>1, <1>5, <2>4
    <3> QED BY <1>2, <1>3, <1>4, <3>1
  <2>5. CASE j > i
    <3>1. /\ t[j] = list[j - 1] /\ t[k] = list[k - 1] /\ j - 1 < k - 1
          /\ j - 1 \in DOMAIN list /\ k - 1 \in DOMAIN list
      BY <1>1, <1>5, <2>5
    <3> QED BY <3>1 DEF Ordered
  <2> QED BY <1>5, <2>1, <2>2, <2>3, <2>4, <2>5
<1> QED BY <1>5 DEF Ordered

\* What registerExceptionFilterInCache() makes of a list that is in order.
LEMMA SortedIsOrdered ==
  ASSUME NEW list \in Seq(Entry), NEW e \in Entry, Ordered(list),
         \A k \in DOMAIN list : list[k].nth < e.nth
  PROVE  /\ Sorted(list, e) \in Seq(Entry) /\ Ordered(Sorted(list, e))
         /\ \A k \in DOMAIN Sorted(list, e) :
              Sorted(list, e)[k] = e \/ \E j \in DOMAIN list : Sorted(list, e)[k] = list[j]
<1> DEFINE lower == {i \in DOMAIN list : list[i].priority < e.priority}
<1>1. \A k \in DOMAIN list : list[k].priority \in Int
  <2>1. \A k \in DOMAIN list : list[k] \in Entry
    OBVIOUS
  <2> QED BY <2>1 DEF Entry
<1>2. e.priority \in Int /\ Len(list) \in Nat /\ DOMAIN list = 1..Len(list)
  BY DEF Entry
<1>3. PICK i \in 1..(Len(list) + 1), t \in Seq(Entry) :
        /\ Sorted(list, e) = t /\ DOMAIN t = 1..(Len(list) + 1)
        /\ \A k \in DOMAIN t : t[k] = IF k < i THEN list[k] ELSE IF k = i THEN e ELSE list[k - 1]
        /\ \A k \in 1..(i - 1) : list[k].priority >= e.priority
        /\ i <= Len(list) => list[i].priority < e.priority
  <2>1. CASE lower = {}
    <3> DEFINE u == Append(list, e)
    <3>1. Sorted(list, e) = u
      BY <2>1 DEF Sorted
    <3>2. u \in Seq(Entry) /\ DOMAIN u = 1..(Len(list) + 1)
      OBVIOUS
    <3>3. \A k \in DOMAIN u : u[k] = IF k < Len(list) + 1 THEN list[k] ELSE e
      OBVIOUS
    <3>4. \A k \in 1..Len(list) : list[k].priority >= e.priority
      BY <1>1, <1>2, <2>1
    <3>5. Len(list) + 1 \in 1..(Len(list) + 1) /\ ~(Len(list) + 1 <= Len(list))
      BY <1>2
    <3>6. \A k \in DOMAIN u : u[k] = IF k < Len(list) + 1 THEN list[k]
                                   ELSE IF k = Len(list) + 1 THEN e ELSE list[k - 1]
      BY <1>2, <3>2, <3>3
    <3>7. (Len(list) + 1) - 1 = Len(list)
      BY <1>2
    <3> HIDE DEF u
    <3> QED BY <3>1, <3>2, <3>4, <3>5, <3>6, <3>7
  <2>2. CASE lower # {}
    <3>0. lower \subseteq Nat
      BY <1>2
    <3>1. \E m \in lower : \A k \in lower : m <= k
      BY <2>2, <3>0, HasMinimum
    <3> DEFINE i == CHOOSE m \in lower : \A k \in lower : m <= k
               u == SubSeq(list, 1, i - 1) \o <<e>> \o SubSeq(list, i, Len(list))
    <3>2. i \in lower /\ \A k \in lower : i <= k
      BY <3>1
    <3>3. Sorted(list, e) = u
      BY <2>2 DEF Sorted, InsertAt
    <3> HIDE DEF i
    <3>4. i \in 1..Len(list) /\ list[i].priority < e.priority
      BY <1>2, <3>2
    <3>5. \A k \in 1..(i - 1) : list[k].priority >= e.priority
      BY <1>1, <1>2, <3>2, <3>4
    <3>6. /\ u \in Seq(Entry) /\ DOMAIN u = 1..(Len(list) + 1)
          /\ \A k \in DOMAIN u : u[k] = IF k < i THEN list[k] ELSE IF k = i THEN e ELSE list[k - 1]
      <4> DEFINE a == SubSeq(list, 1, i - 1)  b == SubSeq(list, i, Len(list))
      <4>1. /\ a \in Seq(Entry) /\ Len(a) = i - 1 /\ \A k \in 1..(i - 1) : a[k] = list[k]
        BY <1>2, <3>4
      <4>2. /\ b \in Seq(Entry) /\ Len(b) = Len(list) - i + 1
            /\ \A k \in 1..(Len(list) - i + 1) : b[k] = list[k + i - 1]
        BY <1>2, <3>4
      <4> HIDE DEF a, b
      <4>3. u = a \o <<e>> \o b
        BY DEF a, b
      <4> DEFINE c == a \o <<e>>
      <4>4. /\ c \in Seq(Entry) /\ Len(c) = i
            /\ \A k \in 1..i : c[k] = IF k < i THEN list[k] ELSE e
        BY <1>2, <3>4, <4>1
      <4> HIDE DEF c
      <4>5. /\ c \o b \in Seq(Entry) /\ Len(c \o b) = Len(list) + 1
            /\ \A k \in 1..(Len(list) + 1) : (c \o b)[k] = IF k <= i THEN c[k] ELSE b[k - i]
        <5>1. i \in Nat /\ Len(c) + Len(b) = Len(list) + 1
          BY <1>2, <3>4, <4>2, <4>4
        <5>2. c \o b \in Seq(Entry) /\ Len(c \o b) = Len(c) + Len(b)
          BY <4>2, <4>4
        <5>3. \A k \in 1..(Len(c) + Len(b)) :
                (c \o b)[k] = IF k <= Len(c) THEN c[k] ELSE b[k - Len(c)]
          BY <4>2, <4>4, ConcatProperties
        <5> QED BY <4>4, <5>1, <5>2, <5>3
      <4>6. \A k \in (i + 1)..(Len(list) + 1) : b[k - i] = list[k - 1]
        BY <1>2, <3>4, <4>2
      <4>7. u = c \o b
        BY <4>3 DEF c
      <4> HIDE DEF u
      <4> QED BY <1>2, <3>4, <4>4, <4>5, <4>6, <4>7
    <3> HIDE DEF u
    <3>7. i \in 1..(Len(list) + 1)
      BY <1>2, <3>4
    <3> QED BY <3>3, <3>4, <3>5, <3>6, <3>7
  <2> QED BY <2>1, <2>2
<1>4. Ordered(t)
  BY <1>3, InsertedIsOrdered
<1>5. \A k \in DOMAIN t : t[k] = e \/ \E j \in DOMAIN list : t[k] = list[j]
  BY <1>2, <1>3
<1> QED BY <1>3, <1>4, <1>5

-----------------------------------------------------------------------------
(* Types.                                                                  *)

\* The initial values have their types.
LEMMA InitTyped == Init => TypeOK
BY DEF Init, FiltersInit, TypeOK, FiltersTypeOK

\* The steps of a request keep the places and the containers' types.
LEMMA StepTyped ==
  ASSUME TypeOK, NEW q \in DOMAIN Requests, Step(q), UNCHANGED filterVars
  PROVE  TypeOK'
<1> DEFINE Places == {"new", "controller", "guards", "body", "handler", "filters", "done"}
           Containers == {Requests[p].id : p \in DOMAIN Requests} \X {"root", "imported"}
<1>1. <<Requests[q].id, "root">> \in Containers /\ Holds(q) \in Containers
  BY DEF Holds
<1>2. at' \in [DOMAIN Requests -> Places]
  BY DEF TypeOK, Step, Receive, ControllerResolved, Guard, GuardsDone, Validate, Returns,
     HandlerThrows, Settled, Goto, Throw, Respond
<1>3. scopes' \subseteq Containers
  <2> SUFFICES scopes' \subseteq scopes \cup {<<Requests[q].id, "root">>, Holds(q)}
    BY <1>1 DEF TypeOK
  <2> QED
    BY DEF Step, Receive, ControllerResolved, Guard, GuardsDone, Validate, Returns,
       HandlerThrows, Settled, Goto, Throw, Respond
<1>4. FiltersTypeOK'
  BY DEF TypeOK, FiltersTypeOK, filterVars
<1> QED BY <1>2, <1>3, <1>4 DEF TypeOK

-----------------------------------------------------------------------------
(* The filters of a class are in order.                                    *)

\* Strengthening FiltersOrdered to an inductive invariant: no entry is newer than the count.
FiltersInv ==
  /\ FiltersTypeOK
  /\ \A c \in Classes : Ordered(handlers[c])
  /\ \A c \in Classes : \A k \in DOMAIN handlers[c] : handlers[c][k].nth <= inserted

\* The initial lists satisfy it.
LEMMA InitFilters == FiltersInit => FiltersInv
BY DEF FiltersInit, FiltersInv, FiltersTypeOK, Ordered

\* A step that changes no list keeps it, if the count only grows.
LEMMA SameListsKeep ==
  ASSUME FiltersInv, UNCHANGED handlers, inserted' \in Nat, inserted' >= inserted
  PROVE  FiltersInv'
<1>1. \A c \in Classes : Ordered(handlers'[c])
  BY DEF FiltersInv
<1>2. \A c \in Classes : \A k \in DOMAIN handlers[c] : handlers[c][k] \in Entry
  <2>1. \A c \in Classes : handlers[c] \in Seq(Entry)
    BY DEF FiltersInv, FiltersTypeOK, Entry
  <2> QED BY <2>1
<1>3. \A c \in Classes : \A k \in DOMAIN handlers[c] : handlers[c][k].nth \in Nat
  BY <1>2 DEF Entry
<1>4. \A c \in Classes : \A k \in DOMAIN handlers'[c] : handlers'[c][k].nth <= inserted'
  BY <1>3 DEF FiltersInv, FiltersTypeOK
<1> QED BY <1>1, <1>4 DEF FiltersInv, FiltersTypeOK, Ordered

\* Every step of register() keeps it, whichever calls interleave.
LEMMA NextFilters == FiltersInv /\ FiltersNext => FiltersInv'
<1> SUFFICES ASSUME FiltersInv, FiltersNext PROVE FiltersInv'
  OBVIOUS
<1>1. PICK t \in Calls : Register(t) \/ FilterResolved(t) \/ FilterFails(t)
  BY DEF FiltersNext
<1>2. CASE UNCHANGED <<handlers, inserted>>
  BY <1>2, SameListsKeep DEF FiltersInv, FiltersTypeOK
<1>3. CASE FilterResolved(t)
  <2> DEFINE f == registering[t]  c == Filters[f].target
             e == [filter |-> f, priority |-> Filters[f].priority, nth |-> inserted + 1]
  <2>1. /\ f \in DOMAIN Filters /\ inserted' = inserted + 1
        /\ handlers' = [handlers EXCEPT ![c] = Sorted(handlers[c], e)]
    BY <1>3 DEF FilterResolved
  <2>2. e \in Entry /\ inserted \in Nat /\ e.nth = inserted + 1
    BY <2>1, FilterAssumption DEF Entry, FiltersInv, FiltersTypeOK
  <2>3. \A d \in Classes : handlers[d] \in Seq(Entry) /\ Ordered(handlers[d])
    BY DEF FiltersInv, FiltersTypeOK, Entry
  <2>4. \A d \in Classes : \A k \in DOMAIN handlers[d] : handlers[d][k].nth \in Nat
    <3>1. \A d \in Classes : \A k \in DOMAIN handlers[d] : handlers[d][k] \in Entry
      BY <2>3
    <3> QED BY <3>1 DEF Entry
  <2>5. \A d \in Classes : \A k \in DOMAIN handlers[d] : handlers[d][k].nth <= inserted
    BY DEF FiltersInv
  <2> HIDE DEF c, e, f
  <2>6. CASE c \in Classes
    <3>1. \A k \in DOMAIN handlers[c] : handlers[c][k].nth < e.nth
      BY <2>2, <2>4, <2>5, <2>6
    <3>2. /\ Sorted(handlers[c], e) \in Seq(Entry) /\ Ordered(Sorted(handlers[c], e))
          /\ \A k \in DOMAIN Sorted(handlers[c], e) :
               \/ Sorted(handlers[c], e)[k] = e
               \/ \E j \in DOMAIN handlers[c] : Sorted(handlers[c], e)[k] = handlers[c][j]
      BY <2>2, <2>3, <2>6, <3>1, SortedIsOrdered
    <3>3. \A k \in DOMAIN Sorted(handlers[c], e) : Sorted(handlers[c], e)[k].nth <= inserted + 1
      BY <2>2, <2>4, <2>5, <2>6, <3>2
    <3>4. handlers'[c] = Sorted(handlers[c], e) /\ \A d \in Classes \ {c} : handlers'[d] = handlers[d]
      BY <2>1, <2>6 DEF FiltersInv, FiltersTypeOK
    <3>5. \A d \in Classes \ {c} : \A k \in DOMAIN handlers[d] : handlers[d][k].nth <= inserted + 1
      BY <2>2, <2>4, <2>5
    <3>6. handlers' \in [Classes -> Seq(Entry)]
      BY <2>1, <2>6, <3>2 DEF FiltersInv, FiltersTypeOK, Entry
    <3>7. \A d \in Classes : Ordered(handlers'[d])
      BY <2>3, <3>2, <3>4
    <3>8. \A d \in Classes : \A k \in DOMAIN handlers'[d] : handlers'[d][k].nth <= inserted'
      BY <2>1, <3>3, <3>4, <3>5
    <3>9. inserted' \in Nat
      BY <2>1, <2>2
    <3> QED BY <3>6, <3>7, <3>8, <3>9 DEF FiltersInv, FiltersTypeOK, Entry, Ordered
  <2>7. CASE c \notin Classes
    <3>1. handlers' = handlers
      BY <2>1, <2>7 DEF FiltersInv, FiltersTypeOK
    <3> QED BY <2>1, <2>2, <3>1, SameListsKeep
  <2> QED BY <2>6, <2>7
<1> QED BY <1>1, <1>2, <1>3 DEF Register, FilterFails

\* Every step of the application keeps FiltersInv.
LEMMA NextKeepsFilters == FiltersInv /\ [Next]_vars => FiltersInv'
<1>1. FiltersInv /\ UNCHANGED filterVars => FiltersInv'
  BY SameListsKeep DEF filterVars, FiltersInv, FiltersTypeOK
<1> QED BY <1>1, NextFilters DEF Next, vars

\* However calls of ExceptionHandler.register() interleave and fail, and whatever is handled
\* meanwhile, the filters of a class are in descending priority, and those of one priority
\* in the order in which they were registered.
THEOREM FiltersStayOrdered == Spec => []FiltersOrdered
<1>1. Init => FiltersInv
  BY InitFilters DEF Init
<1>2. FiltersInv => FiltersOrdered
  BY DEF FiltersInv, FiltersOrdered, Ordered
<1> QED BY <1>1, <1>2, NextKeepsFilters, PTL DEF Spec

-----------------------------------------------------------------------------
(* The containers of request contexts are released.                        *)

\* Every step keeps the types.
LEMMA NextTyped == TypeOK /\ FiltersInv' /\ [Next]_vars => TypeOK'
<1> SUFFICES ASSUME TypeOK, FiltersInv', [Next]_vars PROVE TypeOK'
  OBVIOUS
<1>1. CASE UNCHANGED requestVars
  BY <1>1 DEF requestVars, TypeOK, FiltersInv
<1>2. CASE \E q \in DOMAIN Requests : Step(q) /\ UNCHANGED filterVars
  BY <1>2, StepTyped
<1> QED BY <1>1, <1>2 DEF Next, vars

\* The lists of ExceptionHandler, the places of the requests and the containers that hold
\* something keep their types.
THEOREM TypeCorrect == Spec => []TypeOK
<1>1. Init => FiltersInv
  BY InitFilters DEF Init
<1> QED BY <1>1, InitTyped, NextKeepsFilters, NextTyped, PTL DEF Spec

\* A request that ends releases its context; one that goes on holds it.
LEMMA StepReleases ==
  ASSUME TypeOK, ScopesReleased, NEW q \in DOMAIN Requests, Step(q)
  PROVE  ScopesReleased'
<1>1. DOMAIN at = DOMAIN Requests /\ DOMAIN at' = DOMAIN Requests
  BY DEF TypeOK, Step, Receive, ControllerResolved, Guard, GuardsDone, Validate, Returns,
     HandlerThrows, Settled, Goto, Throw, Respond
<1>2. \A p \in DOMAIN Requests \ {q} : at'[p] = at[p]
  BY <1>1 DEF Step, Receive, ControllerResolved, Guard, GuardsDone, Validate, Returns,
     HandlerThrows, Settled, Goto, Throw, Respond
<1>3. CASE Receive(q)
  <2>1. scopes' = scopes /\ at[q] = "new"
    BY <1>3 DEF Receive, Goto
  <2> QED BY <1>2, <2>1 DEF ScopesReleased
<1>4. CASE /\ at'[q] \notin {"new", "done"}
           /\ \A id : <<id, "root">> \in scopes' => <<id, "root">> \in scopes \/ id = Requests[q].id
  BY <1>2, <1>4 DEF ScopesReleased
<1>5. CASE scopes' = scopes \ {<<Requests[q].id, "root">>}
  BY <1>2, <1>5 DEF ScopesReleased
<1>6. CASE Returns(q) \/ HandlerThrows(q) \/ Settled(q)
  <2>1. CASE \E status : Respond(q, status)
    BY <1>5, <2>1 DEF Respond
  <2>2. CASE \E class : Throw(q, class)
    BY <1>1, <1>4, <2>2 DEF Throw
  <2> QED BY <1>6, <2>1, <2>2 DEF Returns, HandlerThrows, Settled
<1>7. CASE ControllerResolved(q) \/ Guard(q) \/ GuardsDone(q) \/ Validate(q)
  <2>1. at'[q] \notin {"new", "done"}
    BY <1>1, <1>7 DEF ControllerResolved, Guard, GuardsDone, Validate, Goto, Throw
  <2>2. scopes' \subseteq scopes \cup {<<Requests[q].id, "root">>, Holds(q)}
    BY <1>7 DEF ControllerResolved, Guard, GuardsDone, Validate, Goto, Throw
  <2> QED BY <1>4, <2>1, <2>2 DEF Holds
<1> QED BY <1>3, <1>6, <1>7 DEF Step

\* When no request of a context is being served, the root's container holds nothing for it,
\* also when several requests carry the same x-request-id.
THEOREM ScopesAreReleased == Spec => []ScopesReleased
<1>1. Init => ScopesReleased
  BY DEF Init, ScopesReleased
<1>2. ScopesReleased /\ UNCHANGED requestVars => ScopesReleased'
  BY DEF ScopesReleased, requestVars
<1>3. TypeOK /\ ScopesReleased /\ [Next]_vars => ScopesReleased'
  BY <1>2, StepReleases DEF Next, vars
<1> QED BY <1>1, <1>3, TypeCorrect, PTL DEF Spec

-----------------------------------------------------------------------------
(* A success is earned.                                                    *)

\* Hono runs the first of the routes that match.
LEMMA RouteMatches ==
  ASSUME NEW q \in DOMAIN Requests, Matched(q) # {}
  PROVE  /\ Route(q) \in Matched(q)
         /\ Route(q)[1] \in DOMAIN Controllers
         /\ Route(q)[2] \in DOMAIN Controllers[Route(q)[1]].routes
         /\ Mapping(Route(q)).method = Requests[q].method
<1>1. \A x \in Matched(q) :
        /\ x = <<x[1], x[2]>> /\ x[1] \in DOMAIN Controllers
        /\ x[2] \in DOMAIN Controllers[x[1]].routes /\ Mapping(x).method = Requests[q].method
  BY DEF Matched, Routes
<1>2. ASSUME NEW x \in Matched(q)
      PROVE  x[1] \in Nat /\ x[2] \in Nat
  <2>1. Controllers \in Seq(Range(Controllers)) /\ x[1] \in DOMAIN Controllers
    BY <1>1, RequestAssumption
  <2>2. /\ Controllers[x[1]].routes \in Seq(Range(Controllers[x[1]].routes))
        /\ x[2] \in DOMAIN Controllers[x[1]].routes
    BY <1>1, RequestAssumption
  <2> QED BY <2>1, <2>2
<1> DEFINE cs == {x[1] : x \in Matched(q)}
<1>3. PICK c \in cs : \A k \in cs : c <= k
  <2>1. cs \subseteq Nat /\ cs # {}
    BY <1>2
  <2> QED BY <2>1, HasMinimum
<1> DEFINE rs == {x[2] : x \in {y \in Matched(q) : y[1] = c}}
<1>4. PICK r \in rs : \A k \in rs : r <= k
  <2>1. rs \subseteq Nat /\ rs # {}
    BY <1>2, <1>3
  <2> QED BY <2>1, HasMinimum
<1>5. PICK x \in Matched(q) : x[1] = c /\ x[2] = r
  BY <1>4
<1>6. \A y \in Matched(q) \ {x} : Before(x, y)
  <2> SUFFICES ASSUME NEW y \in Matched(q), y # x PROVE Before(x, y)
    OBVIOUS
  <2>1. c <= y[1] /\ (y[1] = c => r <= y[2])
    BY <1>3, <1>4
  <2>2. y[1] # c \/ y[2] # r
    BY <1>1, <1>5
  <2> QED BY <1>2, <1>5, <2>1, <2>2 DEF Before
<1>7. Route(q) \in Matched(q)
  BY <1>5, <1>6 DEF Route
<1> QED BY <1>1, <1>7

\* The guards declared for a route are a list.
LEMMA GuardsAreListed ==
  ASSUME NEW c \in DOMAIN Controllers, NEW r \in DOMAIN Controllers[c].routes,
         NEW x, x[1] = c, x[2] = r
  PROVE  GuardsOf(x) \in Seq(Range(GuardsOf(x)))
<1> DEFINE a == GlobalGuards  b == Controllers[c].guards  d == Controllers[c].routes[r].guards
<1>1. a \in Seq(Range(a)) /\ b \in Seq(Range(b)) /\ d \in Seq(Range(d))
  BY RequestAssumption
<1>2. \A s, S, T : s \in Seq(S) /\ S \subseteq T => s \in Seq(T)
  OBVIOUS
<1> DEFINE all == Range(a) \cup Range(b) \cup Range(d)
<1>3. a \in Seq(all) /\ b \in Seq(all) /\ d \in Seq(all)
  BY <1>1, <1>2
<1>4. GuardsOf(x) = a \o b \o d
  BY DEF GuardsOf, Mapping
<1> HIDE DEF a, b, d, all
<1>5. GuardsOf(x) \in Seq(all)
  BY <1>3, <1>4
<1>6. DOMAIN GuardsOf(x) = 1..Len(GuardsOf(x)) /\ Len(GuardsOf(x)) \in Nat
      /\ GuardsOf(x) = [i \in 1..Len(GuardsOf(x)) |-> GuardsOf(x)[i]]
  BY <1>5
<1>7. \A i \in 1..Len(GuardsOf(x)) : GuardsOf(x)[i] \in Range(GuardsOf(x))
  BY <1>6 DEF Range
<1> QED BY <1>6, <1>7

\* The answer of a request, if it is a success, is earned.
Earned(q) ==
  answer[q] \in 200..299 =>
    \/ error[q] \in Classes /\ Status[error[q]] \in 200..299
    \/ /\ error[q] = "none"
       /\ \E c \in DOMAIN Controllers : \E r \in DOMAIN Controllers[c].routes :
            /\ Requests[q].method = Controllers[c].routes[r].method
            /\ LET declared == GlobalGuards \o Controllers[c].guards
                                 \o Controllers[c].routes[r].guards IN
               /\ IsInjective(passed[q])
               /\ Range(passed[q]) = Range(declared)

\* Where a request is says what has been decided about it.
EarnedBy(q) ==
  /\ at[q] # "done" => answer[q] = 0
  /\ at[q] \in {"new", "controller"} => passed[q] = <<>>
  /\ at[q] \notin {"new", "done"} => Matched(q) # {}
  /\ at[q] \in {"new", "controller", "guards", "body", "handler"} => error[q] = "none"
  /\ at[q] \in {"guards", "body", "handler"} =>
       passed[q] \in Seq(Range(GuardsOf(Route(q)))) /\ IsInjective(passed[q])
  /\ at[q] \in {"body", "handler"} => Unasked(q) = {}

\* Strengthening SuccessIsEarned to an inductive invariant.
EarnedInv ==
  /\ \A q \in DOMAIN Requests : Earned(q)
  /\ DOMAIN at = DOMAIN Requests /\ DOMAIN passed = DOMAIN Requests
  /\ DOMAIN error = DOMAIN Requests /\ DOMAIN answer = DOMAIN Requests
  /\ \A q \in DOMAIN Requests : EarnedBy(q)

\* The initial state satisfies it.
LEMMA InitEarned == Init => EarnedInv
BY DEF Init, EarnedInv, EarnedBy, Earned

\* A guard is asked that has not been asked yet, and one that is declared.
LEMMA GuardKeeps ==
  ASSUME EarnedInv, NEW q \in DOMAIN Requests, at[q] = "guards", Unasked(q) # {},
         passed' = [passed EXCEPT ![q] = Append(@, GuardsOf(Route(q))[Min(Unasked(q))])]
  PROVE  passed'[q] \in Seq(Range(GuardsOf(Route(q)))) /\ IsInjective(passed'[q])
<1> DEFINE declared == GuardsOf(Route(q))
<1>1. Matched(q) # {} /\ passed[q] \in Seq(Range(declared)) /\ IsInjective(passed[q])
  BY DEF EarnedInv, EarnedBy
<1>2. declared \in Seq(Range(declared))
  BY <1>1, RouteMatches, GuardsAreListed
<1>3. Unasked(q) \subseteq Nat
  BY <1>2 DEF Unasked
<1>4. PICK i : i = Min(Unasked(q)) /\ i \in Unasked(q)
  <2>1. \E m \in Unasked(q) : \A k \in Unasked(q) : m <= k
    BY <1>3, HasMinimum
  <2> QED BY <2>1 DEF Min
<1>5. PICK g : g = declared[i] /\ g \in Range(declared) /\ g \notin Range(passed[q])
  BY <1>4 DEF Unasked, Range
<1>6. passed'[q] = Append(passed[q], g)
  BY <1>4, <1>5 DEF EarnedInv
<1> HIDE DEF declared
<1>7. \A k \in DOMAIN passed[q] : passed[q][k] # g
  BY <1>5 DEF Range
<1>8. passed'[q] \in Seq(Range(declared))
  BY <1>1, <1>5, <1>6
<1>9. \A k \in DOMAIN passed'[q] :
        \/ k \in DOMAIN passed[q] /\ passed'[q][k] = passed[q][k]
        \/ k = Len(passed[q]) + 1 /\ passed'[q][k] = g
  BY <1>1, <1>6
<1>10. IsInjective(passed'[q])
  BY <1>1, <1>7, <1>9 DEF IsInjective
<1> QED BY <1>8, <1>10 DEF declared

\* When every declared guard has been asked, those that let the request through are all.
LEMMA AskedAreDeclared ==
  ASSUME EarnedInv, NEW q \in DOMAIN Requests, at[q] = "handler"
  PROVE  \E c \in DOMAIN Controllers : \E r \in DOMAIN Controllers[c].routes :
           /\ Requests[q].method = Controllers[c].routes[r].method
           /\ IsInjective(passed[q])
           /\ Range(passed[q]) = Range(GlobalGuards \o Controllers[c].guards
                                         \o Controllers[c].routes[r].guards)
<1>1. /\ Matched(q) # {} /\ passed[q] \in Seq(Range(GuardsOf(Route(q))))
      /\ IsInjective(passed[q]) /\ Unasked(q) = {}
  BY DEF EarnedInv, EarnedBy
<1>2. Range(passed[q]) \subseteq Range(GuardsOf(Route(q)))
  BY <1>1 DEF Range
<1>3. Range(GuardsOf(Route(q))) \subseteq Range(passed[q])
  BY <1>1 DEF Unasked, Range
<1>4. PICK c \in DOMAIN Controllers : c = Route(q)[1]
  BY <1>1, RouteMatches
<1>5. PICK r \in DOMAIN Controllers[c].routes :
        r = Route(q)[2] /\ Mapping(Route(q)).method = Requests[q].method
  BY <1>1, <1>4, RouteMatches
<1>6. Requests[q].method = Controllers[c].routes[r].method
  BY <1>4, <1>5 DEF Mapping
<1>7. GuardsOf(Route(q)) = GlobalGuards \o Controllers[c].guards \o Controllers[c].routes[r].guards
  BY <1>4, <1>5 DEF GuardsOf, Mapping
<1>8. Range(passed[q]) = Range(GuardsOf(Route(q)))
  BY <1>2, <1>3
<1> QED BY <1>1, <1>6, <1>7, <1>8

\* A step of one request leaves the others alone.
LEMMA OthersKeep ==
  ASSUME EarnedInv, NEW q \in DOMAIN Requests, Step(q)
  PROVE  /\ DOMAIN at' = DOMAIN Requests /\ DOMAIN passed' = DOMAIN Requests
         /\ DOMAIN error' = DOMAIN Requests /\ DOMAIN answer' = DOMAIN Requests
         /\ \A p \in DOMAIN Requests \ {q} : /\ at'[p] = at[p] /\ passed'[p] = passed[p]
                                             /\ error'[p] = error[p] /\ answer'[p] = answer[p]
<1>1. \/ UNCHANGED at
      \/ \E place : at' = [at EXCEPT ![q] = place]
  BY DEF Step, Receive, ControllerResolved, Guard, GuardsDone, Validate, Returns,
     HandlerThrows, Settled, Goto, Throw, Respond
<1>2. \/ UNCHANGED passed
      \/ \E guards : passed' = [passed EXCEPT ![q] = guards]
  BY DEF Step, Receive, ControllerResolved, Guard, GuardsDone, Validate, Returns,
     HandlerThrows, Settled
<1>3. \/ UNCHANGED error
      \/ \E class : error' = [error EXCEPT ![q] = class]
  BY DEF Step, Receive, ControllerResolved, Guard, GuardsDone, Validate, Returns,
     HandlerThrows, Settled, Goto, Throw
<1>4. \/ UNCHANGED answer
      \/ \E status : answer' = [answer EXCEPT ![q] = status]
  BY DEF Step, Receive, ControllerResolved, Guard, GuardsDone, Validate, Returns,
     HandlerThrows, Settled, Goto, Throw, Respond
<1> QED BY <1>1, <1>2, <1>3, <1>4 DEF EarnedInv

\* A step of a request keeps what it says of that request.
LEMMA StepEarns ==
  ASSUME EarnedInv, NEW q \in DOMAIN Requests, Step(q)
  PROVE  Earned(q)' /\ EarnedBy(q)'
<1>1. /\ DOMAIN at = DOMAIN Requests /\ DOMAIN passed = DOMAIN Requests
      /\ DOMAIN error = DOMAIN Requests /\ DOMAIN answer = DOMAIN Requests
      /\ Earned(q) /\ EarnedBy(q)
  BY DEF EarnedInv
<1>2. UNCHANGED passed => Unasked(q)' = Unasked(q)
  BY DEF Unasked
<1>3. ASSUME NEW class, Throw(q, class), at[q] \notin {"new", "done"}, UNCHANGED passed
      PROVE  Earned(q)' /\ EarnedBy(q)'
  <2>1. at'[q] = "filters" /\ answer'[q] = 0 /\ Matched(q) # {}
    BY <1>1, <1>3 DEF Throw, EarnedBy
  <2> QED BY <2>1 DEF Earned, EarnedBy, Matched
<1>4. CASE Receive(q)
  <2>1. UNCHANGED <<passed, error>> /\ passed[q] = <<>> /\ error[q] = "none" /\ answer[q] = 0
    BY <1>1, <1>4 DEF Receive, Goto, EarnedBy
  <2>2. CASE Matched(q) = {}
    <3>1. at'[q] = "done" /\ answer'[q] = 404
      BY <1>1, <1>4, <2>2 DEF Receive
    <3> QED BY <2>1, <3>1 DEF Earned, EarnedBy
  <2>3. CASE Matched(q) # {}
    <3>1. at'[q] = "controller" /\ answer'[q] = 0
      BY <1>1, <1>4, <2>1, <2>3 DEF Receive, Goto
    <3>2. passed'[q] = <<>> /\ error'[q] = "none"
      BY <2>1
    <3>3. Earned(q)'
      BY <3>1 DEF Earned
    <3>4. EarnedBy(q)'
      BY <2>3, <3>1, <3>2 DEF EarnedBy
    <3> QED BY <3>3, <3>4
  <2> QED BY <2>2, <2>3
<1>5. CASE ControllerResolved(q)
  <2>1. CASE Throw(q, "Domain")
    BY <1>3, <1>5, <2>1 DEF ControllerResolved
  <2>2. CASE ~Throw(q, "Domain")
    <3>1. at'[q] = "guards" /\ UNCHANGED <<passed, error, answer>> /\ passed[q] = <<>>
      BY <1>1, <1>5, <2>2 DEF ControllerResolved, EarnedBy
    <3>2. passed'[q] \in Seq(Range(GuardsOf(Route(q)))) /\ IsInjective(passed'[q])
      BY <3>1 DEF IsInjective
    <3> QED BY <1>1, <1>5, <3>1, <3>2 DEF ControllerResolved, Earned, EarnedBy
  <2> QED BY <2>1, <2>2
<1>6. CASE Guard(q)
  <2>1. CASE Throw(q, "Forbidden") \/ Throw(q, "Domain")
    <3>1. at[q] = "guards" /\ at'[q] = "filters"
      BY <1>1, <1>6, <2>1 DEF Guard, Throw
    <3>2. UNCHANGED passed
      BY <1>6, <3>1 DEF Guard
    <3> QED BY <1>3, <2>1, <3>1, <3>2
  <2>2. CASE UNCHANGED <<at, error, called, answer>>
    <3>1. passed' = [passed EXCEPT ![q] = Append(@, GuardsOf(Route(q))[Min(Unasked(q))])]
      BY <1>1, <1>6, <2>2 DEF Guard, Throw
    <3>2. passed'[q] \in Seq(Range(GuardsOf(Route(q)))) /\ IsInjective(passed'[q])
      BY <1>6, <3>1, GuardKeeps DEF Guard
    <3> QED BY <1>1, <1>6, <2>2, <3>2 DEF Guard, Earned, EarnedBy
  <2> QED BY <1>6, <2>1, <2>2 DEF Guard
<1>7. CASE GuardsDone(q)
  BY <1>1, <1>2, <1>7 DEF GuardsDone, Goto, Earned, EarnedBy
<1>8. CASE Validate(q)
  <2>1. CASE Goto(q, "handler")
    BY <1>1, <1>2, <1>8, <2>1 DEF Validate, Goto, Earned, EarnedBy
  <2> QED BY <1>3, <1>8, <2>1 DEF Validate
<1>9. CASE Returns(q)
  <2>1. CASE Throw(q, "Unprocessable")
    BY <1>3, <1>9, <2>1 DEF Returns
  <2>2. CASE \E status \in {200, 204} : Respond(q, status) /\ UNCHANGED error
    <3>1. at'[q] = "done" /\ UNCHANGED <<passed, error>> /\ error[q] = "none"
      BY <1>1, <1>9, <2>2 DEF Returns, Respond, EarnedBy
    <3>2. Earned(q)'
      BY <1>9, <3>1, AskedAreDeclared DEF Returns, Earned
    <3>3. EarnedBy(q)'
      BY <3>1 DEF EarnedBy
    <3> QED BY <3>2, <3>3
  <2> QED BY <1>9, <2>1, <2>2 DEF Returns
<1>10. CASE HandlerThrows(q)
  BY <1>3, <1>10 DEF HandlerThrows
<1>11. CASE Settled(q)
  <2>1. PICK result : Respond(q, StatusOf(error[q], result)) /\ UNCHANGED <<error, passed>>
    BY <1>11 DEF Settled
  <2>2. at'[q] = "done" /\ answer'[q] = StatusOf(error[q], result)
    BY <1>1, <2>1 DEF Respond
  <2>3. StatusOf(error[q], result) \in 200..299 =>
          error[q] \in Classes /\ Status[error[q]] \in 200..299
    BY DEF StatusOf
  <2> QED BY <2>1, <2>2, <2>3 DEF Earned, EarnedBy
<1> QED BY <1>4, <1>5, <1>6, <1>7, <1>8, <1>9, <1>10, <1>11 DEF Step

\* Every step keeps it.
LEMMA NextEarned == EarnedInv /\ [Next]_vars => EarnedInv'
<1> SUFFICES ASSUME EarnedInv, [Next]_vars PROVE EarnedInv'
  OBVIOUS
<1>1. CASE UNCHANGED requestVars
  BY <1>1 DEF requestVars, EarnedInv, EarnedBy, Earned, Unasked
<1>2. ASSUME NEW q \in DOMAIN Requests, Step(q) PROVE EarnedInv'
  <2>1. ASSUME NEW p \in DOMAIN Requests \ {q}
        PROVE  Earned(p)' /\ EarnedBy(p)'
    <3>1. at'[p] = at[p] /\ passed'[p] = passed[p] /\ error'[p] = error[p] /\ answer'[p] = answer[p]
      BY <1>2, OthersKeep
    <3>2. Unasked(p)' = Unasked(p)
      BY <3>1 DEF Unasked
    <3>3. Earned(p) /\ EarnedBy(p)
      BY DEF EarnedInv
    <3> QED BY <3>1, <3>2, <3>3 DEF Earned, EarnedBy
  <2> QED BY <1>2, <2>1, OthersKeep, StepEarns DEF EarnedInv
<1> QED BY <1>1, <1>2 DEF Next, vars

\* For any controllers, guards and requests, whatever is thrown and however requests
\* interleave: a success was given by a handler behind all of its guards, each asked once,
\* unless an exception class has a status of success itself.
THEOREM SuccessEarned == Spec => []SuccessIsEarned
<1>1. EarnedInv => SuccessIsEarned
  BY DEF EarnedInv, Earned, SuccessIsEarned
<1> QED BY <1>1, InitEarned, NextEarned, PTL DEF Spec

-----------------------------------------------------------------------------
(* Pipes.                                                                  *)

Texts == {Str(t) : t \in DOMAIN Text}

LEMMA TextFields ==
  ASSUME NEW given \in Texts
  PROVE  /\ given.type = "string" /\ given.is \in DOMAIN Text
         /\ given # Undefined /\ ~Nil(given) /\ given # Refused
<1>1. PICK t \in DOMAIN Text : given = Str(t)
  BY DEF Texts
<1>2. given.type = "string" /\ given.is = t
  BY <1>1 DEF Str
<1>3. Undefined.type = "undefined" /\ Refused.type = "error"
  BY DEF Undefined, Refused
<1>. QED  BY <1>2, <1>3 DEF Nil

\* A pipe made required, and one of another kind or version, is the same pipe otherwise.
LEMMA PipeFields ==
  ASSUME NEW p \in PipeSet
  PROVE  /\ p.kind \in {"int", "float", "bool", "date", "enum", "uuid"}
         /\ p.optional \in BOOLEAN
         /\ p.default # <<>> => p.kind = "date" /\ p.default[1].type = "date"
         /\ \A e \in p.enum \cup p.names : e.type \in {"string", "number"}
         /\ LET r == [p EXCEPT !.optional = FALSE] IN
            r.kind = p.kind /\ r.optional = FALSE /\ r.enum = p.enum /\ r.names = p.names
               /\ r.version = p.version
         /\ LET f == [p EXCEPT !.kind = "float"] IN
            f.kind = "float" /\ f.optional = p.optional /\ f.default = p.default
         /\ LET u == [p EXCEPT !.version = 0] IN
            u.kind = p.kind /\ u.optional = p.optional /\ u.default = p.default /\ u.version = 0
<1>. DEFINE Values == [type : {"date"}, is : STRING]
<1>1. /\ p \in [kind : {"int", "float", "bool", "date", "enum", "uuid"}, optional : BOOLEAN,
                default : Seq(Values), version : Nat,
                enum : SUBSET [type : {"string", "number"}, is : STRING],
                names : SUBSET [type : {"string"}, is : STRING]]
      /\ p.default # <<>> => p.kind = "date"
  BY PipeAssumption DEF PipeAssumption
<1>2. p.default # <<>> => p.default[1] \in Values
  <2>. SUFFICES ASSUME p.default # <<>> PROVE p.default[1] \in Values
    OBVIOUS
  <2>. HIDE DEF Values
  <2>1. p.default \in Seq(Values)
    BY <1>1
  <2>. QED  BY <2>1
<1>. HIDE DEF Values
<1>3. p.default # <<>> => p.default[1].type = "date"
  BY <1>2 DEF Values
<1>. QED  BY <1>1, <1>3

\* The same argument through a required pipe.
LEMMA RequiredParses ==
  ASSUME NEW p \in PipeSet, NEW given
  PROVE  Transform([p EXCEPT !.optional = FALSE], given) = Parse(p, given)
BY PipeFields DEF Transform, Parse, EnumOf, UuidOf

\* A required pipe refuses an argument that is missing.
LEMMA MissingIsRefused ==
  ASSUME NEW p \in PipeSet
  PROVE  Parse(p, Undefined) = Refused
<1>1. Undefined.type = "undefined" /\ Nil(Undefined) /\ Undefined.is = ""
  BY DEF Undefined, Nil
<1>2. Undefined \notin p.enum \cup p.names
  BY <1>1, PipeFields
<1>. QED  BY <1>1, <1>2, PipeFields
       DEF Parse, IntOf, FloatOf, BoolOf, DateOf, EnumOf, NumberOf, UuidOf

\* A date is a date, and a value of an enum's object one of its values.
LEMMA ParsedIsKept ==
  ASSUME NEW p, NEW v,
         \/ p.kind = "date" /\ v.type = "date"
         \/ p.kind = "enum" /\ v \in p.enum \cup p.names
  PROVE  Parse(p, v) = v
<1>1. CASE p.kind = "date" /\ v.type = "date"
  <2>1. Str("").type = "string" /\ Num("0").type = "number" /\ Num("NaN").type = "number"
    BY DEF Str, Num
  <2>2. v \notin {Str(""), Num("0"), Num("NaN")} /\ ~Nil(v)
    BY <1>1, <2>1 DEF Nil
  <2>3. DateOf(v) = v
    BY <1>1, <2>2 DEF DateOf
  <2>. QED  BY <1>1, <2>3 DEF Parse
<1>2. CASE p.kind = "enum" /\ v \in p.enum \cup p.names
  <2>1. EnumOf(p, v) = v
    BY <1>2 DEF EnumOf
  <2>. QED  BY <1>2, <2>1 DEF Parse
<1>. QED  BY <1>1, <1>2

\* What an enum's pipe gives for a text.
EnumValued(p, given, v) ==
  /\ v \in p.enum \/ given \in p.names
  /\ v = given \/ v = Num(Text[given.is].number)

\* What parsing a text ends in, pipe by pipe: refused, or a value that has the type of
\* the pipe and that the pipe leaves as it is.
LEMMA ParseIsSound ==
  ASSUME NEW p \in PipeSet, NEW given \in Texts, Parse(p, given) # Refused
  PROVE  LET v == Parse(p, given) IN
         /\ ~Nil(v) /\ Parse(p, v) = v
         /\ p.kind = "int" => /\ v.type = "number" /\ Finite(v.is) /\ Text[given.is].integer
                              /\ FloatOf(given) = v
         /\ p.kind = "float" => v.type = "number" /\ Finite(v.is)
         /\ p.kind = "bool" => v.type = "boolean"
         /\ p.kind = "date" => v.type = "date"
         /\ p.kind = "enum" => EnumValued(p, given, v)
         /\ p.kind = "uuid" => v = given /\ Text[given.is].uuid # {}
<1>. DEFINE v == Parse(p, given)
<1>0. /\ given.type = "string" /\ given.is \in DOMAIN Text /\ ~Nil(given)
      /\ Text[given.is].integer \in BOOLEAN
  BY TextFields, TextAssumption DEF TextAssumption
<1>1. CASE p.kind = "float"
  <2>1. v = Num(Text[given.is].float) /\ Finite(Text[given.is].float)
    BY <1>0, <1>1 DEF Parse, FloatOf, FiniteOr
  <2>. QED  BY <1>1, <2>1 DEF Parse, FloatOf, FiniteOr, Num, Nil
<1>2. CASE p.kind = "int"
  <2>1. /\ v = Num(Text[given.is].float) /\ Finite(Text[given.is].float)
        /\ Text[given.is].integer /\ v = FloatOf(given)
    BY <1>0, <1>2 DEF Parse, IntOf, FloatOf, FiniteOr
  <2>. QED  BY <1>2, <2>1 DEF Parse, IntOf, FloatOf, FiniteOr, Num, Nil
<1>3. CASE p.kind = "bool"
  BY <1>3 DEF Parse, BoolOf, Bool, Nil, Refused
<1>4. CASE p.kind = "date"
  <2>1. v = Date(given.is)
    BY <1>0, <1>4 DEF Parse, DateOf
  <2>2. v.type = "date"
    BY <2>1 DEF Date
  <2>. HIDE DEF v
  <2>3. Parse(p, v) = v
    BY <1>4, <2>2, ParsedIsKept
  <2>4. ~Nil(v)
    BY <2>2 DEF Nil
  <2>. QED  BY <1>4, <2>2, <2>3, <2>4 DEF v
<1>5. CASE p.kind = "enum"
  <2>1. v \in p.enum \cup p.names
    BY <1>5 DEF Parse, EnumOf
  <2>4. EnumValued(p, given, v)
    <3>1. NumberOf(given) = Text[given.is].number
      BY <1>0 DEF NumberOf
    <3>. QED  BY <1>5, <3>1 DEF Parse, EnumOf, EnumValued
  <2>2. ~Nil(v)
    BY <2>1, PipeFields DEF Nil
  <2>3. Parse(p, v) = v
    BY <1>5, <2>1, ParsedIsKept
  <2>. HIDE DEF v
  <2>. QED  BY <1>5, <2>2, <2>3, <2>4 DEF v
<1>6. CASE p.kind = "uuid"
  <2>1. v = given /\ Text[given.is].uuid # {}
    BY <1>0, <1>6 DEF Parse, UuidOf
  <2>. QED  BY <1>0, <1>6, <2>1 DEF Parse, UuidOf
<1>. QED  BY <1>1, <1>2, <1>3, <1>4, <1>5, <1>6, PipeFields

\* transform(), whatever the pipe, for a text or a missing argument.
LEMMA TransformIsSound ==
  ASSUME NEW p \in PipeSet, NEW given \in Texts \cup {Undefined}
  PROVE  Sound(p, given, Transform(p, given))
<1>. DEFINE v == Transform(p, given)
<1>0. Transform([p EXCEPT !.optional = FALSE], given) = Parse(p, given)
  BY RequiredParses
<1>1. CASE given = Undefined
  <2>0. Nil(given) /\ Parse(p, given) = Refused
    BY <1>1, MissingIsRefused DEF Nil, Undefined
  <2>1. CASE p.optional
    <3>1. CASE p.default = <<>>
      <4>1. v = given /\ Transform(p, v) = v
        BY <2>0, <2>1, <3>1 DEF Transform
      <4>. QED  BY <1>1, <2>1, <4>1, <1>0, <2>0 DEF Sound
    <3>2. CASE p.default # <<>>
      <4>1. v = p.default[1] /\ v.type = "date" /\ p.kind = "date"
        BY <2>0, <2>1, <3>2, PipeFields DEF Transform
      <4>2. v # Refused
        BY <4>1 DEF Refused
      <4>. HIDE DEF v
      <4>3. Parse(p, v) = v /\ ~Nil(v)
        BY <4>1, ParsedIsKept DEF Nil
      <4>4. Transform(p, v) = v
        BY <4>3 DEF Transform
      <4>. QED  BY <1>1, <2>1, <4>2, <4>4 DEF Sound, v
    <3>. QED  BY <3>1, <3>2
  <2>2. CASE ~p.optional
    BY <1>0, <2>0, <2>2 DEF Transform, Sound
  <2>. QED  BY <2>1, <2>2
<1>2. CASE given \in Texts
  <2>1. v = Parse(p, given) /\ given # Undefined
    BY <1>2, TextFields DEF Transform
  <2>2. CASE v = Refused
    BY <1>0, <2>1, <2>2 DEF Sound
  <2>3. CASE v # Refused
    <3>1. /\ ~Nil(v) /\ Parse(p, v) = v
          /\ p.kind = "int" => /\ v.type = "number" /\ Finite(v.is) /\ Text[given.is].integer
                               /\ FloatOf(given) = v
          /\ p.kind = "float" => v.type = "number" /\ Finite(v.is)
          /\ p.kind = "bool" => v.type = "boolean"
          /\ p.kind = "date" => v.type = "date"
          /\ p.kind = "enum" => EnumValued(p, given, v)
          /\ p.kind = "uuid" => v = given /\ Text[given.is].uuid # {}
      BY <1>2, <2>1, <2>3, ParseIsSound
    <3>2. Transform(p, v) = v
      BY <3>1 DEF Transform
    <3>3. p.kind = "int" => Transform([p EXCEPT !.kind = "float"], given) = v
      BY <1>2, <3>1, PipeFields, TextFields DEF Transform, Parse
    <3>4. p.kind = "uuid" => Transform([p EXCEPT !.version = 0], given) = v
      BY <1>2, <3>1, PipeFields, TextFields DEF Transform, Parse, UuidOf
    <3>. HIDE DEF v
    <3>5. Sound(p, given, v)
      BY <1>0, <2>1, <2>3, <3>1, <3>2, <3>3, <3>4 DEF Sound, EnumValued, v
    <3>. QED  BY <3>5 DEF v
  <2>. QED  BY <2>2, <2>3
<1>. QED  BY <1>1, <1>2

PipesInv ==
  /\ pipe \in PipeSet /\ query \in Queries
  /\ outcome \in {<<>>, <<One(pipe, query)>>, All(pipe, query)}

LEMMA PipesInvSound == PipesInv => PipesAreSound
<1>. SUFFICES ASSUME PipesInv, NEW i \in DOMAIN outcome
              PROVE  Sound(pipe, IF query = <<>> THEN Undefined ELSE Str(query[i]), outcome[i])
  BY DEF PipesAreSound
<1>0. pipe \in PipeSet /\ query \in Seq(DOMAIN Text)
  BY TextAssumption DEF PipesInv, TextAssumption
<1>1. \A j \in DOMAIN query : Str(query[j]) \in Texts
  BY <1>0 DEF Texts
<1>2. CASE outcome = <<>>
  BY <1>2
<1>3. CASE outcome = <<One(pipe, query)>>
  <2>1. i = 1 /\ outcome[i] = One(pipe, query)
    BY <1>3
  <2>2. query # <<>> => 1 \in DOMAIN query
    BY <1>0
  <2>. QED  BY <1>0, <1>1, <2>1, <2>2, TransformIsSound DEF One
<1>4. CASE outcome = All(pipe, query)
  <2>1. i \in DOMAIN query /\ outcome[i] = Transform(pipe, Str(query[i]))
    BY <1>4 DEF All
  <2>2. query # <<>>
    BY <2>1
  <2>. QED  BY <1>0, <1>1, <2>1, <2>2, TransformIsSound
<1>. QED  BY <1>2, <1>3, <1>4 DEF PipesInv

\* Whatever its options and whatever the text, a pipe lets nothing through that has not
\* its type, but for the names of the members of an enum of numbers, that it would refuse
\* or change when given it again, or that is missing.
THEOREM PipesSound == PipesSpec => []PipesAreSound
<1>1. PipesInit => PipesInv
  BY DEF PipesInit, PipesInv
<1>2. PipesInv /\ [Ask]_pipeVars => PipesInv'
  BY DEF PipesInv, Ask, pipeVars
<1>. QED  BY <1>1, <1>2, PipesInvSound, PTL DEF PipesSpec
=============================================================================
