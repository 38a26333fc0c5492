-------------------------- MODULE ContainerProofs --------------------------
(***************************************************************************)
(* Theorems about Container, for every provider graph, every set of        *)
(* clients and every number of calls.                                      *)
(***************************************************************************)
EXTENDS Container, TLAPS

\* A dependency of a live call is a token.
LEMMA DepType ==
  ASSUME NEW t \in Tokens, NEW i \in 1..Len(Deps[t])
  PROVE  Deps[t][i] \in Tokens
BY GraphAssumption DEF GraphAssumption

LEMMA LenType == ASSUME NEW t \in Tokens PROVE Len(Deps[t]) \in Nat
BY GraphAssumption DEF GraphAssumption

\* The answer to the i-th field of t is one that injectDependencies() passes over.
Skipped(t, i, res) == res.kind = "notfound" /\ Skippable(t, i)

\* What an answer changes in the call f that receives it and becomes g.
Received(g, f, slot, res) ==
  /\ g \in CallType
  /\ g.live = f.live /\ g.token = f.token /\ g.caller = f.caller /\ g.slot = f.slot
  /\ g.client = f.client /\ g.next = f.next /\ g.ctx = f.ctx
  /\ g.waiting = f.waiting \ {slot}
  /\ g.val = IF res.kind = "value" THEN res.inst ELSE None
  /\ g.failed = "no" =>
       /\ f.failed = "no"
       /\ res.kind = "value" \/ Skipped(f.token, slot, res)
  /\ g.failed = "notfound" =>
       \/ f.failed = "notfound"
       \/ res.kind = "notfound" /\ ~Skippable(f.token, slot)

LEMMA ReceiveFields ==
  ASSUME NEW f \in CallType, NEW slot \in Nat, NEW res \in ResultType
  PROVE  Received(Receive(f, slot, res), f, slot, res)
<1>. DEFINE v == IF res.kind = "value" THEN res.inst ELSE None
            x == IF \/ f.failed # "no" \/ res.kind = "value"
                    \/ res.kind = "notfound" /\ Skippable(f.token, slot)
                 THEN f.failed ELSE res.kind
            w == f.waiting \ {slot}
<1>1. res.kind \in ResultKinds /\ res.inst \in Instance \cup {None}
  BY DEF ResultType
<1>2. w \in SUBSET Nat
  BY DEF CallType
<1>3. v \in Instance \cup {None}
  BY <1>1 DEF CallType
<1>4. x \in Failures \cup {"no"}
  BY <1>1 DEF CallType, ResultKinds
<1>5. /\ x = "no" => f.failed = "no" /\ (res.kind = "value" \/ Skipped(f.token, slot, res))
      /\ x = "notfound" => \/ f.failed = "notfound"
                           \/ res.kind = "notfound" /\ ~Skippable(f.token, slot)
  BY <1>1 DEF ResultKinds, Failures, Skipped
<1>. DEFINE f1 == [f EXCEPT !.waiting = w]
            f2 == [f1 EXCEPT !.val = v]
            f3 == [f2 EXCEPT !.failed = x]
<1>6. Receive(f, slot, res) = f3
  BY DEF Receive, CallType
<1>. HIDE DEF w, v, x
<1>7. /\ f1 \in CallType /\ f1.waiting = w /\ f1.failed = f.failed /\ f1.next = f.next
      /\ f1.live = f.live /\ f1.token = f.token /\ f1.caller = f.caller
      /\ f1.slot = f.slot /\ f1.client = f.client /\ f1.ctx = f.ctx
  BY <1>2 DEF CallType
<1>. HIDE DEF f1
<1>8. /\ f2 \in CallType /\ f2.waiting = w /\ f2.val = v /\ f2.next = f.next
      /\ f2.live = f.live /\ f2.token = f.token /\ f2.caller = f.caller
      /\ f2.slot = f.slot /\ f2.client = f.client /\ f2.ctx = f.ctx
  BY <1>3, <1>7 DEF CallType
<1>. HIDE DEF f2
<1>9. /\ f3 \in CallType /\ f3.waiting = w /\ f3.val = v /\ f3.failed = x /\ f3.next = f.next
      /\ f3.live = f.live /\ f3.token = f.token /\ f3.caller = f.caller
      /\ f3.slot = f.slot /\ f3.client = f.client /\ f3.ctx = f.ctx
  BY <1>4, <1>8 DEF CallType
<1>. HIDE DEF f3
<1>. QED  BY <1>5, <1>6, <1>9 DEF Received, w, v

\* What resolve() answers at once is a result.
LEMMA AnswerType ==
  ASSUME TypeOK, NEW t \in Tokens, NEW k \in Clients, NEW id \in ContextIds \cup {NoContext},
         Answered(t, k, id)
  PROVE  /\ Answer(t, k, id) \in ResultType
         /\ Answer(t, k, id).kind = "value" => Answer(t, k, id).inst # None
<1>1. CASE Refused(t, k) # "no"
  BY <1>1 DEF Refused, Answer, Failure, ResultType, ResultKinds, Failures
<1>2. CASE Refused(t, k) = "no"
  <2>1. Cached(t, k, id) \in Instance
    BY <1>2, GraphAssumption DEF Answered, Cached, TypeOK, GraphAssumption
  <2>2. Answer(t, k, id) = [kind |-> "value", inst |-> Cached(t, k, id)]
    BY <1>2 DEF Answer, Value
  <2>. QED  BY <2>1, <2>2, ClientAssumption DEF ResultType, ResultKinds, Instance, ClientAssumption
<1>. QED  BY <1>1, <1>2

LEMMA NoCallType == NoCall \in CallType
BY DEF NoCall, CallType

LEMMA NewCallType ==
  ASSUME NEW t \in Tokens, NEW caller \in Calls \cup Clients, NEW slot \in Nat,
         NEW k \in Clients, NEW id \in ContextIds \cup {NoContext}
  PROVE  NewCall(t, caller, slot, k, id) \in CallType
BY DEF NewCall, NoCall, CallType

\* A provider that is ready yields an instance.
LEMMA SettleType ==
  ASSUME TypeOK, NEW c \in Calls, NEW res \in ResultType, Settle(c, res),
         calls[c].token \in Tokens
  PROVE  calls' \in [Calls -> CallType] /\ clients' \in [Clients -> ClientType]
<1>1. calls[c] \in CallType
  BY DEF TypeOK
<1>2. ASSUME NEW d \in Calls PROVE calls'[d] \in CallType
  <2>1. calls[d] \in CallType
    BY DEF TypeOK
  <2>2. Receive(calls[d], calls[c].slot, res) \in CallType
    <3>1. calls[c].slot \in Nat
      BY <1>1 DEF CallType
    <3>. QED  BY <2>1, <3>1, ReceiveFields DEF Received
  <2>3. ASSUME NEW g \in CallType PROVE Orphaned(g, c) \in CallType
    BY DEF Orphaned, CallType
  <2>4. (IF d = calls[c].caller THEN Receive(calls[d], calls[c].slot, res) ELSE calls[d]) \in CallType
    BY <2>1, <2>2
  <2>. QED  BY <2>3, <2>4, NoCallType DEF Settle
<1>3. ASSUME NEW k \in Clients PROVE clients'[k] \in ClientType
  <2>1. clients[k] \in ClientType
    BY DEF TypeOK
  <2>2. ClientReceive(clients[k], calls[c].token, res) \in ClientType
    BY <2>1 DEF ClientReceive, ClientType
  <2>. QED  BY <2>1, <2>2 DEF Settle
<1>. QED  BY <1>2, <1>3 DEF Settle

\* A free call id exists whenever Build is enabled.
LEMMA FreeCallOK ==
  ASSUME \E c \in Calls : ~calls[c].live
  PROVE  FreeCall \in Calls /\ ~calls[FreeCall].live
BY DEF FreeCall

\* Every instance a finishing provider yields can be stored and handed on.
LEMMA ProductType ==
  ASSUME TypeOK, NEW c \in Calls, calls[c].token \in Tokens
  PROVE  /\ Product(c) \in Instance \cup {None}
         /\ Value(Product(c)) \in ResultType
<1>1. calls[c].val \in Instance \cup {None}
  BY DEF TypeOK, CallType
<1>2. <<calls[c].token, made[calls[c].token] + 1>> \in Instance
  BY DEF TypeOK, Instance
<1>3. Product(c) \in Instance \cup {None}
  BY <1>1, <1>2 DEF Product
<1>. QED  BY <1>3 DEF Value, ResultType, ResultKinds

LEMMA FailureType ==
  ASSUME NEW kind \in Failures PROVE Failure(kind) \in ResultType
BY DEF Failure, ResultType, ResultKinds

\* The variables keep their types.
LEMMA TypeInit == Init => TypeOK
<1>. SUFFICES ASSUME Init PROVE TypeOK
  OBVIOUS
<1>1. calls \in [Calls -> CallType]
  BY NoCallType DEF Init
<1>2. clients \in [Clients -> ClientType]
  BY ClientAssumption DEF Init, ClientType, ResultType, ResultKinds, Failure, Failures,
     ClientAssumption
<1>. QED  BY <1>1, <1>2, GraphAssumption DEF Init, TypeOK, GraphAssumption

LEMMA TypeAsk ==
  ASSUME TypeOK, NEW k \in Clients, NEW t \in Tokens, Ask(k, t)
  PROVE  TypeOK'
<1>1. CtxOf[k] \in ContextIds \cup {NoContext}
  BY ClientAssumption DEF ClientAssumption
<1>2. clients[k] \in ClientType /\ clients[k].asks + 1 \in 0..MaxAsks
  BY ClientAssumption DEF Ask, TypeOK, ClientType, ClientAssumption
<1>3. CASE Answered(t, k, CtxOf[k])
  <2>. DEFINE r == Answer(t, k, CtxOf[k])
  <2>1. r \in ResultType
    BY <1>1, <1>3, AnswerType
  <2>. HIDE DEF r
  <2>2. ClientReceive(clients[k], t, r) \in ClientType
        /\ ClientReceive(clients[k], t, r).asks = clients[k].asks
    BY <1>2, <2>1 DEF ClientReceive, ClientType
  <2>3. [ClientReceive(clients[k], t, r) EXCEPT !.asks = clients[k].asks + 1] \in ClientType
    BY <1>2, <2>2 DEF ClientType
  <2>4. clients' \in [Clients -> ClientType]
    BY <1>3, <2>2, <2>3 DEF Ask, TypeOK, r
  <2>. QED  BY <1>3, <2>4 DEF Ask, TypeOK
<1>4. CASE ~Answered(t, k, CtxOf[k])
  <2>1. NewCall(t, k, 0, k, CtxOf[k]) \in CallType
    BY <1>1, NewCallType
  <2>2. calls' \in [Calls -> CallType]
    BY <1>4, <2>1, FreeCallOK DEF Ask, Build, TypeOK
  <2>3. [clients[k] EXCEPT !.st = "waiting", !.asks = clients[k].asks + 1] \in ClientType
    BY <1>2 DEF ClientType
  <2>4. clients' \in [Clients -> ClientType]
    BY <1>4, <2>3 DEF Ask, TypeOK
  <2>5. contexts' \subseteq Containers \X ContextIds
    BY <1>1, <1>4, GraphAssumption DEF Ask, Build, TypeOK, GraphAssumption
  <2>. QED  BY <1>4, <2>2, <2>4, <2>5 DEF Ask, Build, TypeOK
<1>. QED  BY <1>3, <1>4

LEMMA UncachedFields ==
  ASSUME NEW f \in CallType
  PROVE  LET g == Uncached(f) IN
         /\ g \in CallType
         /\ g.live = f.live /\ g.token = f.token /\ g.caller = f.caller /\ g.slot = f.slot
         /\ g.client = f.client /\ g.next = f.next /\ g.waiting = f.waiting
         /\ g.val = f.val /\ g.failed = f.failed
BY DEF Uncached, CallType

LEMMA TypeEndRequest ==
  ASSUME TypeOK, NEW k \in Clients, EndRequest(k)
  PROVE  TypeOK'
<1>1. CtxOf[k] \in ContextIds
  BY ClientAssumption DEF EndRequest, Scoped, ClientAssumption
<1>2. calls' \in [Calls -> CallType]
  BY UncachedFields DEF EndRequest, DropContext, TypeOK
<1>3. clients' \in [Clients -> ClientType]
  BY DEF EndRequest, TypeOK, ClientType
<1>. QED  BY <1>1, <1>2, <1>3 DEF EndRequest, DropContext, TypeOK

LEMMA TypeClear == ASSUME TypeOK, Clear PROVE TypeOK'
<1>1. calls' \in [Calls -> CallType]
  BY UncachedFields DEF Clear, TypeOK
<1>. QED  BY <1>1 DEF Clear, TypeOK

LEMMA TypeInject ==
  ASSUME TypeOK, CallsOK, NEW c \in Calls, Inject(c)
  PROVE  TypeOK'
<1>. DEFINE f == calls[c]
            t == Dep(c)
<1>1. /\ f \in CallType /\ f.live /\ f.token \in Tokens /\ f.client \in Clients
      /\ f.next \in 1..Len(Deps[f.token])
  BY LenType DEF Inject, MayInject, Invoked, CallsOK, Live, TypeOK
<1>2. t \in Tokens
  BY <1>1, DepType DEF Dep
<1>3. /\ f.next \in Nat /\ f.next + 1 \in Nat
      /\ f.waiting \cup {f.next} \in SUBSET Nat
  BY <1>1, LenType DEF CallType
<1>. HIDE DEF f, t
<1>4. [f EXCEPT !.next = f.next + 1] \in CallType
  BY <1>1, <1>3 DEF CallType
<1>5. CASE Answered(t, f.client, NoContext)
  <2>1. Answer(t, f.client, NoContext) \in ResultType
    BY <1>1, <1>2, <1>5, AnswerType
  <2>2. Receive([f EXCEPT !.next = f.next + 1], f.next, Answer(t, f.client, NoContext)) \in CallType
    BY <1>3, <1>4, <2>1, ReceiveFields DEF Received
  <2>3. calls' \in [Calls -> CallType]
    BY <1>5, <2>2 DEF Inject, TypeOK, f, t
  <2>. QED  BY <1>5, <2>3 DEF Inject, TypeOK, f, t
<1>6. CASE ~Answered(t, f.client, NoContext)
  <2>1. NewCall(t, c, f.next, f.client, NoContext) \in CallType
    BY <1>1, <1>2, <1>3, NewCallType
  <2>2. [f EXCEPT !.next = f.next + 1, !.waiting = f.waiting \cup {f.next}] \in CallType
    BY <1>1, <1>3 DEF CallType
  <2>3. Build(t, NoContext)
    BY <1>6 DEF Inject, f, t
  <2>4. calls' \in [Calls -> CallType]
    BY <1>6, <2>1, <2>2, <2>3, FreeCallOK DEF Inject, Build, TypeOK, f, t
  <2>5. resolving' \subseteq Tokens /\ contexts' = contexts
    BY <1>2, <2>3 DEF Build, TypeOK
  <2>. QED  BY <2>3, <2>4, <2>5 DEF Inject, Build, TypeOK
<1>. QED  BY <1>5, <1>6

LEMMA TypeComplete ==
  ASSUME TypeOK, CallsOK, NEW c \in Calls, Complete(c)
  PROVE  TypeOK'
<1>. DEFINE f == calls[c]
            t == f.token
            inst == Product(c)
<1>1. f \in CallType /\ t \in Tokens /\ f.client \in Clients
  BY DEF Complete, Ready, CallsOK, Live, TypeOK
<1>2. inst \in Instance \cup {None} /\ Value(inst) \in ResultType
  BY <1>1, ProductType
<1>3. calls' \in [Calls -> CallType] /\ clients' \in [Clients -> ClientType]
  BY <1>1, <1>2, SettleType DEF Complete
<1>. HIDE DEF f, inst
<1>4. Store(c, inst) /\ Leave(t) /\ made' = [made EXCEPT ![t] = made[t] + 1]
      /\ UNCHANGED <<providers, contexts>>
  BY DEF Complete, inst, f
<1>5. f.ctx \in ContextIds \cup {NoContext}
  BY <1>1 DEF CallType
<1>6. singletons' \in [Tokens -> Instance \cup {None}]
  BY <1>2, <1>4 DEF Store, TypeOK, f
<1>7. requestInstances' \in [Clients -> [Tokens -> Instance \cup {None}]]
  BY <1>1, <1>2, <1>4 DEF Store, TypeOK, f
<1>8. contextCache' \in [ContextIds -> [Tokens -> Instance \cup {None}]]
  BY <1>2, <1>4, <1>5 DEF Store, TypeOK, f
<1>9. instances' \in [Containers -> SUBSET (Instance \cup {None})]
  BY <1>1, <1>2, <1>4, GraphAssumption DEF Store, TypeOK, f, GraphAssumption
<1>10. made' \in [Tokens -> Nat] /\ resolving' \subseteq Tokens
  BY <1>1, <1>4 DEF TypeOK, Leave
<1>. QED  BY <1>3, <1>4, <1>6, <1>7, <1>8, <1>9, <1>10 DEF TypeOK

LEMMA TypeFail ==
  ASSUME TypeOK, CallsOK, NEW c \in Calls, Fail(c)
  PROVE  TypeOK'
<1>1. calls[c] \in CallType /\ calls[c].token \in Tokens
  BY DEF Fail, Rejects, Breaks, CallsOK, Live, TypeOK
<1>2. \E res \in ResultType : Settle(c, res)
  <2>1. CASE Rejects(c) /\ Settle(c, Failure(calls[c].failed))
    <3>1. calls[c].failed \in Failures
      BY <1>1, <2>1 DEF Rejects, CallType
    <3>. QED  BY <2>1, <3>1, FailureType
  <2>2. CASE Settle(c, Failure("error"))
    BY <2>2, FailureType DEF Failures
  <2>. QED  BY <2>1, <2>2 DEF Fail
<1>3. calls' \in [Calls -> CallType] /\ clients' \in [Clients -> ClientType]
  BY <1>1, <1>2, SettleType
<1>. QED  BY <1>3 DEF Fail, Leave, TypeOK

LEMMA TypeStep == TypeOK /\ CallsOK /\ [Next]_vars => TypeOK'
<1>. SUFFICES ASSUME TypeOK, CallsOK, [Next]_vars PROVE TypeOK'
  OBVIOUS
<1>1. CASE UNCHANGED vars
  BY <1>1 DEF vars, TypeOK
<1>2. CASE Next
  BY <1>2, TypeAsk, TypeEndRequest, TypeInject, TypeComplete, TypeFail, TypeClear DEF Next
<1>. QED  BY <1>1, <1>2

-----------------------------------------------------------------------------
(* What a step does to the calls it is not about.                          *)

\* Two records describe the same stage of the same call.
Same(g, f) ==
  /\ g.live = f.live /\ g.token = f.token /\ g.caller = f.caller /\ g.slot = f.slot
  /\ g.client = f.client /\ g.next = f.next /\ g.waiting = f.waiting
  /\ g.val = f.val /\ g.failed = f.failed

\* Call c settles: it is gone, its caller has heard, its children are orphans.
LEMMA SettleEffect ==
  ASSUME TypeOK, NEW c \in Calls, c \in Live, calls[c].token \in Tokens,
         NEW res \in ResultType, Settle(c, res)
  PROVE  /\ Live' = Live \ {c}
         /\ \A d \in Live \ {c} :
              LET g == calls'[d]  f == calls[d] IN
              /\ g.token = f.token /\ g.slot = f.slot /\ g.client = f.client /\ g.next = f.next
              /\ g.ctx = f.ctx /\ g.caller = IF f.caller = c THEN None ELSE f.caller
              /\ d # calls[c].caller =>
                   g.waiting = f.waiting /\ g.val = f.val /\ g.failed = f.failed
              /\ d = calls[c].caller =>
                   /\ g.waiting = f.waiting \ {calls[c].slot}
                   /\ g.val = IF res.kind = "value" THEN res.inst ELSE None
                   /\ g.failed = "no" =>
                        /\ f.failed = "no"
                        /\ res.kind = "value" \/ Skipped(f.token, calls[c].slot, res)
                   /\ g.failed = "notfound" =>
                        \/ f.failed = "notfound"
                        \/ res.kind = "notfound" /\ ~Skippable(f.token, calls[c].slot)
<1>. DEFINE e(d) == IF d = calls[c].caller THEN Receive(calls[d], calls[c].slot, res)
                    ELSE calls[d]
<1>1. calls[c].slot \in Nat
  BY DEF TypeOK, CallType
<1>2. ASSUME NEW d \in Calls
      PROVE  /\ e(d) \in CallType
             /\ e(d).live = calls[d].live /\ e(d).token = calls[d].token
             /\ e(d).caller = calls[d].caller /\ e(d).slot = calls[d].slot
             /\ e(d).client = calls[d].client /\ e(d).next = calls[d].next
             /\ e(d).ctx = calls[d].ctx
             /\ d # calls[c].caller =>
                  e(d).waiting = calls[d].waiting /\ e(d).val = calls[d].val
                  /\ e(d).failed = calls[d].failed
             /\ d = calls[c].caller =>
                  /\ e(d).waiting = calls[d].waiting \ {calls[c].slot}
                  /\ e(d).val = IF res.kind = "value" THEN res.inst ELSE None
                  /\ e(d).failed = "no" =>
                       /\ calls[d].failed = "no"
                       /\ res.kind = "value" \/ Skipped(calls[d].token, calls[c].slot, res)
                  /\ e(d).failed = "notfound" =>
                       \/ calls[d].failed = "notfound"
                       \/ res.kind = "notfound" /\ ~Skippable(calls[d].token, calls[c].slot)
  <2>1. calls[d] \in CallType
    BY DEF TypeOK
  <2>2. CASE d = calls[c].caller
    <3>. DEFINE g == Receive(calls[d], calls[c].slot, res)
    <3>1. e(d) = g
      BY <2>2
    <3>2. Received(g, calls[d], calls[c].slot, res)
      BY <1>1, <2>1, ReceiveFields
    <3>. HIDE DEF g, e
    <3>. QED  BY <2>2, <3>1, <3>2 DEF Received
  <2>3. CASE d # calls[c].caller
    BY <2>1, <2>3
  <2>. QED  BY <2>2, <2>3
<1>. HIDE DEF e
<1>3. ASSUME NEW g \in CallType
      PROVE  LET h == Orphaned(g, c) IN
             /\ h.live = g.live /\ h.token = g.token /\ h.slot = g.slot /\ h.client = g.client
             /\ h.next = g.next /\ h.waiting = g.waiting /\ h.val = g.val
             /\ h.failed = g.failed /\ h.ctx = g.ctx /\ h.caller = IF g.caller = c THEN None ELSE g.caller
  BY DEF Orphaned, CallType
<1>4. \A d \in Calls : calls'[d] = IF d = c THEN NoCall ELSE Orphaned(e(d), c)
  BY DEF Settle, e
<1>5. ASSUME NEW d \in Calls, d # c
      PROVE  calls'[d] = Orphaned(e(d), c)
  BY <1>4, <1>5
<1>6. ~calls'[c].live
  BY <1>4 DEF NoCall
<1>7. Live' = Live \ {c}
  BY <1>2, <1>3, <1>5, <1>6 DEF Live
<1>8. \A d \in Live : d \in Calls
  BY DEF Live
<1>. QED  BY <1>2, <1>3, <1>5, <1>7, <1>8

\* An answered dependency changes the asking call only.
LEMMA InjectAnsweredEffect ==
  ASSUME TypeOK, CallsOK, NEW c \in Calls, Inject(c),
         Answered(Dep(c), calls[c].client, NoContext)
  PROVE  /\ Live' = Live /\ c \in Live
         /\ \A d \in Live \ {c} : calls'[d] = calls[d]
         /\ LET g == calls'[c]  f == calls[c]
                res == Answer(Dep(c), f.client, NoContext) IN
            /\ g.token = f.token /\ g.slot = f.slot /\ g.client = f.client
            /\ g.caller = f.caller /\ g.next = f.next + 1 /\ g.ctx = f.ctx
            /\ g.waiting = f.waiting \ {f.next}
            /\ g.val = IF res.kind = "value" THEN res.inst ELSE None
            /\ g.failed = "no" =>
                 f.failed = "no" /\ (res.kind = "value" \/ Skipped(f.token, f.next, res))
            /\ g.failed = "notfound" =>
                 f.failed = "notfound" \/ (res.kind = "notfound" /\ ~Skippable(f.token, f.next))
<1>. DEFINE f == calls[c]
            res == Answer(Dep(c), f.client, NoContext)
            f1 == [f EXCEPT !.next = f.next + 1]
<1>1. /\ f \in CallType /\ f.live /\ f.token \in Tokens /\ f.client \in Clients
      /\ f.next \in 1..Len(Deps[f.token])
  BY LenType DEF Inject, MayInject, Invoked, CallsOK, Live, TypeOK
<1>2. Dep(c) \in Tokens
  BY <1>1, DepType DEF Dep
<1>3. res \in ResultType
  BY <1>1, <1>2, AnswerType
<1>4. calls' = [calls EXCEPT ![c] = Receive(f1, f.next, res)]
  BY DEF Inject
<1>. HIDE DEF f, res
<1>51. f.next \in Nat /\ f.next + 1 \in Nat
  BY <1>1, LenType
<1>5. /\ f1 \in CallType /\ f1.live = f.live /\ f1.token = f.token /\ f1.slot = f.slot
      /\ f1.client = f.client /\ f1.caller = f.caller /\ f1.next = f.next + 1
      /\ f1.ctx = f.ctx /\ f1.waiting = f.waiting /\ f1.val = f.val /\ f1.failed = f.failed
  BY <1>1, <1>51 DEF CallType
<1>. HIDE DEF f1
<1>6. calls'[c] = Receive(f1, f.next, res) /\ \A d \in Calls \ {c} : calls'[d] = calls[d]
  BY <1>4 DEF TypeOK
<1>. DEFINE g == Receive(f1, f.next, res)
<1>70. f1 \in CallType
  BY <1>5
<1>71. Received(g, f1, f.next, res)
  BY <1>3, <1>51, <1>70, ReceiveFields
<1>7. /\ g.live = f.live /\ g.token = f.token /\ g.caller = f.caller /\ g.slot = f.slot
      /\ g.client = f.client /\ g.next = f.next + 1 /\ g.ctx = f.ctx
      /\ g.waiting = f.waiting \ {f.next}
      /\ g.val = (IF res.kind = "value" THEN res.inst ELSE None)
      /\ g.failed = "no" =>
           f.failed = "no" /\ (res.kind = "value" \/ Skipped(f.token, f.next, res))
      /\ g.failed = "notfound" =>
           f.failed = "notfound" \/ (res.kind = "notfound" /\ ~Skippable(f.token, f.next))
  BY <1>5, <1>71 DEF Received
<1>. HIDE DEF g
<1>8. calls'[c] = g
  BY <1>6 DEF g
<1>9. Live' = Live /\ c \in Live
  BY <1>1, <1>6, <1>7, <1>8 DEF Live, f
<1>10. \A d \in Live \ {c} : calls'[d] = calls[d]
  BY <1>6 DEF Live
<1>. QED  BY <1>7, <1>8, <1>9, <1>10 DEF f, res

\* Starting to build adds one call; the asking call remembers that it waits.
LEMMA InjectBuildsEffect ==
  ASSUME TypeOK, CallsOK, NEW c \in Calls, Inject(c),
         ~Answered(Dep(c), calls[c].client, NoContext)
  PROVE  \E n \in Calls \ Live :
         /\ Live' = Live \cup {n} /\ c \in Live
         /\ \A d \in Live \ {c} : calls'[d] = calls[d]
         /\ calls'[c] = [calls[c] EXCEPT !.next = calls[c].next + 1,
                                        !.waiting = calls[c].waiting \cup {calls[c].next}]
         /\ calls'[n] = NewCall(Dep(c), c, calls[c].next, calls[c].client, NoContext)
         /\ resolving' = resolving \cup {Dep(c)}
<1>1. c \in Live /\ Build(Dep(c), NoContext)
  BY DEF Inject, Live
<1>2. FreeCall \in Calls \ Live
  BY <1>1, FreeCallOK DEF Build, Live
<1>. DEFINE g == [calls[c] EXCEPT !.next = calls[c].next + 1,
                                 !.waiting = calls[c].waiting \cup {calls[c].next}]
            h == NewCall(Dep(c), c, calls[c].next, calls[c].client, NoContext)
<1>3. calls' = [calls EXCEPT ![c] = g, ![FreeCall] = h]
  BY DEF Inject
<1>4. g.live /\ h.live
  BY <1>1 DEF Live, TypeOK, CallType, NewCall, NoCall
<1>. HIDE DEF g, h
<1>5. /\ calls'[c] = g /\ calls'[FreeCall] = h
      /\ \A d \in Calls \ {c, FreeCall} : calls'[d] = calls[d]
  BY <1>1, <1>2, <1>3 DEF TypeOK, Live
<1>6. Live' = Live \cup {FreeCall}
  BY <1>1, <1>2, <1>4, <1>5 DEF Live
<1>7. \A d \in Live \ {c} : calls'[d] = calls[d]
  BY <1>2, <1>5 DEF Live
<1>8. resolving' = resolving \cup {Dep(c)}
  BY <1>1 DEF Build
<1>. QED  BY <1>1, <1>2, <1>5, <1>6, <1>7, <1>8 DEF g, h

\* A call that fulfils or rejects is live, leaves `resolving` and tells its
\* caller; it tells of a value only if it was ready and has been counted, and of a
\* token that is not found only if it was told so itself.
LEMMA SettlingEffect ==
  ASSUME TypeOK, CallsOK, NEW c \in Calls, Complete(c) \/ Fail(c)
  PROVE  /\ c \in Live /\ calls[c].token \in Tokens
         /\ resolving' = resolving \ {calls[c].token}
         /\ \E res \in ResultType :
              /\ Settle(c, res)
              /\ res.kind = "value" => Complete(c) /\ res.inst = Product(c)
              /\ res.kind = "notfound" => calls[c].failed = "notfound"
<1>1. c \in Live
  BY DEF Complete, Fail, Ready, Rejects, Breaks, Live
<1>2. calls[c].token \in Tokens
  BY <1>1 DEF CallsOK
<1>3. resolving' = resolving \ {calls[c].token}
  BY DEF Complete, Fail, Leave
<1>4. CASE Complete(c)
  <2>1. /\ Value(Product(c)) \in ResultType /\ Value(Product(c)).inst = Product(c)
        /\ Value(Product(c)).kind = "value"
    BY <1>2, ProductType DEF Value
  <2>. QED  BY <1>1, <1>2, <1>3, <1>4, <2>1 DEF Complete
<1>5. CASE Fail(c)
  <2>1. Rejects(c) => calls[c].failed \in Failures
    BY DEF Rejects, TypeOK, CallType
  <2>2. \A kind \in Failures : Failure(kind) \in ResultType /\ Failure(kind).kind = kind
    BY FailureType DEF Failure, Failures
  <2>3. "error" \in Failures /\ "value" \notin Failures
    BY DEF Failures
  <2>. QED  BY <1>1, <1>2, <1>3, <1>5, <2>1, <2>2, <2>3 DEF Fail
<1>. QED  BY <1>4, <1>5

\* A client's resolve() that is not answered at once adds a call for the client.
LEMMA AskBuildsEffect ==
  ASSUME TypeOK, NEW k \in Clients, NEW t \in Tokens, Ask(k, t), ~Answered(t, k, CtxOf[k])
  PROVE  \E n \in Calls \ Live :
         /\ Live' = Live \cup {n}
         /\ \A d \in Live : calls'[d] = calls[d]
         /\ calls'[n] = NewCall(t, k, 0, k, CtxOf[k])
         /\ resolving' = resolving \cup {t}
<1>1. Build(t, CtxOf[k])
  BY DEF Ask
<1>2. FreeCall \in Calls \ Live
  BY <1>1, FreeCallOK DEF Build, Live
<1>. DEFINE h == NewCall(t, k, 0, k, CtxOf[k])
<1>3. calls' = [calls EXCEPT ![FreeCall] = h]
  BY DEF Ask
<1>4. h.live
  BY DEF NewCall, NoCall
<1>. HIDE DEF h
<1>5. calls'[FreeCall] = h /\ \A d \in Calls \ {FreeCall} : calls'[d] = calls[d]
  BY <1>2, <1>3 DEF TypeOK
<1>6. Live' = Live \cup {FreeCall} /\ \A d \in Live : calls'[d] = calls[d]
  BY <1>2, <1>4, <1>5 DEF Live
<1>. QED  BY <1>1, <1>2, <1>5, <1>6 DEF h, Build

LEMMA NewCallFields ==
  ASSUME NEW t, NEW caller, NEW slot, NEW k, NEW id
  PROVE  LET g == NewCall(t, caller, slot, k, id) IN
         /\ g.token = t /\ g.caller = caller /\ g.slot = slot /\ g.client = k
         /\ g.next = 1 /\ g.waiting = {} /\ g.failed = "no" /\ g.val = None
BY DEF NewCall, NoCall

\* The end of a request and clear() touch the context of a call, nothing else.
LEMMA DropEffect ==
  ASSUME TypeOK, Clear \/ \E k \in Clients : EndRequest(k)
  PROVE  Live' = Live /\ \A d \in Live : Same(calls'[d], calls[d])
<1>1. ASSUME NEW d \in Calls
      PROVE  calls'[d] = Uncached(calls[d]) \/ calls'[d] = calls[d]
  BY DEF EndRequest, DropContext, Clear
<1>2. ASSUME NEW d \in Calls PROVE Same(calls'[d], calls[d])
  <2>1. calls[d] \in CallType
    BY DEF TypeOK
  <2>2. Same(Uncached(calls[d]), calls[d])
    BY <2>1, UncachedFields DEF Same
  <2>3. Same(calls[d], calls[d])
    BY DEF Same
  <2>. QED  BY <1>1, <2>2, <2>3
<1>. QED  BY <1>2 DEF Live, Same

-----------------------------------------------------------------------------
(* CallsOK: every call is about a token, its caller awaits it.             *)

\* CallsOK of one call, so that a step can be checked call by call.
CallOK(c) ==
  LET f == calls[c] IN
  /\ f.token \in Tokens /\ f.client \in Clients
  /\ f.next \in 1..(Len(Deps[f.token]) + 1)
  /\ f.caller \in Calls =>
       /\ f.caller \in Live
       /\ f.slot \in 1..Len(Deps[calls[f.caller].token])
       /\ f.token = Deps[calls[f.caller].token][f.slot]

\* A call that keeps its identity and whose caller, if it still has one, lives on.
LEMMA CallOKKept ==
  ASSUME NEW d, CallOK(d),
         calls'[d].token = calls[d].token, calls'[d].client = calls[d].client,
         calls'[d].slot = calls[d].slot,
         calls'[d].next \in 1..(Len(Deps[calls[d].token]) + 1),
         calls'[d].caller \in Calls =>
           /\ calls'[d].caller = calls[d].caller
           /\ calls[d].caller \in Live'
           /\ calls'[calls[d].caller].token = calls[calls[d].caller].token
  PROVE  CallOK(d)'
<1>. DEFINE p == calls[d].caller
<1>1. calls'[d].token \in Tokens /\ calls'[d].client \in Clients
  BY DEF CallOK
<1>2. calls'[d].next \in 1..(Len(Deps[calls'[d].token]) + 1)
  OBVIOUS
<1>3. ASSUME calls'[d].caller \in Calls
      PROVE  /\ calls'[d].caller \in Live'
             /\ calls'[d].slot \in 1..Len(Deps[calls'[calls'[d].caller].token])
             /\ calls'[d].token = Deps[calls'[calls'[d].caller].token][calls'[d].slot]
  <2>1. /\ calls'[d].caller = p /\ p \in Live' /\ calls'[p].token = calls[p].token
        /\ p \in Calls
    BY <1>3
  <2>2. calls[d].slot \in 1..Len(Deps[calls[p].token])
        /\ calls[d].token = Deps[calls[p].token][calls[d].slot]
    BY <2>1 DEF CallOK
  <2>3. calls'[calls'[d].caller].token = calls[p].token
    BY <2>1
  <2>. QED  BY <2>1, <2>2, <2>3
<1>. QED  BY <1>1, <1>2, <1>3 DEF CallOK

LEMMA CallsOKStep == TypeOK /\ CallsOK /\ [Next]_vars => CallsOK'
<1>. SUFFICES ASSUME TypeOK, CallsOK, [Next]_vars PROVE CallsOK'
  OBVIOUS
<1>0. \A d \in Live : CallOK(d) /\ d \in Calls
  BY DEF CallsOK, CallOK, Live
<1>. SUFFICES ASSUME NEW d \in Live' PROVE CallOK(d)'
  BY DEF CallsOK, CallOK
<1>1. ASSUME NEW k \in Clients, NEW t \in Tokens, Ask(k, t) PROVE CallOK(d)'
  <2>1. CASE Answered(t, k, CtxOf[k])
    BY <1>0, <1>1, <2>1 DEF Ask, CallOK, Live
  <2>2. CASE ~Answered(t, k, CtxOf[k])
    <3>1. PICK n \in Calls \ Live :
            /\ Live' = Live \cup {n}
            /\ \A e \in Live : calls'[e] = calls[e]
            /\ calls'[n] = NewCall(t, k, 0, k, CtxOf[k])
      BY <1>1, <2>2, AskBuildsEffect
    <3>2. CASE d = n
      <4>1. /\ calls'[d].token = t /\ calls'[d].caller = k /\ calls'[d].client = k
            /\ calls'[d].next = 1
        BY <3>1, <3>2, NewCallFields
      <4>2. k \notin Calls
        BY ClientAssumption DEF ClientAssumption
      <4>3. 1 \in 1..(Len(Deps[t]) + 1)
        BY LenType
      <4>. QED  BY <4>1, <4>2, <4>3 DEF CallOK
    <3>3. CASE d \in Live
      BY <1>0, <3>1, <3>3 DEF CallOK
    <3>. QED  BY <3>1, <3>2, <3>3
  <2>. QED  BY <2>1, <2>2
<1>2. ASSUME Clear \/ \E k \in Clients : EndRequest(k) PROVE CallOK(d)'
  <2>1. Live' = Live /\ \A e \in Live : Same(calls'[e], calls[e])
    BY <1>2, DropEffect
  <2>2. CallOK(d) /\ d \in Live
    BY <1>0, <2>1
  <2>3. calls[d].caller \in Calls => calls[d].caller \in Live
    BY <2>2 DEF CallOK
  <2>. QED  BY <2>1, <2>2, <2>3, CallOKKept DEF CallOK, Same
<1>3. ASSUME NEW c \in Calls, Inject(c) PROVE CallOK(d)'
  <2>0. /\ c \in Live /\ calls[c].next \in 1..Len(Deps[calls[c].token])
        /\ calls[c].token \in Tokens /\ Dep(c) \in Tokens
        /\ calls[c].next + 1 \in 1..(Len(Deps[calls[c].token]) + 1)
    <3>1. c \in Live /\ CallOK(c) /\ calls[c].next <= Len(Deps[calls[c].token])
      BY <1>0, <1>3, LenType DEF Inject, MayInject, Invoked, Live, CallOK
    <3>. QED  BY <3>1, LenType, DepType DEF CallOK, Dep
  <2>1. CASE Answered(Dep(c), calls[c].client, NoContext)
    <3>1. /\ Live' = Live
          /\ \A e \in Live \ {c} : calls'[e] = calls[e]
          /\ calls'[c].token = calls[c].token /\ calls'[c].slot = calls[c].slot
          /\ calls'[c].client = calls[c].client /\ calls'[c].caller = calls[c].caller
          /\ calls'[c].next = calls[c].next + 1
      BY <1>3, <2>1, InjectAnsweredEffect
    <3>2. \A e \in Live : calls'[e].token = calls[e].token
      BY <3>1
    <3>3. CallOK(d) /\ (calls[d].caller \in Calls => calls[d].caller \in Live)
      BY <1>0, <3>1 DEF CallOK
    <3>4. calls'[d].next \in 1..(Len(Deps[calls[d].token]) + 1)
      BY <2>0, <3>1, <3>3 DEF CallOK
    <3>5. /\ calls'[d].slot = calls[d].slot /\ calls'[d].client = calls[d].client
          /\ calls'[d].caller = calls[d].caller /\ calls'[d].token = calls[d].token
      BY <3>1
    <3>. QED  BY <3>1, <3>2, <3>3, <3>4, <3>5, CallOKKept
  <2>2. CASE ~Answered(Dep(c), calls[c].client, NoContext)
    <3>1. PICK n \in Calls \ Live :
         /\ Live' = Live \cup {n}
         /\ \A e \in Live \ {c} : calls'[e] = calls[e]
         /\ calls'[c] = [calls[c] EXCEPT !.next = calls[c].next + 1,
                                        !.waiting = calls[c].waiting \cup {calls[c].next}]
         /\ calls'[n] = NewCall(Dep(c), c, calls[c].next, calls[c].client, NoContext)
      BY <1>3, <2>2, InjectBuildsEffect
    <3>2. /\ calls'[c].token = calls[c].token /\ calls'[c].slot = calls[c].slot
          /\ calls'[c].client = calls[c].client /\ calls'[c].caller = calls[c].caller
          /\ calls'[c].next = calls[c].next + 1
      BY <3>1 DEF TypeOK, CallType
    <3>3. \A e \in Live : calls'[e].token = calls[e].token
      BY <3>1, <3>2
    <3>4. CASE d = c
      <4>1. CallOK(d) /\ (calls[d].caller \in Calls => calls[d].caller \in Live)
        BY <1>0, <2>0, <3>4 DEF CallOK
      <4>2. calls'[d].next \in 1..(Len(Deps[calls[d].token]) + 1)
        <5>1. calls'[d].next = calls[d].next + 1
          BY <3>2, <3>4
        <5>. QED  BY <2>0, <3>4, <5>1
      <4>. QED  BY <3>1, <3>2, <3>3, <3>4, <4>1, <4>2, CallOKKept
    <3>5. CASE d = n
      <4>1. /\ calls'[d].token = Dep(c) /\ calls'[d].caller = c
            /\ calls'[d].client = calls[c].client
            /\ calls'[d].slot = calls[c].next /\ calls'[d].next = 1
        BY <3>1, <3>5, NewCallFields
      <4>2. 1 \in 1..(Len(Deps[Dep(c)]) + 1)
        BY <2>0, LenType
      <4>3. c \in Live' /\ calls'[c].token = calls[c].token
        BY <2>0, <3>1, <3>3
      <4>4. /\ calls'[d].token \in Tokens /\ calls'[d].client \in Clients
            /\ calls'[d].next \in 1..(Len(Deps[calls'[d].token]) + 1)
        BY <1>0, <2>0, <4>1, <4>2 DEF CallOK
      <4>5. /\ calls'[d].caller \in Live'
            /\ calls'[d].slot \in 1..Len(Deps[calls'[calls'[d].caller].token])
            /\ calls'[d].token = Deps[calls'[calls'[d].caller].token][calls'[d].slot]
        BY <2>0, <4>1, <4>3 DEF Dep
      <4>. QED  BY <4>4, <4>5 DEF CallOK
    <3>6. CASE d \in Live \ {c}
      <4>1. CallOK(d) /\ (calls[d].caller \in Calls => calls[d].caller \in Live)
        BY <1>0, <3>6 DEF CallOK
      <4>2. calls'[d] = calls[d] /\ \A e \in Live : e \in Live'
        BY <3>1, <3>6
      <4>3. calls'[d].next \in 1..(Len(Deps[calls[d].token]) + 1)
        BY <4>1, <4>2 DEF CallOK
      <4>. QED  BY <3>3, <4>1, <4>2, <4>3, CallOKKept
    <3>. QED  BY <3>1, <3>4, <3>5, <3>6
  <2>. QED  BY <2>1, <2>2
<1>4. ASSUME NEW c \in Calls, c \in Live, NEW res \in ResultType, Settle(c, res)
      PROVE  CallOK(d)'
  <2>1. calls[c].token \in Tokens
    BY <1>0, <1>4 DEF CallOK
  <2>2. /\ Live' = Live \ {c}
        /\ \A e \in Live \ {c} :
             /\ calls'[e].token = calls[e].token /\ calls'[e].slot = calls[e].slot
             /\ calls'[e].client = calls[e].client /\ calls'[e].next = calls[e].next
             /\ calls'[e].caller = IF calls[e].caller = c THEN None ELSE calls[e].caller
    BY <1>4, <2>1, SettleEffect
  <2>3. None \notin Calls
    BY ClientAssumption DEF ClientAssumption
  <2>4. CallOK(d) /\ d \in Live \ {c}
    BY <1>0, <2>2
  <2>5. calls'[d].next \in 1..(Len(Deps[calls[d].token]) + 1)
    BY <2>2, <2>4 DEF CallOK
  <2>6. ASSUME calls'[d].caller \in Calls
        PROVE  /\ calls'[d].caller = calls[d].caller
               /\ calls[d].caller \in Live'
               /\ calls'[calls[d].caller].token = calls[calls[d].caller].token
    <3>1. calls'[d].caller = calls[d].caller /\ calls[d].caller # c
      BY <2>2, <2>3, <2>4, <2>6
    <3>2. calls[d].caller \in Live \ {c}
      BY <2>4, <2>6, <3>1 DEF CallOK
    <3>. QED  BY <2>2, <3>1, <3>2
  <2>. QED  BY <2>2, <2>4, <2>5, <2>6, CallOKKept
<1>5. ASSUME NEW c \in Calls, Complete(c) \/ Fail(c)
      PROVE  c \in Live /\ \E res \in ResultType : Settle(c, res)
  BY <1>5, SettlingEffect
<1>6. CASE UNCHANGED vars
  BY <1>0, <1>6 DEF vars, CallOK, Live
<1>. QED  BY <1>1, <1>2, <1>3, <1>4, <1>5, <1>6 DEF Next

-----------------------------------------------------------------------------
(* `resolving` is what is in flight.                                       *)

LEMMA InFlightStep == TypeOK /\ CallsOK /\ ResolvingIsInFlight /\ [Next]_vars => ResolvingIsInFlight'
<1>. SUFFICES ASSUME TypeOK, CallsOK, ResolvingIsInFlight, [Next]_vars
              PROVE  ResolvingIsInFlight'
  OBVIOUS
<1>. USE DEF ResolvingIsInFlight
\* A new call for a token that was not refused: the token was not in flight.
<1>1. ASSUME NEW t \in Tokens, t \notin resolving, NEW n \in Calls \ Live,
             Live' = Live \cup {n}, calls'[n].token = t,
             \A e \in Live : calls'[e].token = calls[e].token,
             resolving' = resolving \cup {t}
      PROVE  ResolvingIsInFlight'
  BY <1>1
<1>2. ASSUME Live' = Live, \A e \in Live : calls'[e].token = calls[e].token,
             resolving' = resolving
      PROVE  ResolvingIsInFlight'
  BY <1>2
<1>3. ASSUME NEW k \in Clients, NEW t \in Tokens, Ask(k, t) PROVE ResolvingIsInFlight'
  <2>1. CASE Answered(t, k, CtxOf[k])
    BY <1>3, <2>1, <1>2 DEF Ask, Live
  <2>2. CASE ~Answered(t, k, CtxOf[k])
    <3>1. t \notin resolving
      BY <2>2 DEF Answered, Refused
    <3>2. PICK n \in Calls \ Live :
            /\ Live' = Live \cup {n}
            /\ \A e \in Live : calls'[e] = calls[e]
            /\ calls'[n] = NewCall(t, k, 0, k, CtxOf[k])
            /\ resolving' = resolving \cup {t}
      BY <1>3, <2>2, AskBuildsEffect
    <3>3. calls'[n].token = t
      BY <3>2, NewCallFields
    <3>. QED  BY <1>1, <3>1, <3>2, <3>3
  <2>. QED  BY <2>1, <2>2
<1>4. ASSUME NEW c \in Calls, Inject(c) PROVE ResolvingIsInFlight'
  <2>0. c \in Live /\ calls[c] \in CallType
    BY <1>4 DEF Inject, Live, TypeOK
  <2>1. CASE Answered(Dep(c), calls[c].client, NoContext)
    <3>1. Live' = Live /\ \A e \in Live : calls'[e].token = calls[e].token
      BY <1>4, <2>1, InjectAnsweredEffect
    <3>2. resolving' = resolving
      BY <1>4, <2>1 DEF Inject
    <3>. QED  BY <1>2, <3>1, <3>2
  <2>2. CASE ~Answered(Dep(c), calls[c].client, NoContext)
    <3>1. Dep(c) \notin resolving
      BY <2>2 DEF Answered, Refused
    <3>2. PICK n \in Calls \ Live :
         /\ Live' = Live \cup {n}
         /\ \A d \in Live \ {c} : calls'[d] = calls[d]
         /\ calls'[c] = [calls[c] EXCEPT !.next = calls[c].next + 1,
                                        !.waiting = calls[c].waiting \cup {calls[c].next}]
         /\ calls'[n] = NewCall(Dep(c), c, calls[c].next, calls[c].client, NoContext)
         /\ resolving' = resolving \cup {Dep(c)}
      BY <1>4, <2>2, InjectBuildsEffect
    <3>3. calls'[n].token = Dep(c) /\ calls'[c].token = calls[c].token
      BY <2>0, <3>2, NewCallFields DEF CallType
    <3>4. Dep(c) \in Tokens
      BY <1>4, <2>0, LenType, DepType DEF Dep, Inject, MayInject, Invoked, CallsOK
    <3>5. \A e \in Live : calls'[e].token = calls[e].token
      BY <3>2, <3>3
    <3>. HIDE DEF ResolvingIsInFlight
    <3>. QED  BY <1>1, <3>1, <3>2, <3>3, <3>4, <3>5
  <2>. QED  BY <2>1, <2>2
<1>5. ASSUME NEW c \in Calls, Complete(c) \/ Fail(c) PROVE ResolvingIsInFlight'
  <2>1. /\ c \in Live /\ calls[c].token \in Tokens
        /\ resolving' = resolving \ {calls[c].token}
        /\ \E res \in ResultType : Settle(c, res)
    BY <1>5, SettlingEffect
  <2>2. Live' = Live \ {c} /\ \A e \in Live \ {c} : calls'[e].token = calls[e].token
    BY <2>1, SettleEffect
  <2>. QED  BY <2>1, <2>2
<1>6. CASE Clear \/ \E k \in Clients : EndRequest(k)
  <2>1. Live' = Live /\ \A e \in Live : calls'[e].token = calls[e].token
    BY <1>6, DropEffect DEF Same
  <2>2. resolving' = resolving
    BY <1>6 DEF Clear, EndRequest
  <2>. QED  BY <1>2, <2>1, <2>2
<1>7. CASE UNCHANGED vars
  BY <1>7, <1>2 DEF vars, Live
<1>. QED  BY <1>3, <1>4, <1>5, <1>6, <1>7 DEF Next

-----------------------------------------------------------------------------
(* What is in store was made, and a singleton that was made is in store.   *)

\* Only Complete makes and stores anything.
LEMMA StoreUnchanged ==
  ASSUME Next, ~\E c \in Calls : Complete(c)
  PROVE  made' = made /\ (Clear \/ (singletons' = singletons /\ providers' = providers))
<1>1. ASSUME NEW k \in Clients, NEW t \in Tokens, Ask(k, t)
      PROVE  UNCHANGED <<made, singletons, providers>>
  BY <1>1 DEF Ask, Build
<1>2. ASSUME NEW c \in Calls, Inject(c)
      PROVE  UNCHANGED <<made, singletons, providers>>
  BY <1>2 DEF Inject, Build
<1>3. ASSUME NEW c \in Calls, Fail(c)
      PROVE  UNCHANGED <<made, singletons, providers>>
  BY <1>3 DEF Fail
<1>4. ASSUME NEW k \in Clients, EndRequest(k)
      PROVE  UNCHANGED <<made, singletons, providers>>
  BY <1>4 DEF EndRequest
<1>5. Clear => made' = made
  BY DEF Clear
<1>. QED  BY <1>1, <1>2, <1>3, <1>4, <1>5 DEF Next

LEMMA StoredStep == TypeOK /\ CallsOK /\ StoredWasMade /\ [Next]_vars => StoredWasMade'
<1>. SUFFICES ASSUME TypeOK, CallsOK, StoredWasMade, [Next]_vars PROVE StoredWasMade'
  OBVIOUS
<1>1. CASE UNCHANGED vars
  BY <1>1 DEF vars, StoredWasMade
<1>2. ASSUME NEW c \in Calls, Complete(c) PROVE StoredWasMade'
  <2>. DEFINE t == calls[c].token
  <2>1. c \in Live /\ t \in Tokens /\ calls[c].ctx \in ContextIds \cup {NoContext}
        /\ calls[c].client \in Clients
    BY <1>2 DEF Complete, Ready, Live, CallsOK, TypeOK, CallType
  <2>2. made' = [made EXCEPT ![t] = made[t] + 1] /\ Store(c, Product(c))
    BY <1>2 DEF Complete
  <2>3. made'[t] > 0 /\ \A u \in Tokens : made[u] > 0 => made'[u] > 0
    BY <2>1, <2>2 DEF TypeOK
  <2>4. ASSUME NEW u \in Tokens, singletons'[u] # None PROVE made'[u] > 0
    BY <2>1, <2>2, <2>3, <2>4 DEF Store, StoredWasMade, TypeOK
  <2>5. ASSUME NEW u \in Tokens, NEW k \in Clients, requestInstances'[k][u] # None
        PROVE  made'[u] > 0
    BY <2>1, <2>2, <2>3, <2>5 DEF Store, StoredWasMade, TypeOK
  <2>6. ASSUME NEW u \in Tokens, NEW id \in ContextIds, contextCache'[id][u] # None
        PROVE  made'[u] > 0
    BY <2>1, <2>2, <2>3, <2>6 DEF Store, StoredWasMade, TypeOK
  <2>. QED  BY <2>4, <2>5, <2>6 DEF StoredWasMade
<1>3. ASSUME NEW k \in Clients, EndRequest(k) PROVE StoredWasMade'
  <2>1. ASSUME NEW id \in ContextIds, NEW u \in Tokens
        PROVE  contextCache'[id][u] \in {None, contextCache[id][u]}
    BY <1>3 DEF EndRequest, DropContext, TypeOK
  <2>. QED  BY <1>3, <2>1 DEF EndRequest, StoredWasMade
<1>4. CASE Clear
  BY <1>4 DEF Clear, StoredWasMade
<1>5. ASSUME UNCHANGED <<singletons, requestInstances, contextCache, made>>
      PROVE  StoredWasMade'
  BY <1>5 DEF StoredWasMade
<1>6. ASSUME NEW k \in Clients, NEW t \in Tokens, Ask(k, t) PROVE StoredWasMade'
  BY <1>5, <1>6 DEF Ask, Build
<1>7. ASSUME NEW c \in Calls, Inject(c) PROVE StoredWasMade'
  BY <1>5, <1>7 DEF Inject, Build
<1>8. ASSUME NEW c \in Calls, Fail(c) PROVE StoredWasMade'
  BY <1>5, <1>8 DEF Fail
<1>. QED  BY <1>1, <1>2, <1>3, <1>4, <1>6, <1>7, <1>8 DEF Next

\* What an answer says of the token that was asked for.
LEMMA AnswerWasMade ==
  ASSUME TypeOK, StoredWasMade, NEW t \in Tokens, NEW k \in Clients, NEW id \in ContextIds \cup {NoContext},
         Answered(t, k, id), Answer(t, k, id).kind = "value"
  PROVE  made[t] > 0 /\ Answer(t, k, id).inst # None
<1>1. Refused(t, k) = "no" /\ Answer(t, k, id).inst = Cached(t, k, id) /\ Cached(t, k, id) # None
  BY DEF Answer, Answered, Failure, Value, Refused
<1>2. made[t] > 0
  BY <1>1, GraphAssumption DEF Cached, StoredWasMade, GraphAssumption
<1>. QED  BY <1>1, <1>2

-----------------------------------------------------------------------------
(* DepsArrive: a call is ready only when its dependencies were made.       *)

\* DepsArrive of one call.
DepsOK(c) ==
  calls[c].failed = "no" =>
    LET f == calls[c] IN
    /\ \A i \in 1..(f.next - 1) :
         i \in f.waiting \/ LeftOut(f.token, i) \/ made[Deps[f.token][i]] > 0
    /\ Kind[f.token] = "existing" /\ f.next > 1 /\ f.waiting = {} => f.val # None

\* A call that a step leaves at the same stage.
LEMMA DepsOKKept ==
  ASSUME NEW d, DepsOK(d), calls'[d].token = calls[d].token,
         calls[d].token \in Tokens, calls[d].next \in 1..(Len(Deps[calls[d].token]) + 1),
         calls'[d].next = calls[d].next, calls'[d].waiting = calls[d].waiting,
         calls'[d].val = calls[d].val, calls'[d].failed = calls[d].failed,
         \A u \in Tokens : made[u] > 0 => made'[u] > 0
  PROVE  DepsOK(d)'
<1>1. ASSUME NEW i \in 1..(calls[d].next - 1) PROVE Deps[calls[d].token][i] \in Tokens
  BY LenType, DepType
<1>. QED  BY <1>1 DEF DepsOK

\* The history only grows.
LEMMA MadeGrows ==
  ASSUME TypeOK, CallsOK, [Next]_vars PROVE \A u \in Tokens : made[u] > 0 => made'[u] > 0
<1>1. ASSUME NEW c \in Calls, Complete(c) PROVE \A u \in Tokens : made[u] > 0 => made'[u] > 0
  <2>1. calls[c].token \in Tokens /\ made' = [made EXCEPT ![calls[c].token] = made[calls[c].token] + 1]
    BY <1>1 DEF Complete, Ready, Live, CallsOK
  <2>. QED  BY <2>1 DEF TypeOK
<1>2. CASE UNCHANGED vars
  BY <1>2 DEF vars
<1>3. CASE Next /\ ~\E c \in Calls : Complete(c)
  BY <1>3, StoreUnchanged
<1>. QED  BY <1>1, <1>2, <1>3

\* A token that lasts has a provider that lasts, and so has all that it needs.
LEMMA PresentLasts ==
  ASSUME NEW t \in Present
  PROVE  /\ t \in Registered /\ Home[t] # Root
         /\ \A i \in 1..Len(Deps[t]) : Deps[t][i] \in Present \/ Skippable(t, i)
<1>1. PICK F \in SUBSET Tokens : t \in F /\ Lasting(F)
  BY DEF Present
<1>2. F \subseteq Present
  BY <1>1 DEF Present
<1>. QED  BY <1>1, <1>2 DEF Lasting

\* What is told not to be found at once is not among what lasts.
LEMMA AnswerNotFound ==
  ASSUME LastingIsFound, NEW t \in Tokens, NEW k \in Clients, NEW id,
         Answer(t, k, id).kind = "notfound"
  PROVE  t \notin Present
<1>1. Refused(t, k) = "notfound"
  BY DEF Answer, Value, Failure
<1>2. t \notin providers
  BY <1>1 DEF Refused
<1>. QED  BY <1>2 DEF LastingIsFound

\* Only clear() takes providers away, and only those of the root container.
LEMMA ProvidersStep ==
  ASSUME TypeOK, [Next]_vars
  PROVE  \A t \in providers : Home[t] # Root => t \in providers'
<1>1. CASE Clear
  BY <1>1 DEF Clear
<1>2. ASSUME NEW k \in Clients, NEW t \in Tokens, Ask(k, t) PROVE providers' = providers
  BY <1>2 DEF Ask, Build
<1>3. ASSUME NEW c \in Calls, Inject(c) PROVE providers' = providers
  BY <1>3 DEF Inject, Build
<1>4. ASSUME NEW c \in Calls, Complete(c) \/ Fail(c) PROVE providers' = providers
  BY <1>4 DEF Complete, Fail
<1>5. ASSUME NEW k \in Clients, EndRequest(k) PROVE providers' = providers
  BY <1>5 DEF EndRequest
<1>6. CASE UNCHANGED vars
  BY <1>6 DEF vars
<1>. QED  BY <1>1, <1>2, <1>3, <1>4, <1>5, <1>6 DEF Next

\* A token that lasts is not told, through any chain of calls, not to be found.
LEMMA LastingStep == TypeOK /\ CallsOK /\ LastingIsFound /\ [Next]_vars => LastingIsFound'
<1>. SUFFICES ASSUME TypeOK, CallsOK, LastingIsFound, [Next]_vars PROVE LastingIsFound'
  OBVIOUS
<1>. DEFINE Found(d) == calls[d].token \in Present => calls[d].failed # "notfound"
<1>0. \A d \in Live : Found(d) /\ d \in Calls
  BY DEF LastingIsFound, Live
<1>1. Present \subseteq providers'
  BY PresentLasts, ProvidersStep DEF LastingIsFound
<1>. SUFFICES ASSUME NEW d \in Live' PROVE Found(d)'
  BY <1>1 DEF LastingIsFound
<1>2. ASSUME d \in Live, calls'[d].token = calls[d].token, calls'[d].failed = calls[d].failed
      PROVE  Found(d)'
  BY <1>0, <1>2
<1>3. ASSUME NEW t, NEW caller, NEW slot, NEW k, NEW id,
             calls'[d] = NewCall(t, caller, slot, k, id)
      PROVE  Found(d)'
  BY <1>3, NewCallFields
\* Call p, which lasts, has a slot whose token does not last: it is an optional field.
<1>4. ASSUME NEW p \in Live, calls'[p].token = calls[p].token,
             NEW i \in 1..Len(Deps[calls[p].token]), NEW kind,
             kind = "notfound" => Deps[calls[p].token][i] \notin Present,
             calls'[p].failed = "notfound" =>
               \/ calls[p].failed = "notfound"
               \/ kind = "notfound" /\ ~Skippable(calls[p].token, i)
      PROVE  Found(p)'
  BY <1>0, <1>4, PresentLasts
<1>5. ASSUME NEW k \in Clients, NEW t \in Tokens, Ask(k, t) PROVE Found(d)'
  <2>1. CASE Answered(t, k, CtxOf[k])
    BY <1>2, <1>5, <2>1 DEF Ask, Live
  <2>2. CASE ~Answered(t, k, CtxOf[k])
    BY <1>2, <1>3, <1>5, <2>2, AskBuildsEffect
  <2>. QED  BY <2>1, <2>2
<1>6. CASE Clear \/ \E k \in Clients : EndRequest(k)
  BY <1>2, <1>6, DropEffect DEF Same
<1>7. CASE UNCHANGED vars
  BY <1>2, <1>7 DEF vars, Live
<1>8. ASSUME NEW c \in Calls, Inject(c) PROVE Found(d)'
  <2>. DEFINE f == calls[c]
              res == Answer(Dep(c), f.client, NoContext)
  <2>1. /\ c \in Live /\ f.token \in Tokens /\ f.client \in Clients /\ f \in CallType
        /\ f.next \in 1..Len(Deps[f.token]) /\ Dep(c) = Deps[f.token][f.next]
    BY <1>8, LenType DEF Inject, MayInject, Invoked, CallsOK, Live, TypeOK, Dep
  <2>2. Dep(c) \in Tokens
    BY <2>1, DepType
  <2>3. CASE Answered(Dep(c), f.client, NoContext)
    <3>1. /\ Live' = Live
          /\ \A e \in Live \ {c} : calls'[e] = calls[e]
          /\ calls'[c].token = f.token
          /\ calls'[c].failed = "notfound" =>
               f.failed = "notfound" \/ (res.kind = "notfound" /\ ~Skippable(f.token, f.next))
      BY <1>8, <2>3, InjectAnsweredEffect
    <3>2. res.kind = "notfound" => Dep(c) \notin Present
      BY <2>1, <2>2, AnswerNotFound
    <3>. HIDE DEF Found, res
    <3>. QED  BY <1>2, <1>4, <2>1, <3>1, <3>2
  <2>4. CASE ~Answered(Dep(c), f.client, NoContext)
    <3>1. PICK n \in Calls \ Live :
         /\ Live' = Live \cup {n}
         /\ \A e \in Live \ {c} : calls'[e] = calls[e]
         /\ calls'[c] = [calls[c] EXCEPT !.next = calls[c].next + 1,
                                        !.waiting = calls[c].waiting \cup {calls[c].next}]
         /\ calls'[n] = NewCall(Dep(c), c, calls[c].next, calls[c].client, NoContext)
      BY <1>8, <2>4, InjectBuildsEffect
    <3>2. calls'[c].token = f.token /\ calls'[c].failed = f.failed
      BY <2>1, <3>1 DEF CallType
    <3>. HIDE DEF Found
    <3>3. CASE d = n
      BY <1>3, <3>1, <3>3
    <3>4. CASE d \in Live
      BY <1>2, <3>1, <3>2, <3>4
    <3>. QED  BY <3>1, <3>3, <3>4
  <2>. QED  BY <2>3, <2>4
<1>9. ASSUME NEW c \in Calls, Complete(c) \/ Fail(c) PROVE Found(d)'
  <2>1. c \in Live /\ calls[c].token \in Tokens
    BY <1>9, SettlingEffect
  <2>2. PICK res \in ResultType :
          Settle(c, res) /\ (res.kind = "notfound" => calls[c].failed = "notfound")
    BY <1>9, SettlingEffect
  <2>. DEFINE p == calls[c].caller
  <2>3. /\ d \in Live \ {c} /\ calls'[d].token = calls[d].token
        /\ d # p => calls'[d].failed = calls[d].failed
        /\ d = p /\ calls'[d].failed = "notfound" =>
             \/ calls[d].failed = "notfound"
             \/ res.kind = "notfound" /\ ~Skippable(calls[d].token, calls[c].slot)
    BY <2>1, <2>2, SettleEffect
  <2>4. CASE d # p
    BY <1>2, <2>3, <2>4
  <2>5. CASE d = p
    <3>1. /\ calls[c].slot \in 1..Len(Deps[calls[d].token])
          /\ calls[c].token = Deps[calls[d].token][calls[c].slot]
      BY <1>0, <2>1, <2>3, <2>5 DEF CallsOK
    <3>2. res.kind = "notfound" => calls[c].token \notin Present
      BY <1>0, <2>1, <2>2
    <3>. HIDE DEF Found
    <3>. QED  BY <1>4, <2>3, <2>5, <3>1, <3>2
  <2>. QED  BY <2>4, <2>5
<1>. QED  BY <1>5, <1>6, <1>7, <1>8, <1>9 DEF Next

LEMMA DepsStep ==
  /\ TypeOK /\ CallsOK /\ StoredWasMade /\ LastingIsFound /\ DepsArrive /\ [Next]_vars
  => DepsArrive'
<1>. SUFFICES ASSUME TypeOK, CallsOK, StoredWasMade, LastingIsFound, DepsArrive, [Next]_vars
              PROVE  DepsArrive'
  OBVIOUS
<1>0. \A d \in Live : /\ DepsOK(d) /\ d \in Calls /\ calls[d].token \in Tokens
                      /\ calls[d].next \in 1..(Len(Deps[calls[d].token]) + 1)
  BY DEF DepsArrive, DepsOK, Live, CallsOK
<1>98. \A u \in Tokens : made[u] > 0 => made'[u] > 0
  BY MadeGrows
<1>. SUFFICES ASSUME NEW d \in Live' PROVE DepsOK(d)'
  BY DEF DepsArrive, DepsOK
\* A call that has just started has asked for nothing.
<1>99. ASSUME NEW t, NEW caller, NEW slot, NEW k, NEW id,
             calls'[d] = NewCall(t, caller, slot, k, id)
      PROVE  DepsOK(d)'
  BY <1>99, NewCallFields DEF DepsOK
<1>1. ASSUME NEW k \in Clients, NEW t \in Tokens, Ask(k, t) PROVE DepsOK(d)'
  <2>1. CASE Answered(t, k, CtxOf[k])
    BY <1>0, <1>98, <1>1, <2>1, DepsOKKept DEF Ask, Live
  <2>2. CASE ~Answered(t, k, CtxOf[k])
    BY <1>0, <1>98, <1>99, <1>1, <2>2, AskBuildsEffect, DepsOKKept
  <2>. QED  BY <2>1, <2>2
<1>2. CASE Clear \/ \E k \in Clients : EndRequest(k)
  BY <1>0, <1>98, <1>2, DropEffect, DepsOKKept DEF Same
<1>3. CASE UNCHANGED vars
  BY <1>0, <1>98, <1>3, DepsOKKept DEF vars, Live
<1>4. ASSUME NEW c \in Calls, Inject(c) PROVE DepsOK(d)'
  <2>. DEFINE f == calls[c]
              g == calls'[c]
              res == Answer(Dep(c), f.client, NoContext)
  <2>1. /\ c \in Live /\ f.token \in Tokens /\ f.client \in Clients /\ f \in CallType
        /\ f.next \in 1..Len(Deps[f.token]) /\ Dep(c) = Deps[f.token][f.next]
    BY <1>4, LenType DEF Inject, MayInject, Invoked, CallsOK, Live, TypeOK, Dep
  <2>2. Dep(c) \in Tokens /\ f.next \in Nat
    BY <2>1, DepType, LenType
  <2>3. CASE Answered(Dep(c), f.client, NoContext)
    <3>1. /\ Live' = Live
          /\ \A e \in Live \ {c} : calls'[e] = calls[e]
          /\ g.token = f.token /\ g.next = f.next + 1
          /\ g.waiting = f.waiting \ {f.next}
          /\ g.val = IF res.kind = "value" THEN res.inst ELSE None
          /\ g.failed = "no" =>
               f.failed = "no" /\ (res.kind = "value" \/ Skipped(f.token, f.next, res))
      BY <1>4, <2>3, InjectAnsweredEffect
    <3>2. res.kind = "value" => made[Dep(c)] > 0 /\ res.inst # None
      BY <2>1, <2>2, <2>3, AnswerWasMade
    <3>21. Skipped(f.token, f.next, res) => LeftOut(f.token, f.next)
      BY <2>1, <2>2, <2>3, AnswerNotFound DEF Skipped, LeftOut
    <3>3. CASE d # c
      BY <1>0, <1>98, <3>1, <3>3, DepsOKKept
    <3>4. CASE d = c /\ g.failed = "no"
      <4>1. DepsOK(c) /\ f.failed = "no"
        BY <1>0, <2>1, <3>1, <3>4
      <4>. HIDE DEF g, f, res
      <4>2. ASSUME NEW i \in 1..(g.next - 1)
            PROVE  i \in g.waiting \/ LeftOut(g.token, i) \/ made'[Deps[g.token][i]] > 0
        <5>1. i \in 1..f.next
          BY <2>2, <3>1
        <5>2. CASE i = f.next
          BY <1>98, <2>1, <2>2, <3>1, <3>2, <3>21, <3>4, <5>2
        <5>3. CASE i # f.next
          <6>1. i \in 1..(f.next - 1) /\ Deps[f.token][i] \in Tokens
            BY <2>1, <5>1, <5>3, LenType, DepType
          <6>2. i \in f.waiting \/ LeftOut(f.token, i) \/ made[Deps[f.token][i]] > 0
            BY <4>1, <6>1 DEF DepsOK, f
          <6>. QED  BY <1>98, <3>1, <5>3, <6>1, <6>2
        <5>. QED  BY <5>2, <5>3
      <4>3. Kind[g.token] = "existing" => g.val # None
        BY <3>1, <3>2, <3>4 DEF Skipped, Skippable
      <4>. QED  BY <3>4, <4>2, <4>3 DEF DepsOK, g
    <3>5. CASE d = c /\ g.failed # "no"
      BY <3>5 DEF DepsOK
    <3>. QED  BY <3>3, <3>4, <3>5
  <2>4. CASE ~Answered(Dep(c), f.client, NoContext)
    <3>1. PICK n \in Calls \ Live :
         /\ Live' = Live \cup {n}
         /\ \A e \in Live \ {c} : calls'[e] = calls[e]
         /\ calls'[c] = [calls[c] EXCEPT !.next = calls[c].next + 1,
                                        !.waiting = calls[c].waiting \cup {calls[c].next}]
         /\ calls'[n] = NewCall(Dep(c), c, calls[c].next, calls[c].client, NoContext)
      BY <1>4, <2>4, InjectBuildsEffect
    <3>2. /\ g.token = f.token /\ g.next = f.next + 1 /\ g.waiting = f.waiting \cup {f.next}
          /\ g.failed = f.failed
      BY <2>1, <3>1 DEF CallType
    <3>3. CASE d = n
      BY <1>99, <3>1, <3>3
    <3>4. CASE d # n /\ d # c
      BY <1>0, <1>98, <3>1, <3>4, DepsOKKept
    <3>5. CASE d = c /\ g.failed = "no"
      <4>1. DepsOK(c)
        BY <1>0, <2>1
      <4>. HIDE DEF g, f
      <4>2. ASSUME NEW i \in 1..(g.next - 1)
            PROVE  i \in g.waiting \/ LeftOut(g.token, i) \/ made'[Deps[g.token][i]] > 0
        <5>1. i \in 1..f.next
          BY <2>2, <3>2
        <5>2. CASE i = f.next
          BY <3>2, <5>2
        <5>3. CASE i # f.next
          <6>1. i \in 1..(f.next - 1) /\ Deps[f.token][i] \in Tokens
            BY <2>1, <5>1, <5>3, LenType, DepType
          <6>2. i \in f.waiting \/ LeftOut(f.token, i) \/ made[Deps[f.token][i]] > 0
            BY <3>2, <3>5, <4>1, <6>1 DEF DepsOK, f
          <6>. QED  BY <1>98, <3>2, <6>1, <6>2
        <5>. QED  BY <5>2, <5>3
      <4>3. g.waiting # {}
        BY <3>2
      <4>. QED  BY <3>5, <4>2, <4>3 DEF DepsOK, g
    <3>6. CASE d = c /\ g.failed # "no"
      BY <3>6 DEF DepsOK
    <3>. QED  BY <3>3, <3>4, <3>5, <3>6
  <2>. QED  BY <2>3, <2>4
<1>5. ASSUME NEW c \in Calls, Complete(c) \/ Fail(c) PROVE DepsOK(d)'
  <2>1. /\ c \in Live /\ calls[c].token \in Tokens
    BY <1>5, SettlingEffect
  <2>2. PICK res \in ResultType :
          /\ Settle(c, res)
          /\ res.kind = "value" => Complete(c) /\ res.inst = Product(c)
          /\ res.kind = "notfound" => calls[c].failed = "notfound"
    BY <1>5, SettlingEffect
  <2>. DEFINE p == calls[c].caller
              f == calls[d]
              g == calls'[d]
  <2>3. /\ d \in Live \ {c}
        /\ g.token = f.token /\ g.next = f.next
        /\ d # p => g.waiting = f.waiting /\ g.val = f.val /\ g.failed = f.failed
        /\ d = p =>
             /\ g.waiting = f.waiting \ {calls[c].slot}
             /\ g.val = IF res.kind = "value" THEN res.inst ELSE None
             /\ g.failed = "no" =>
                  f.failed = "no" /\ (res.kind = "value" \/ Skipped(f.token, calls[c].slot, res))
    BY <2>1, <2>2, SettleEffect
  <2>4. CASE d # p
    BY <1>0, <1>98, <2>3, <2>4, DepsOKKept
  <2>5. CASE d = p /\ g.failed = "no"
    <3>1. /\ DepsOK(d) /\ f.token \in Tokens /\ f.failed = "no"
          /\ f.next \in 1..(Len(Deps[f.token]) + 1)
      BY <1>0, <2>3, <2>5
    \* The settled call was in the slot it was asked for.
    <3>2. calls[c].slot \in 1..Len(Deps[f.token]) /\ calls[c].token = Deps[f.token][calls[c].slot]
      BY <1>0, <2>1, <2>3, <2>5 DEF CallsOK
    <3>3. res.kind = "value" => made'[calls[c].token] > 0 /\ res.inst # None
      <4>1. ASSUME Complete(c)
            PROVE  made'[calls[c].token] > 0 /\ Product(c) # None
        <5>1. made'[calls[c].token] > 0
          BY <2>1, <4>1 DEF Complete, TypeOK
        <5>2. CASE Kind[calls[c].token] = "existing"
          <6>1. Len(Deps[calls[c].token]) = 1
            BY <2>1, <5>2, GraphAssumption DEF GraphAssumption
          <6>2. calls[c].next > 1 /\ calls[c].waiting = {} /\ calls[c].failed = "no"
            BY <1>0, <2>1, <4>1, <6>1 DEF Complete, Ready, Invoked
          <6>. QED  BY <1>0, <2>1, <5>1, <5>2, <6>2 DEF DepsOK, Product
        <5>3. CASE Kind[calls[c].token] # "existing"
          <6>1. Product(c) \in Tokens \X Nat
            BY <2>1, <5>3 DEF Product, TypeOK
          <6>. QED  BY <5>1, <6>1, ClientAssumption DEF ClientAssumption
        <5>. QED  BY <5>2, <5>3
      <4>. QED  BY <2>2, <4>1
    <3>31. Skipped(f.token, calls[c].slot, res) => LeftOut(f.token, calls[c].slot)
      BY <2>1, <2>2, <3>2 DEF Skipped, LeftOut, LastingIsFound
    <3>. HIDE DEF f, g
    <3>4. ASSUME NEW i \in 1..(g.next - 1)
          PROVE  i \in g.waiting \/ LeftOut(g.token, i) \/ made'[Deps[g.token][i]] > 0
      <4>1. i \in 1..(f.next - 1) /\ Deps[f.token][i] \in Tokens
        BY <2>3, <3>1, LenType, DepType
      <4>2. i \in f.waiting \/ LeftOut(f.token, i) \/ made[Deps[f.token][i]] > 0
        BY <3>1, <4>1 DEF DepsOK, f
      <4>3. CASE i = calls[c].slot
        BY <2>3, <2>5, <3>2, <3>3, <3>31, <4>3
      <4>4. CASE i # calls[c].slot
        BY <1>98, <2>3, <2>5, <4>1, <4>2, <4>4
      <4>. QED  BY <4>3, <4>4
    <3>5. Kind[g.token] = "existing" => g.val # None
      BY <2>3, <2>5, <3>3 DEF Skipped, Skippable
    <3>. QED  BY <3>4, <3>5 DEF DepsOK, g
  <2>6. CASE d = p /\ g.failed # "no"
    BY <2>6 DEF DepsOK
  <2>. QED  BY <2>4, <2>5, <2>6
<1>. QED  BY <1>1, <1>2, <1>3, <1>4, <1>5 DEF Next

-----------------------------------------------------------------------------
(* Singletons are built once, cycles never.                                *)

LEMMA MadeStep ==
  /\ TypeOK /\ CallsOK /\ ResolvingIsInFlight /\ StoredWasMade /\ DepsArrive /\ MadeIsStored
  /\ [Next]_vars
  => MadeIsStored'
<1>. SUFFICES ASSUME TypeOK, CallsOK, ResolvingIsInFlight, StoredWasMade, DepsArrive,
                     MadeIsStored, [Next]_vars
              PROVE  MadeIsStored'
  OBVIOUS
<1>1. CASE UNCHANGED vars
  BY <1>1 DEF vars, MadeIsStored
<1>2. CASE Clear
  <2>1. \A u \in Tokens : u \in providers' => u \in providers /\ singletons'[u] = singletons[u]
    BY <1>2 DEF Clear
  <2>. QED  BY <1>2, <2>1 DEF Clear, MadeIsStored
<1>3. ASSUME NEW t \in Tokens, NEW k \in Clients, NEW id \in ContextIds \cup {NoContext},
             ~Answered(t, k, id), resolving' = resolving \cup {t},
             UNCHANGED <<made, singletons, providers>>
      PROVE  MadeIsStored'
  \* A singleton with an instance, or without a provider, would have been answered.
  <2>1. Mode[t] = "singleton" => ~(made[t] > 0)
    BY <1>3 DEF Answered, Refused, Cached, MadeIsStored
  <2>. QED  BY <1>3, <2>1 DEF MadeIsStored
<1>4. ASSUME UNCHANGED <<made, singletons, providers>>, resolving' \subseteq resolving
      PROVE  MadeIsStored'
  BY <1>4 DEF MadeIsStored
<1>5. ASSUME NEW k \in Clients, NEW t \in Tokens, Ask(k, t) PROVE MadeIsStored'
  <2>1. CtxOf[k] \in ContextIds \cup {NoContext}
    BY ClientAssumption DEF ClientAssumption
  <2>2. CASE Answered(t, k, CtxOf[k])
    BY <1>4, <1>5, <2>2 DEF Ask
  <2>3. CASE ~Answered(t, k, CtxOf[k])
    BY <1>3, <1>5, <2>1, <2>3 DEF Ask, Build
  <2>. QED  BY <2>2, <2>3
<1>6. ASSUME NEW c \in Calls, Inject(c) PROVE MadeIsStored'
  <2>1. calls[c].client \in Clients /\ Dep(c) \in Tokens
    BY <1>6, LenType, DepType DEF Inject, MayInject, Invoked, CallsOK, Live, Dep
  <2>2. CASE Answered(Dep(c), calls[c].client, NoContext)
    BY <1>4, <1>6, <2>2 DEF Inject
  <2>3. CASE ~Answered(Dep(c), calls[c].client, NoContext)
    <3>1. Build(Dep(c), NoContext)
      BY <1>6, <2>3 DEF Inject
    <3>2. /\ resolving' = resolving \cup {Dep(c)}
          /\ UNCHANGED <<made, singletons, providers>>
      BY <3>1 DEF Build
    <3>. QED  BY <1>3, <2>1, <2>3, <3>2
  <2>. QED  BY <2>2, <2>3
<1>7. ASSUME NEW k \in Clients, EndRequest(k) PROVE MadeIsStored'
  BY <1>4, <1>7 DEF EndRequest
<1>8. ASSUME NEW c \in Calls, Fail(c) PROVE MadeIsStored'
  BY <1>4, <1>8 DEF Fail, Leave
<1>9. ASSUME NEW c \in Calls, Complete(c) PROVE MadeIsStored'
  <2>. DEFINE t == calls[c].token
  <2>1. c \in Live /\ t \in Tokens /\ t \in resolving
    BY <1>9 DEF Complete, Ready, Live, CallsOK, ResolvingIsInFlight
  <2>2. /\ made' = [made EXCEPT ![t] = made[t] + 1] /\ resolving' = resolving \ {t}
        /\ providers' = providers
        /\ singletons' = IF Mode[t] = "singleton"
                         THEN [singletons EXCEPT ![t] = Product(c)] ELSE singletons
    BY <1>9 DEF Complete, Store, Leave
  <2>3. Product(c) # None
    <3>1. CASE Kind[t] = "existing"
      <4>1. Len(Deps[t]) = 1
        BY <2>1, <3>1, GraphAssumption DEF GraphAssumption
      <4>2. calls[c].next > 1 /\ calls[c].waiting = {} /\ calls[c].failed = "no"
        BY <1>9, <2>1, <4>1 DEF Complete, Ready, Invoked, CallsOK
      <4>. QED  BY <2>1, <3>1, <4>2 DEF DepsArrive, Product
    <3>2. CASE Kind[t] # "existing"
      <4>1. Product(c) \in Tokens \X Nat
        BY <2>1, <3>2 DEF Product, TypeOK
      <4>. QED  BY <4>1, ClientAssumption DEF ClientAssumption
    <3>. QED  BY <3>1, <3>2
  <2>4. Mode[t] = "singleton" => made[t] = 0
    BY <2>1 DEF MadeIsStored, TypeOK
  <2>. HIDE DEF t
  <2>5. ASSUME NEW u \in Tokens, Mode[u] = "singleton", made'[u] > 0
        PROVE  made'[u] = 1 /\ u \notin resolving' /\ (singletons'[u] # None \/ u \notin providers')
    <3>1. CASE u = t
      BY <2>1, <2>2, <2>3, <2>4, <2>5, <3>1 DEF TypeOK
    <3>2. CASE u # t
      BY <2>1, <2>2, <2>5, <3>2 DEF TypeOK, MadeIsStored
    <3>. QED  BY <3>1, <3>2
  <2>. QED  BY <2>5 DEF MadeIsStored
<1>. QED  BY <1>1, <1>2, <1>5, <1>6, <1>7, <1>8, <1>9 DEF Next

\* Nothing on a cycle, or in need of one, is ever completed.
LEMMA CycleStep ==
  TypeOK /\ CallsOK /\ DepsArrive /\ CycleNeverMade /\ [Next]_vars => CycleNeverMade'
<1>. SUFFICES ASSUME TypeOK, CallsOK, DepsArrive, CycleNeverMade, [Next]_vars, NEW t \in Cyclic
              PROVE  made'[t] = 0
  BY DEF CycleNeverMade
<1>0. made[t] = 0 /\ t \in Tokens
  BY DEF CycleNeverMade, Cyclic
<1>1. ASSUME NEW c \in Calls, Complete(c) PROVE made'[t] = 0
  <2>1. c \in Live /\ calls[c].token \in Tokens /\ Ready(c)
        /\ made' = [made EXCEPT ![calls[c].token] = made[calls[c].token] + 1]
    BY <1>1 DEF Complete, Ready, Live, CallsOK
  \* Had t been ready, it would have been given the dependency it has on a cycle.
  <2>2. calls[c].token # t
    <3>1. SUFFICES ASSUME calls[c].token = t PROVE FALSE
      OBVIOUS
    <3>2. PICK S \in SUBSET Tokens : t \in S /\ Unfounded(S)
      BY DEF Cyclic
    <3>3. PICK i \in 1..Len(Deps[t]) : Deps[t][i] \in S /\ ~LeftOut(t, i)
      BY <3>2 DEF Unfounded
    <3>4. i \in 1..(calls[c].next - 1) /\ calls[c].waiting = {} /\ calls[c].failed = "no"
      BY <2>1, <3>1, LenType DEF Ready, Invoked, CallsOK
    <3>5. made[Deps[t][i]] > 0
      BY <2>1, <3>1, <3>3, <3>4 DEF DepsArrive
    <3>6. Deps[t][i] \in Cyclic
      BY <3>2, <3>3 DEF Cyclic
    <3>. QED  BY <3>5, <3>6 DEF CycleNeverMade
  <2>. QED  BY <1>0, <2>1, <2>2 DEF TypeOK
<1>2. CASE UNCHANGED vars
  BY <1>0, <1>2 DEF vars
<1>3. CASE Next /\ ~\E c \in Calls : Complete(c)
  BY <1>0, <1>3, StoreUnchanged
<1>. QED  BY <1>1, <1>2, <1>3

\* A client is given what was made.
LEMMA AnswersStep ==
  TypeOK /\ CallsOK /\ StoredWasMade /\ AnswersWereMade /\ [Next]_vars => AnswersWereMade'
<1>. SUFFICES ASSUME TypeOK, CallsOK, StoredWasMade, AnswersWereMade, [Next]_vars,
                     NEW k \in Clients, NEW t \in Tokens,
                     clients'[k].token = t, clients'[k].res.kind = "value"
              PROVE  made'[t] > 0
  BY DEF AnswersWereMade
<1>0. clients[k] \in ClientType
  BY DEF TypeOK
<1>1. ASSUME clients'[k].token = clients[k].token, clients'[k].res = clients[k].res
      PROVE  made'[t] > 0
  BY <1>1, MadeGrows DEF AnswersWereMade
<1>2. ASSUME NEW j \in Clients, NEW u \in Tokens, Ask(j, u) PROVE made'[t] > 0
  <2>1. CASE Answered(u, j, CtxOf[j])
    <3>. DEFINE r == Answer(u, j, CtxOf[j])
    <3>0. clients[j] \in ClientType /\ CtxOf[j] \in ContextIds \cup {NoContext}
      BY ClientAssumption DEF TypeOK, ClientAssumption
    <3>1. r.kind = "value" => made[u] > 0
      BY <2>1, <3>0, AnswerWasMade
    <3>. HIDE DEF r
    <3>2. clients' = [clients EXCEPT ![j] =
             [ClientReceive(clients[j], u, r) EXCEPT !.asks = clients[j].asks + 1]]
          /\ made' = made
      BY <1>2, <2>1 DEF Ask, r
    <3>3. CASE k = j
      <4>1. clients'[k] = [ClientReceive(clients[j], u, r) EXCEPT !.asks = clients[j].asks + 1]
        BY <3>2, <3>3 DEF TypeOK
      <4>2. clients'[k].token = u /\ clients'[k].res = r
        BY <3>0, <4>1 DEF ClientReceive, ClientType
      <4>. QED  BY <3>1, <3>2, <4>2
    <3>4. CASE k # j
      BY <1>1, <3>2, <3>4 DEF TypeOK
    <3>. QED  BY <3>3, <3>4
  <2>2. CASE ~Answered(u, j, CtxOf[j])
    <3>1. clients' = [clients EXCEPT ![j] =
             [clients[j] EXCEPT !.st = "waiting", !.asks = clients[j].asks + 1]]
      BY <1>2, <2>2 DEF Ask
    <3>. QED  BY <1>0, <1>1, <3>1 DEF TypeOK, ClientType
  <2>. QED  BY <2>1, <2>2
<1>3. ASSUME NEW j \in Clients, EndRequest(j) PROVE made'[t] > 0
  BY <1>0, <1>1, <1>3 DEF EndRequest, TypeOK, ClientType
<1>4. ASSUME NEW c \in Calls, Inject(c) PROVE made'[t] > 0
  BY <1>1, <1>4 DEF Inject
<1>5. ASSUME NEW c \in Calls, Complete(c) \/ Fail(c) PROVE made'[t] > 0
  <2>1. calls[c].token \in Tokens
    BY <1>5, SettlingEffect
  <2>2. PICK res \in ResultType : Settle(c, res) /\ (res.kind = "value" => Complete(c))
    BY <1>5, SettlingEffect
  <2>3. CASE k = calls[c].caller
    <3>1. clients'[k] = ClientReceive(clients[k], calls[c].token, res)
      BY <2>2, <2>3 DEF Settle
    <3>2. t = calls[c].token /\ res.kind = "value"
      BY <1>0, <3>1 DEF ClientReceive, ClientType
    <3>. QED  BY <2>1, <2>2, <3>2 DEF Complete, TypeOK
  <2>4. CASE k # calls[c].caller
    BY <1>1, <2>2, <2>4 DEF Settle
  <2>. QED  BY <2>3, <2>4
<1>6. CASE Clear \/ UNCHANGED vars
  BY <1>1, <1>6 DEF Clear, vars
<1>. QED  BY <1>2, <1>3, <1>4, <1>5, <1>6 DEF Next

-----------------------------------------------------------------------------
(* Requests keep their instances to themselves.                            *)

LEMMA RequestStep ==
  TypeOK /\ CallsOK /\ RequestsNumbered /\ RequestInstancesPrivate /\ [Next]_vars
  => RequestsNumbered' /\ RequestInstancesPrivate'
<1>. SUFFICES ASSUME TypeOK, CallsOK, RequestsNumbered, RequestInstancesPrivate, [Next]_vars
              PROVE  RequestsNumbered' /\ RequestInstancesPrivate'
  OBVIOUS
<1>1. ASSUME UNCHANGED <<requestInstances, made>>
      PROVE  RequestsNumbered' /\ RequestInstancesPrivate'
  BY <1>1 DEF RequestsNumbered, RequestInstancesPrivate
<1>2. ASSUME NEW c \in Calls, Complete(c)
      PROVE  RequestsNumbered' /\ RequestInstancesPrivate'
  <2>. DEFINE t == calls[c].token
              k == calls[c].client
  <2>1. t \in Tokens /\ k \in Clients
    BY <1>2 DEF Complete, Ready, Live, CallsOK
  <2>2. made' = [made EXCEPT ![t] = made[t] + 1] /\ made[t] \in Nat
    BY <1>2, <2>1 DEF Complete, TypeOK
  <2>3. CASE Mode[t] # "request"
    <3>1. requestInstances' = requestInstances
      BY <1>2, <2>3 DEF Complete, Store
    <3>2. \A u \in Tokens : 1..made[u] \subseteq 1..made'[u]
      BY <2>2 DEF TypeOK
    <3>. QED  BY <3>1, <3>2 DEF RequestsNumbered, RequestInstancesPrivate
  <2>4. CASE Mode[t] = "request"
    <3>1. Product(c) = <<t, made[t] + 1>>
      BY <2>1, <2>4, GraphAssumption DEF Product, GraphAssumption
    <3>2. requestInstances' = [requestInstances EXCEPT ![k][t] = <<t, made[t] + 1>>]
      BY <1>2, <2>4, <3>1 DEF Complete, Store
    <3>. HIDE DEF t, k
    <3>3. ASSUME NEW j \in Clients, NEW u \in Tokens
          PROVE  requestInstances'[j][u] = IF j = k /\ u = t THEN <<t, made[t] + 1>>
                                           ELSE requestInstances[j][u]
      BY <2>1, <3>2 DEF TypeOK
    <3>4. <<t, made[t] + 1>> \notin {t} \X (1..made[t])
      BY <2>2
    <3>5. <<t, made[t] + 1>> \in {t} \X (1..made'[t])
      BY <2>1, <2>2 DEF TypeOK
    <3>6. \A u \in Tokens : 1..made[u] \subseteq 1..made'[u]
      BY <2>2 DEF TypeOK
    <3>7. RequestsNumbered'
      BY <3>3, <3>5, <3>6 DEF RequestsNumbered
    <3>8. ASSUME NEW i \in Clients, NEW j \in Clients, NEW u \in Tokens, i # j,
                 requestInstances'[i][u] # None
          PROVE  requestInstances'[i][u] # requestInstances'[j][u]
      <4>1. CASE u # t \/ (i # k /\ j # k)
        BY <3>3, <3>8, <4>1 DEF RequestInstancesPrivate
      <4>2. CASE u = t /\ i = k
        BY <3>3, <3>4, <3>8, <4>2, ClientAssumption, <2>1, <2>2
           DEF RequestsNumbered, ClientAssumption
      <4>3. CASE u = t /\ j = k
        BY <3>3, <3>4, <3>8, <4>3 DEF RequestsNumbered
      <4>. QED  BY <4>1, <4>2, <4>3
    <3>. QED  BY <3>7, <3>8 DEF RequestInstancesPrivate
  <2>. QED  BY <2>3, <2>4
<1>3. ASSUME NEW k \in Clients, NEW t \in Tokens, Ask(k, t)
      PROVE  UNCHANGED <<requestInstances, made>>
  BY <1>3 DEF Ask, Build
<1>4. ASSUME NEW c \in Calls, Inject(c) PROVE UNCHANGED <<requestInstances, made>>
  BY <1>4 DEF Inject, Build
<1>5. ASSUME NEW c \in Calls, Fail(c) PROVE UNCHANGED <<requestInstances, made>>
  BY <1>5 DEF Fail
<1>6. ASSUME NEW k \in Clients, EndRequest(k) PROVE UNCHANGED <<requestInstances, made>>
  BY <1>6 DEF EndRequest
<1>7. CASE Clear \/ UNCHANGED vars
  BY <1>1, <1>7 DEF Clear, vars
<1>. QED  BY <1>1, <1>2, <1>3, <1>4, <1>5, <1>6, <1>7 DEF Next

-----------------------------------------------------------------------------
(* A context keeps the instance it has.                                    *)

\* The end of a request and clear() empty context caches, and the calls whose
\* cache is emptied forget their context.
LEMMA DropForgets ==
  ASSUME TypeOK, Clear \/ \E k \in Clients : EndRequest(k)
  PROVE  /\ \A id \in ContextIds, t \in Tokens : contextCache'[id][t] \in {None, contextCache[id][t]}
         /\ \A d \in Live : calls'[d].ctx \in {NoContext, calls[d].ctx}
<1>1. ASSUME NEW id \in ContextIds, NEW t \in Tokens
      PROVE  contextCache'[id][t] \in {None, contextCache[id][t]}
  <2>1. CASE Clear
    BY <2>1 DEF Clear
  <2>2. ASSUME NEW k \in Clients, EndRequest(k)
        PROVE  contextCache'[id][t] \in {None, contextCache[id][t]}
    BY <2>2 DEF EndRequest, DropContext, TypeOK
  <2>. QED  BY <2>1, <2>2
<1>2. ASSUME NEW d \in Calls PROVE calls'[d].ctx \in {NoContext, calls[d].ctx}
  <2>1. calls'[d] = Uncached(calls[d]) \/ calls'[d] = calls[d]
    BY DEF EndRequest, DropContext, Clear
  <2>2. calls[d] \in CallType
    BY DEF TypeOK
  <2>3. Uncached(calls[d]).ctx = NoContext
    BY <2>2 DEF Uncached, CallType
  <2>. QED  BY <2>1, <2>3
<1>. QED  BY <1>1, <1>2 DEF Live

\* A transient call for a context starts when the context has no instance, and no
\* other step of this token's provider runs until it settles.
LEMMA AwaitedStep ==
  TypeOK /\ CallsOK /\ ResolvingIsInFlight /\ AwaitedByContext /\ [Next]_vars => AwaitedByContext'
<1>. SUFFICES ASSUME TypeOK, CallsOK, ResolvingIsInFlight, AwaitedByContext, [Next]_vars
              PROVE  AwaitedByContext'
  OBVIOUS
<1>0. \A d \in Live : d \in Calls /\ calls[d].token \in Tokens
                      /\ calls[d].ctx \in ContextIds \cup {NoContext}
  BY DEF Live, CallsOK, TypeOK, CallType
<1>1. ASSUME UNCHANGED contextCache,
             \A d \in Live' : \/ d \in Live /\ calls'[d].token = calls[d].token
                                             /\ calls'[d].ctx = calls[d].ctx
                              \/ calls'[d].ctx = NoContext
      PROVE  AwaitedByContext'
  BY <1>1 DEF AwaitedByContext
<1>2. ASSUME NEW k \in Clients, NEW t \in Tokens, Ask(k, t) PROVE AwaitedByContext'
  <2>1. CASE Answered(t, k, CtxOf[k])
    BY <1>2, <2>1, <1>1 DEF Ask, Live
  <2>2. CASE ~Answered(t, k, CtxOf[k])
    <3>. DEFINE h == NewCall(t, k, 0, k, CtxOf[k])
    <3>1. PICK n \in Calls \ Live :
            /\ Live' = Live \cup {n}
            /\ \A e \in Live : calls'[e] = calls[e]
            /\ calls'[n] = h
            /\ resolving' = resolving \cup {t}
      BY <1>2, <2>2, AskBuildsEffect
    <3>2. contextCache' = contextCache
      BY <1>2, <2>2 DEF Ask, Build
    <3>3. h.token = t /\ h.ctx = IF Mode[t] = "transient" THEN CtxOf[k] ELSE NoContext
      BY DEF NewCall, NoCall
    <3>4. h.ctx # NoContext => contextCache[h.ctx][t] = None
      <4>. SUFFICES ASSUME h.ctx # NoContext PROVE contextCache[CtxOf[k]][t] = None
        BY <3>3
      <4>1. Cached(t, k, CtxOf[k]) = None
        BY <2>2 DEF Answered
      <4>. QED  BY <4>1, <3>3 DEF Cached
    <3>. HIDE DEF h
    <3>. QED  BY <3>1, <3>2, <3>3, <3>4 DEF AwaitedByContext
  <2>. QED  BY <2>1, <2>2
<1>3. ASSUME NEW c \in Calls, Inject(c) PROVE AwaitedByContext'
  <2>0. contextCache' = contextCache
    BY <1>3 DEF Inject, Build
  <2>1. CASE Answered(Dep(c), calls[c].client, NoContext)
    BY <1>3, <2>0, <2>1, <1>1, InjectAnsweredEffect
  <2>2. CASE ~Answered(Dep(c), calls[c].client, NoContext)
    <3>1. PICK n \in Calls \ Live :
         /\ Live' = Live \cup {n} /\ c \in Live
         /\ \A d \in Live \ {c} : calls'[d] = calls[d]
         /\ calls'[c] = [calls[c] EXCEPT !.next = calls[c].next + 1,
                                        !.waiting = calls[c].waiting \cup {calls[c].next}]
         /\ calls'[n] = NewCall(Dep(c), c, calls[c].next, calls[c].client, NoContext)
         /\ resolving' = resolving \cup {Dep(c)}
      BY <1>3, <2>2, InjectBuildsEffect
    <3>2. calls'[n].ctx = NoContext
      BY <3>1 DEF NewCall, NoCall
    <3>3. calls'[c].token = calls[c].token /\ calls'[c].ctx = calls[c].ctx
      BY <3>1 DEF TypeOK, CallType
    <3>. QED  BY <1>1, <2>0, <3>1, <3>2, <3>3
  <2>. QED  BY <2>1, <2>2
<1>4. ASSUME NEW c \in Calls, Complete(c) \/ Fail(c) PROVE AwaitedByContext'
  <2>1. /\ c \in Live /\ calls[c].token \in Tokens
        /\ \E res \in ResultType : Settle(c, res)
    BY <1>4, SettlingEffect
  <2>2. /\ Live' = Live \ {c}
        /\ \A e \in Live \ {c} : calls'[e].token = calls[e].token /\ calls'[e].ctx = calls[e].ctx
    BY <2>1, SettleEffect
  <2>3. \A e \in Live \ {c} : calls[e].token # calls[c].token
    BY <2>1 DEF ResolvingIsInFlight
  <2>4. ASSUME NEW id \in ContextIds, NEW t \in Tokens, t # calls[c].token
        PROVE  contextCache'[id][t] = contextCache[id][t]
    BY <1>4, <2>1, <2>4, <1>0 DEF Complete, Store, Fail, TypeOK
  <2>. QED  BY <1>0, <2>2, <2>3, <2>4 DEF AwaitedByContext
<1>5. CASE Clear \/ \E k \in Clients : EndRequest(k)
  <2>1. Live' = Live /\ \A d \in Live : calls'[d].token = calls[d].token
    BY <1>5, DropEffect DEF Same
  <2>. QED  BY <1>0, <1>5, <2>1, DropForgets DEF AwaitedByContext
<1>6. CASE UNCHANGED vars
  BY <1>1, <1>6 DEF vars, Live
<1>. QED  BY <1>2, <1>3, <1>4, <1>5, <1>6 DEF Next

\* What a context has is only ever stored where there is nothing, or deleted.
LEMMA StableStep ==
  ASSUME TypeOK, CallsOK, AwaitedByContext, [Next]_vars,
         NEW id \in ContextIds, NEW t \in Tokens,
         contextCache[id][t] # None, contextCache'[id][t] # None
  PROVE  contextCache'[id][t] = contextCache[id][t]
<1>1. ASSUME NEW c \in Calls, Complete(c) PROVE contextCache'[id][t] = contextCache[id][t]
  <2>1. /\ c \in Live /\ calls[c].token \in Tokens
        /\ calls[c].ctx \in ContextIds \cup {NoContext}
    BY <1>1 DEF Complete, Ready, Live, CallsOK, TypeOK, CallType
  <2>2. calls[c].ctx # NoContext => contextCache[calls[c].ctx][calls[c].token] = None
    BY <2>1 DEF AwaitedByContext
  <2>. QED  BY <1>1, <2>1, <2>2 DEF Complete, Store, TypeOK
<1>2. CASE Clear \/ \E k \in Clients : EndRequest(k)
  BY <1>2, DropForgets
<1>3. ASSUME NEW k \in Clients, NEW u \in Tokens, Ask(k, u) PROVE contextCache' = contextCache
  BY <1>3 DEF Ask, Build
<1>4. ASSUME NEW c \in Calls, Inject(c) \/ Fail(c) PROVE contextCache' = contextCache
  BY <1>4 DEF Inject, Build, Fail
<1>5. CASE UNCHANGED vars
  BY <1>5 DEF vars
<1>. QED  BY <1>1, <1>2, <1>3, <1>4, <1>5 DEF Next

-----------------------------------------------------------------------------
(* The theorems.                                                           *)

LEMMA InitIInv == Init => IInv
<1>. SUFFICES ASSUME Init PROVE IInv
  OBVIOUS
<1>1. Live = {}
  BY DEF Init, Live, NoCall
<1>2. TypeOK
  BY TypeInit
<1>3. CallsOK /\ ResolvingIsInFlight /\ DepsArrive
  BY <1>1 DEF Init, CallsOK, ResolvingIsInFlight, DepsArrive
<1>4. StoredWasMade /\ MadeIsStored /\ CycleNeverMade
  BY DEF Init, StoredWasMade, MadeIsStored, CycleNeverMade, Cyclic
<1>7. AnswersWereMade
  BY DEF Init, AnswersWereMade, Failure
<1>8. LastingIsFound
  BY <1>1, PresentLasts DEF Init, LastingIsFound
<1>5. RequestsNumbered /\ RequestInstancesPrivate
  BY DEF Init, RequestsNumbered, RequestInstancesPrivate
<1>6. AwaitedByContext
  BY <1>1 DEF AwaitedByContext
<1>. QED  BY <1>2, <1>3, <1>4, <1>5, <1>6, <1>7, <1>8 DEF IInv

LEMMA NextIInv == IInv /\ [Next]_vars => IInv'
BY TypeStep, CallsOKStep, InFlightStep, StoredStep, AnswersStep, LastingStep, DepsStep,
   MadeStep, CycleStep, RequestStep, AwaitedStep DEF IInv

\* The inductive invariant holds of the container, whatever the provider graph.
THEOREM Inductive == Spec => []IInv
BY InitIInv, NextIInv, PTL DEF Spec

\* The variables of the container keep their types.
THEOREM TypeCorrect == Spec => []TypeOK
<1>1. IInv => TypeOK
  BY DEF IInv
<1>. QED  BY <1>1, Inductive, PTL

\* `resolving` never keeps a token that nobody constructs and never lets one
\* token be constructed twice at a time.
THEOREM InFlightCorrect == Spec => []ResolvingIsInFlight
<1>1. IInv => ResolvingIsInFlight
  BY DEF IInv
<1>. QED  BY <1>1, Inductive, PTL

\* A singleton provider resolves at most once, for any number of racing
\* requests, failures, retries and a shutdown in between.
THEOREM SingletonCorrect == Spec => []SingletonBuiltOnce
<1>1. IInv => SingletonBuiltOnce
  BY DEF IInv, TypeOK, MadeIsStored, SingletonBuiltOnce
<1>. QED  BY <1>1, Inductive, PTL

\* Nobody is ever given a provider on a dependency cycle, or one that needs such a
\* provider, an optional field whose token has all that it needs included.
THEOREM CycleCorrect == Spec => []CycleNeverGiven
<1>1. IInv => CycleNeverGiven
  <2>. SUFFICES ASSUME IInv, NEW t \in Cyclic, Given(t) PROVE FALSE
    BY DEF CycleNeverGiven
  <2>1. made[t] = 0 /\ t \in Tokens
    BY DEF IInv, CycleNeverMade, Cyclic
  <2>. QED  BY <2>1 DEF IInv, Given, StoredWasMade, AnswersWereMade
<1>. QED  BY <1>1, Inductive, PTL

\* Two requests never share a request-scoped instance.
THEOREM RequestsIsolated == Spec => []RequestInstancesPrivate
<1>1. IInv => RequestInstancesPrivate
  BY DEF IInv
<1>. QED  BY <1>1, Inductive, PTL

\* A context that has a transient instance keeps that one while it is open: two
\* requests, or two injections of one request, never see it replaced.
THEOREM ContextsStable == Spec => ContextInstanceStable
<1>1. IInv /\ [Next]_vars =>
        [\A id \in ContextIds, t \in Tokens :
           contextCache[id][t] # None /\ contextCache'[id][t] # None =>
             contextCache'[id][t] = contextCache[id][t]]_vars
  BY StableStep DEF IInv
<1>. QED  BY <1>1, Inductive, PTL DEF Spec, ContextInstanceStable
=============================================================================
