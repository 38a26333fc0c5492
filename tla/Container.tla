------------------------------ MODULE Container ------------------------------
(***************************************************************************)
(* Concurrent dependency resolution: packages/injector/container.ts with   *)
(* the provider resolvers of _normalized_provider.ts and the request scope *)
(* of _request_context.ts.                                                 *)
(*                                                                         *)
(* A client is a request (Server.dispatch, the HTTP route handler) or an   *)
(* unscoped caller (module initialisation) that awaits one resolve() at a  *)
(* time.  A call is a provider being built: a promise that has entered     *)
(* `resolving` and has not settled.  An action is the code between two     *)
(* awaits, or a part of it, so every interleaving of the event loop is a   *)
(* behaviour here.                                                         *)
(*                                                                         *)
(* Each token has one home container.  `resolving`, `singletons` and       *)
(* `providers` are per container in the code and keyed by token, so the    *)
(* union over the containers, kept here, loses nothing; the walk through   *)
(* exporting children and the global container always ends at the home.    *)
(*                                                                         *)
(* The constructor of a class runs as soon as the class is being resolved, *)
(* before its fields are injected one by one.  Until the last of them has  *)
(* arrived nothing else has a reference to the object, so that an instance *)
(* has its number when it is complete.                                     *)
(***************************************************************************)
EXTENDS Naturals, Sequences, FiniteSets

CONSTANTS
  Tokens,       \* injection tokens
  Containers,   \* one per module, and the global container
  Root,         \* the root module's container
  Home,         \* [Tokens -> Containers]: the container that owns the provider
  Registered,   \* tokens that have a provider
  Mode,         \* [Tokens -> {"singleton", "transient", "request"}]
  Kind,         \* [Tokens -> {"class", "factory", "existing"}]
  Deps,         \* [Tokens -> Seq(Tokens)]: @Inject fields, inject list or alias target
  Optional,     \* set of <<token, i>>: the i-th @Inject field is optional
  Faulty,       \* tokens whose constructor or factory may throw
  Expressions,  \* set of <<token, i>>: the i-th field has an expression, which may throw
  Clients, ContextIds, NoContext,
  CtxOf,        \* [Clients -> ContextIds \cup {NoContext}]: the contextId of a request
  Calls,        \* identities for the calls in flight
  MaxAsks,      \* bound on the resolve() calls of one client
  None

ASSUME GraphAssumption ==
  /\ Home \in [Tokens -> Containers]
  /\ Root \in Containers
  /\ Registered \subseteq Tokens
  /\ Mode \in [Tokens -> {"singleton", "transient", "request"}]
  /\ Kind \in [Tokens -> {"class", "factory", "existing"}]
  /\ Deps \in [Tokens -> Seq(Tokens)]
  /\ Optional \subseteq Tokens \X Nat
  /\ Faulty \subseteq Tokens
  /\ Expressions \subseteq Tokens \X Nat
  /\ \A t \in Tokens : Kind[t] = "existing" => Mode[t] = "singleton" /\ Len(Deps[t]) = 1

ASSUME ClientAssumption ==
  /\ CtxOf \in [Clients -> ContextIds \cup {NoContext}]
  /\ NoContext \notin ContextIds
  /\ Clients \cap Calls = {}
  /\ None \notin Clients \cup Calls \cup Tokens
  /\ None \notin Tokens \X Nat
  /\ MaxAsks \in Nat

VARIABLES
  providers,         \* tokens still registered
  resolving,         \* tokens under construction, `resolving` of every container
  singletons,        \* token -> its singleton instance, or None
  instances,         \* container -> the instances its lifecycle hooks will visit
  contexts,          \* <<container, contextId>> pairs that have a context cache
  contextCache,      \* contextId -> token -> transient instance kept for it, or None
  requestInstances,  \* client -> token -> instance of its request scope, or None
  made,              \* token -> how many times its provider has resolved (history)
  calls,             \* the calls in flight
  clients            \* what each client is doing

vars == <<providers, resolving, singletons, instances, contexts, contextCache,
          requestInstances, made, calls, clients>>

-----------------------------------------------------------------------------
Instance == Tokens \X Nat
Failures == {"circular", "notfound", "norequest", "error"}
ResultKinds == Failures \cup {"value"}

Value(inst) == [kind |-> "value", inst |-> inst]
Failure(kind) == [kind |-> kind, inst |-> None]

NoCall == [live |-> FALSE, token |-> None, caller |-> None, slot |-> 0, client |-> None,
           ctx |-> NoContext, next |-> 1, waiting |-> {},
           failed |-> "no", val |-> None]

\* The state of a provider resolver that has just been entered.
NewCall(t, caller, slot, k, id) ==
  [NoCall EXCEPT !.live = TRUE, !.token = t, !.caller = caller, !.slot = slot,
                 !.client = k,
                 !.ctx = IF Mode[t] = "transient" THEN id ELSE NoContext]

Live == {c \in Calls : calls[c].live}
FreeCall == CHOOSE c \in Calls : ~calls[c].live
Dep(c) == Deps[calls[c].token][calls[c].next]
Invoked(c) == calls[c].next > Len(Deps[calls[c].token])

-----------------------------------------------------------------------------
(* Looking a token up, up to the first await of resolve() and              *)
(* resolveWithContext().                                                   *)

\* The instance the provider's mode has in store: the singletons map, the
\* AsyncLocalStorage store of the request, or the cache of the contextId.
Cached(t, k, id) ==
  CASE Mode[t] = "singleton" -> singletons[t]
    [] Mode[t] = "request"   -> requestInstances[k][t]
    [] OTHER                 -> IF id = NoContext THEN None ELSE contextCache[id][t]

Scoped(k) == CtxOf[k] # NoContext

\* Faulty variant: the check of `resolving` is missing.
MutRefusedIgnoresResolving(t, k) ==
  IF t \notin providers THEN "notfound"
  ELSE IF Mode[t] = "request" /\ ~Scoped(k) THEN "norequest"
  ELSE "no"

\* Why resolve() throws before it builds anything, or "no".  `resolving` comes
\* first, before the lookup of the provider and of a cached instance.
Refused(t, k) ==
  IF t \in resolving THEN "circular"
  ELSE IF t \notin providers THEN "notfound"
  ELSE IF Mode[t] = "request" /\ ~Scoped(k) THEN "norequest"
  ELSE "no"

Answered(t, k, id) == Refused(t, k) # "no" \/ Cached(t, k, id) # None

Answer(t, k, id) ==
  IF Refused(t, k) = "no" THEN Value(Cached(t, k, id)) ELSE Failure(Refused(t, k))

\* The synchronous start of resolveSingleton, resolveTransient,
\* resolveTransientWithContext and resolveRequest.
Build(t, id) ==
  /\ \E c \in Calls : ~calls[c].live
  /\ resolving' = resolving \cup {t}
  /\ contexts' = IF Mode[t] = "transient" /\ id # NoContext
                 THEN contexts \cup {<<Home[t], id>>} ELSE contexts
  /\ UNCHANGED <<providers, singletons, instances, contextCache, requestInstances, made>>

-----------------------------------------------------------------------------
(* Results travel to the awaiting provider resolver or client.             *)

\* injectDependencies() goes on when the i-th field of class t is not found.
Skippable(t, i) == Kind[t] = "class" /\ <<t, i>> \in Optional

\* Faulty variant: a class swallows every failure of an optional field.
MutReceiveSwallowsAll(f, slot, res) ==
  [f EXCEPT !.waiting = @ \ {slot},
            !.val = IF res.kind = "value" THEN res.inst ELSE None,
            !.failed = IF @ # "no" \/ res.kind = "value" \/ Skippable(f.token, slot)
                       THEN @ ELSE res.kind]

\* injectDependencies() skips an optional field whose token is not found and
\* rethrows everything else; Promise.all() keeps the first rejection.
Receive(f, slot, res) ==
  [f EXCEPT !.waiting = @ \ {slot},
            !.val = IF res.kind = "value" THEN res.inst ELSE None,
            !.failed = IF \/ @ # "no" \/ res.kind = "value"
                          \/ res.kind = "notfound" /\ Skippable(f.token, slot)
                       THEN @ ELSE res.kind]

\* Faulty variant: a rejection does not reach who asked.
MutClientReceive(cl, t, res) ==
  IF res.kind = "value" THEN [cl EXCEPT !.st = "idle", !.token = t, !.res = res] ELSE cl

ClientReceive(cl, t, res) == [cl EXCEPT !.st = "idle", !.token = t, !.res = res]

\* The siblings of a rejected Promise.all go on, with no one to tell.
Orphaned(call, c) == IF call.caller = c THEN [call EXCEPT !.caller = None] ELSE call

\* Call c settles with res: the call or the client that awaits it hears of it.
Settle(c, res) ==
  LET f == calls[c] IN
  /\ calls' = [d \in Calls |->
        IF d = c THEN NoCall
        ELSE Orphaned(IF d = f.caller THEN Receive(calls[d], f.slot, res) ELSE calls[d], c)]
  /\ clients' = [k \in Clients |->
        IF k = f.caller THEN ClientReceive(clients[k], f.token, res) ELSE clients[k]]

\* Faulty variant: the `finally` of the resolve methods is lost on success.
MutLeaveForgets(t) == UNCHANGED resolving

\* The `finally` of the resolve methods.
Leave(t) == resolving' = resolving \ {t}

-----------------------------------------------------------------------------
(* Clients.                                                                *)

\* Client k calls resolve(t), or resolveWithContext(t, id) when it is a request.
Ask(k, t) ==
  /\ clients[k].st = "idle"
  /\ clients[k].asks < MaxAsks
  /\ \/ /\ Answered(t, k, CtxOf[k])
        /\ clients' = [clients EXCEPT ![k] =
              [ClientReceive(@, t, Answer(t, k, CtxOf[k])) EXCEPT !.asks = clients[k].asks + 1]]
        /\ UNCHANGED <<providers, resolving, singletons, instances, contexts,
                       contextCache, requestInstances, made, calls>>
     \/ /\ ~Answered(t, k, CtxOf[k])
        /\ Build(t, CtxOf[k])
        /\ calls' = [calls EXCEPT ![FreeCall] = NewCall(t, k, 0, k, CtxOf[k])]
        /\ clients' = [clients EXCEPT ![k] =
              [clients[k] EXCEPT !.st = "waiting", !.asks = clients[k].asks + 1]]

\* A transient call whose context cache was deleted holds a Map nobody reads.
Uncached(call) == [call EXCEPT !.ctx = NoContext]

\* contexts.delete(id) in container c.
DropContext(c, id) ==
  /\ contexts' = contexts \ {<<c, id>>}
  /\ contextCache' = [contextCache EXCEPT ![id] =
        [t \in Tokens |-> IF Home[t] = c THEN None ELSE contextCache[id][t]]]
  /\ calls' = [d \in Calls |->
        IF calls[d].live /\ calls[d].ctx = id /\ Home[calls[d].token] = c
        THEN Uncached(calls[d]) ELSE calls[d]]

\* The end of a request: InjectorContext.clearContext(), the root container only.
EndRequest(k) ==
  /\ clients[k].st = "idle"
  /\ Scoped(k)
  /\ clients' = [clients EXCEPT ![k].st = "done"]
  /\ DropContext(Root, CtxOf[k])
  /\ UNCHANGED <<providers, resolving, singletons, instances, requestInstances, made>>

-----------------------------------------------------------------------------
(* Provider resolvers.                                                     *)

\* instantiateClass() awaits each field in turn; a factory's inject list is
\* resolved by one Promise.all(), whose map() runs whatever has rejected.
MayInject(c) ==
  /\ ~Invoked(c)
  /\ Kind[calls[c].token] = "factory" \/ (calls[c].waiting = {} /\ calls[c].failed = "no")

\* Call c asks its container for its next dependency.
Inject(c) ==
  LET f == calls[c]  t == Dep(c) IN
  /\ f.live
  /\ MayInject(c)
  /\ UNCHANGED clients
  /\ \/ /\ Answered(t, f.client, NoContext)
        /\ calls' = [calls EXCEPT ![c] =
              Receive([f EXCEPT !.next = @ + 1], f.next, Answer(t, f.client, NoContext))]
        /\ UNCHANGED <<providers, resolving, singletons, instances, contexts,
                       contextCache, requestInstances, made>>
     \/ /\ ~Answered(t, f.client, NoContext)
        /\ Build(t, NoContext)
        /\ calls' = [calls EXCEPT
              ![c] = [f EXCEPT !.next = @ + 1, !.waiting = @ \cup {f.next}],
              ![FreeCall] = NewCall(t, c, f.next, f.client, NoContext)]

\* Every dependency has arrived or was skipped.
Ready(c) ==
  /\ calls[c].live
  /\ Invoked(c)
  /\ calls[c].waiting = {}
  /\ calls[c].failed = "no"

\* What resolves out of the provider: a new instance, or the alias's target.
Product(c) ==
  LET f == calls[c] IN
  IF Kind[f.token] = "existing" THEN f.val ELSE <<f.token, made[f.token] + 1>>

\* Faulty variant: a request-scoped instance is kept like a singleton's.
MutStoreSharesRequests(c, inst) ==
  LET t == calls[c].token IN
  /\ requestInstances' = IF Mode[t] = "request"
        THEN [k \in Clients |-> [requestInstances[k] EXCEPT ![t] = inst]]
        ELSE requestInstances
  /\ singletons' = IF Mode[t] = "singleton" THEN [singletons EXCEPT ![t] = inst] ELSE singletons
  /\ UNCHANGED <<contextCache, instances>>

\* singletons.set, contextCache.set, context.instances.set and instances.push.
Store(c, inst) ==
  LET f == calls[c]  t == f.token IN
  /\ singletons' = IF Mode[t] = "singleton" THEN [singletons EXCEPT ![t] = inst] ELSE singletons
  /\ requestInstances' = IF Mode[t] = "request"
        THEN [requestInstances EXCEPT ![f.client][t] = inst] ELSE requestInstances
  /\ contextCache' = IF f.ctx # NoContext
        THEN [contextCache EXCEPT ![f.ctx][t] = inst] ELSE contextCache
  /\ instances' = IF Mode[t] # "request"
        THEN [instances EXCEPT ![Home[t]] = @ \cup {inst}] ELSE instances

\* The instance has its last field, or the factory returns: the promise of c fulfils.
Complete(c) ==
  LET t == calls[c].token IN
  /\ Ready(c)
  /\ made' = [made EXCEPT ![t] = @ + 1]
  /\ Store(c, Product(c))
  /\ Leave(t)
  /\ Settle(c, Value(Product(c)))
  /\ UNCHANGED <<providers, contexts>>

\* A dependency has failed; Promise.all() does not wait for the other ones.
Rejects(c) ==
  /\ calls[c].live
  /\ calls[c].failed # "no"
  /\ Kind[calls[c].token] = "factory" => Invoked(c)

\* Own code of c throws: a constructor, before any field; the expression of the field
\* that has arrived last; a factory, once it has its arguments.
Breaks(c) ==
  LET f == calls[c] IN
  /\ f.live /\ f.waiting = {} /\ f.failed = "no"
  /\ \/ Kind[f.token] = "class" /\ f.token \in Faulty /\ f.next = 1
     \/ Kind[f.token] = "class" /\ <<f.token, f.next - 1>> \in Expressions /\ f.val # None
     \/ Kind[f.token] = "factory" /\ f.token \in Faulty /\ Invoked(c)

\* The promise of c rejects, with what a dependency threw or with its own error.
Fail(c) ==
  /\ \/ Rejects(c) /\ Settle(c, Failure(calls[c].failed))
     \/ Breaks(c) /\ Settle(c, Failure("error"))
  /\ Leave(calls[c].token)
  /\ UNCHANGED <<providers, singletons, instances, contexts, contextCache,
                 requestInstances, made>>

-----------------------------------------------------------------------------
\* Container.clear() on the root container, the end of onApplicationShutdown().
\* `resolving` and the child containers are left as they are.
Clear ==
  /\ \E t \in providers : Home[t] = Root
  /\ providers' = {t \in providers : Home[t] # Root}
  /\ singletons' = [t \in Tokens |-> IF Home[t] = Root THEN None ELSE singletons[t]]
  /\ instances' = [instances EXCEPT ![Root] = {}]
  /\ contexts' = {p \in contexts : p[1] # Root}
  /\ contextCache' = [id \in ContextIds |->
        [t \in Tokens |-> IF Home[t] = Root THEN None ELSE contextCache[id][t]]]
  /\ calls' = [d \in Calls |->
        IF calls[d].live /\ Home[calls[d].token] = Root
        THEN Uncached(calls[d]) ELSE calls[d]]
  /\ UNCHANGED <<resolving, requestInstances, made, clients>>

-----------------------------------------------------------------------------
Init ==
  /\ providers = Registered
  /\ resolving = {}
  /\ singletons = [t \in Tokens |-> None]
  /\ instances = [c \in Containers |-> {}]
  /\ contexts = {}
  /\ contextCache = [id \in ContextIds |-> [t \in Tokens |-> None]]
  /\ requestInstances = [k \in Clients |-> [t \in Tokens |-> None]]
  /\ made = [t \in Tokens |-> 0]
  /\ calls = [c \in Calls |-> NoCall]
  /\ clients = [k \in Clients |->
        [st |-> "idle", asks |-> 0, token |-> None, res |-> Failure("error")]]

Next ==
  \/ \E k \in Clients, t \in Tokens : Ask(k, t)
  \/ \E k \in Clients : EndRequest(k)
  \/ \E c \in Calls : Inject(c) \/ Complete(c) \/ Fail(c)
  \/ Clear

Spec == Init /\ [][Next]_vars

\* The event loop runs every continuation that is ready, and constructors and
\* factories return or throw.  Clients need not ask, end or shut down.
Fairness == \A c \in Calls : WF_vars(Inject(c)) /\ WF_vars(Complete(c) \/ Fail(c))
FairSpec == Spec /\ Fairness

-----------------------------------------------------------------------------
CallType ==
  [live : BOOLEAN, token : Tokens \cup {None}, caller : Calls \cup Clients \cup {None},
   slot : Nat, client : Clients \cup {None},
   ctx : ContextIds \cup {NoContext}, next : Nat, waiting : SUBSET Nat,
   failed : Failures \cup {"no"}, val : Instance \cup {None}]

ResultType == [kind : ResultKinds, inst : Instance \cup {None}]

ClientType ==
  [st : {"idle", "waiting", "done"}, asks : 0..MaxAsks, token : Tokens \cup {None},
   res : ResultType]

\* The variables keep their types.
TypeOK ==
  /\ providers \subseteq Tokens
  /\ resolving \subseteq Tokens
  /\ singletons \in [Tokens -> Instance \cup {None}]
  /\ instances \in [Containers -> SUBSET (Instance \cup {None})]
  /\ contexts \subseteq Containers \X ContextIds
  /\ contextCache \in [ContextIds -> [Tokens -> Instance \cup {None}]]
  /\ requestInstances \in [Clients -> [Tokens -> Instance \cup {None}]]
  /\ made \in [Tokens -> Nat]
  /\ calls \in [Calls -> CallType]
  /\ clients \in [Clients -> ClientType]

\* Safety.  `resolving` holds exactly the tokens whose construction is in
\* flight, and no token is constructed twice at once: a settled, failed or
\* abandoned resolution leaves no token behind that would be refused for ever.
ResolvingIsInFlight ==
  /\ resolving = {calls[c].token : c \in Live}
  /\ \A c, d \in Live : calls[c].token = calls[d].token => c = d

\* Safety.  However many requests race for it, and whatever fails and is tried
\* again, resolveSingleton() completes at most once per singleton provider.
SingletonBuiltOnce == \A t \in Tokens : Mode[t] = "singleton" => made[t] <= 1

\* Providers that stay registered, and have all that they need among themselves.
Lasting(F) ==
  \A t \in F :
    /\ t \in Registered /\ Home[t] # Root
    /\ \A i \in 1..Len(Deps[t]) : Deps[t][i] \in F \/ Skippable(t, i)

\* Tokens that are never told not to be found.
Present == {t \in Tokens : \E F \in SUBSET Tokens : t \in F /\ Lasting(F)}

\* A field that injectDependencies() may leave out.
LeftOut(t, i) == Skippable(t, i) /\ Deps[t][i] \notin Present

\* Every token of S needs another token of S: a set of dependency cycles and of
\* what leads to them.
Unfounded(S) == \A t \in S : \E i \in 1..Len(Deps[t]) : Deps[t][i] \in S /\ ~LeftOut(t, i)

Cyclic == {t \in Tokens : \E S \in SUBSET Tokens : t \in S /\ Unfounded(S)}

\* Somebody has the instance of t, or will find it.
Given(t) ==
  \/ singletons[t] # None
  \/ \E id \in ContextIds : contextCache[id][t] # None
  \/ \E k \in Clients :
       \/ requestInstances[k][t] # None
       \/ clients[k].token = t /\ clients[k].res.kind = "value"

\* Safety.  Nobody is ever given a provider that needs itself, directly or through
\* others, in whatever order the requests for the tokens of the cycle race: its
\* constructor may run, but its fields are never all there.  An optional field closes a
\* cycle like any other when what it needs is there.
CycleNeverGiven == \A t \in Cyclic : ~Given(t)

\* Safety.  Two requests never share a request-scoped instance.
RequestInstancesPrivate ==
  \A k, j \in Clients, t \in Tokens :
     k # j /\ requestInstances[k][t] # None =>
       requestInstances[k][t] # requestInstances[j][t]

\* Action property.  The instance a contextId has for a transient provider is
\* never replaced by another one while the context is open.
ContextInstanceStable ==
  [][\A id \in ContextIds, t \in Tokens :
       contextCache[id][t] # None /\ contextCache'[id][t] # None =>
         contextCache'[id][t] = contextCache[id][t]]_vars

\* Liveness.  Every resolve() a client awaits settles, cyclic graphs, failing
\* providers, racing requests and shutdown included: nobody waits on a cycle.
ResolveSettles == \A k \in Clients : clients[k].st = "waiting" ~> clients[k].st = "idle"

-----------------------------------------------------------------------------
(* The inductive invariant behind the safety properties (ContainerProofs). *)

\* What a live call is: a token under construction for a client, started with
\* its dependencies in order; its caller, if it has one, awaits this very slot.
CallsOK ==
  \A c \in Live :
    LET f == calls[c] IN
    /\ f.token \in Tokens /\ f.client \in Clients
    /\ f.next \in 1..(Len(Deps[f.token]) + 1)
    /\ f.caller \in Calls =>
         /\ f.caller \in Live
         /\ f.slot \in 1..Len(Deps[calls[f.caller].token])
         /\ f.token = Deps[calls[f.caller].token][f.slot]

\* An instance in store comes from a construction.
StoredWasMade ==
  \A t \in Tokens :
    /\ singletons[t] # None => made[t] > 0
    /\ \A k \in Clients : requestInstances[k][t] # None => made[t] > 0
    /\ \A id \in ContextIds : contextCache[id][t] # None => made[t] > 0

\* A call that has not failed awaits, or has been given, every dependency asked.
DepsArrive ==
  \A c \in Live : calls[c].failed = "no" =>
    LET f == calls[c] IN
    /\ \A i \in 1..(f.next - 1) :
         i \in f.waiting \/ LeftOut(f.token, i) \/ made[Deps[f.token][i]] > 0
    /\ Kind[f.token] = "existing" /\ f.next > 1 /\ f.waiting = {} => f.val # None

\* What a client was given was made.
AnswersWereMade ==
  \A k \in Clients, t \in Tokens :
    clients[k].token = t /\ clients[k].res.kind = "value" => made[t] > 0

\* A lasting provider is registered, and nothing it needs is missing.
LastingIsFound ==
  /\ Present \subseteq providers
  /\ \A c \in Live : calls[c].token \in Present => calls[c].failed # "notfound"

\* No provider that needs itself is ever completed.
CycleNeverMade == \A t \in Cyclic : made[t] = 0

\* A singleton that was made is in store, or its container has been cleared.
MadeIsStored ==
  \A t \in Tokens : Mode[t] = "singleton" /\ made[t] > 0 =>
    made[t] = 1 /\ t \notin resolving /\ (singletons[t] # None \/ t \notin providers)

\* The instance of a request is one of those its token's provider has made.
RequestsNumbered ==
  \A k \in Clients, t \in Tokens : requestInstances[k][t] # None =>
    requestInstances[k][t] \in {t} \X (1..made[t])

\* While a transient instance is built for a context, the context has none: a second
\* one would have been refused, and a context that is deleted is forgotten by the call.
AwaitedByContext ==
  \A c \in Live : calls[c].ctx # NoContext =>
    contextCache[calls[c].ctx][calls[c].token] = None

IInv ==
  TypeOK /\ CallsOK /\ ResolvingIsInFlight /\ StoredWasMade /\ DepsArrive
  /\ AnswersWereMade /\ LastingIsFound /\ MadeIsStored /\ CycleNeverMade /\ RequestsNumbered /\ RequestInstancesPrivate
  /\ AwaitedByContext

=============================================================================
