# Formal models of denorid

denorid is a dependency-injected application framework for Deno (TypeScript,
`packages/*`). This directory holds TLA+ models of it, the TLC configurations
that check them, and TLAPS proofs of their main invariants. JavaScript runs one
continuation at a time, so there are no data races; the difficulty is in what
happens **between two awaits**: another request, a close, a lost connection or a
shutdown hook runs, and what was read before the await is used after it. The
other half is sequential code with many cases (module graphs, metadata, the
command line, pipes, loggers), which is checked against a reference definition
over every input of a bounded family.

## 1. Inventory

| Component | State | Operations | Interacts with |
|---|---|---|---|
| Decorators (`*/decorator*.ts`) | class metadata, linked by prototype | Injectable, Inject, Module, Tags, Get, UseGuards, Queued, Option, ... | everything that discovers classes reads it |
| ModuleCompiler (`injector/_module_compiler.ts`) | compiled modules | compile, getModulesInInitOrder, getGlobalProviders | InjectorContext.create |
| Package modules (`*/module.ts`) | none | forRoot, forRootAsync, register, ... | ModuleCompiler |
| Container (`injector/container.ts`) | providers, singletons, `resolving`, `instances`, `contexts`, exports, children | register, resolve, resolveWithContext, instantiateClass, injectDependencies, clear, clearContext, getByTag | normalised providers call back into it; `AsyncLocalStorage` holds the request store |
| InjectorContext (`injector/injector_context.ts`) | root and global container, isBootstrapped, isShuttingDown | create, resolveInternal, clearContext, four hook phases, close | containers, every provider with a hook |
| Message dispatch (`microservices/server.ts`) | handler map, global guards | registerHandlers, dispatch | container (request scope), exception filters, transports |
| TCP transport (`microservices/tcp`) | conn, connecting, pending, readLoopPromise; listener | connect, close, send, emit; listen, close, handleConnection | each other, over a stream of frames |
| RabbitMQ transport (`microservices/rmq`) | connection, channel, reply queue, pending; server channel | connect, close, send, emit; listen, close, handleMessage | the broker |
| AMQP patterns (`amqp`) | shared connection, a channel per client, pending, consumers | createChannel, request, send, publish; discover, handle, shutdown | the broker, exception filters |
| Applications (`core/*_application.ts`) | initialized, listening, started servers | init, listen, startAllMicroservices, runCommandLine, close | InjectorContext, adapter, servers |
| HTTP pipeline (`core/http`, `platform-hono`) | routes, one scope per request | route, guards, validation, handler, answer | container, exception filters, pipes |
| ExceptionHandler (`core/exceptions/handler.ts`) | filter cache sorted by priority | register, handle | container, every dispatcher |
| Pipes (`core/pipes`) | none | transform | request context |
| Key-value queues (`kv`) | handles, listeners | connect, close, discover, send, handle | Deno KV, guards, exception filters |
| Scheduler (`schedule`) | crons, timeouts, intervals | discover, add, delete, abort | Deno.cron, timers |
| Connections (`drizzle`, `s3`, `caching`) | databases, storage clients, cache | hooks at start and shutdown, look-up | InjectorContext |
| Command line (`core/cli`) | none | preScanArgv, parseCommandArgs, run | applications |
| Logger (`logger`) | options, the static logger | log, error, ..., overrideLogger | everybody |
| jwt, testing | none | wrappers | sections 7 |

What makes each correct, and what is hard about it:

- *Container.* A singleton is built once whoever races for it; a dependency
  cycle ends in an error, never in a deadlock, and nobody is given a provider of it; a
  failed construction can be tried again; request instances are private. Hard:
  every dependency is an await, factories resolve theirs concurrently, requests
  end and the container is cleared in between.
- *Module graphs.* Init hooks run once, imports first; a container resolves what
  its module sees and nothing else. Hard: diamonds, cycles, re-exports, global
  modules, one class configured twice.
- *Transports and AMQP.* A promise settles once, with the answer to its own
  request, or is rejected with its connection; the broker forgets no message
  that was not handled. Hard: reconnects, several connections alive at once, a
  channel that is visible before it is ready, acknowledgements after a close.
- *Applications and hooks.* Bootstrap hooks run once, before the application
  serves; shutdown hooks run once and after it. Hard: `close` during `init`,
  concurrent `init`, failing hooks.
- *HTTP and filters.* No success without every guard; every request answered;
  no scope left behind; filters in order while they are being registered.
- *Queues, scheduler, connections.* No handle is leaked or closed under its
  user; a message is done only when decided; what runs can be stopped.
- *Decorators, command line, pipes, loggers.* What was written is read, what was
  meant is run, what passes is of its type, what is logged shows.

`PROJECT.json` lists the hazards, each at its line, with the properties that
cover it or a note saying what is missing.

## 2. Modules

| Module | What it is |
|---|---|
| `Container` | concurrent resolution: container, provider resolvers, request scope |
| `MCContainer`, `MCContainerRace` | provider graphs for TLC |
| `ContainerProofs` | theorems about `Container` |
| `ModuleGraph` | compiler, containers of a module graph, initialisation, tags, resolution across modules |
| `Integrations` | the modules that the packages offer, as graphs of `ModuleGraph` |
| `Decorators` | class metadata through the prototype chain |
| `MCModuleGraph`, `MCModules` | families of module graphs; the same with `Decorators` beside them |
| `Rpc` | abstract: what `ClientProxy.send()` promises, for any transport |
| `TcpRpc`, `MCTcpRpc`, `TcpRpcProofs` | TCP client, server and connections; implements `Rpc` |
| `Delivery` | abstract: what the queues promise about a message, whoever keeps it |
| `RmqRpc`, `MCRmqRpc`, `RmqRpcProofs` | RabbitMQ client, server and broker; implements `Rpc` and `Delivery` |
| `AmqpRpc`, `MCAmqpRpc`, `AmqpRpcProofs` | AMQP connection, clients of five patterns, explorer and broker; implements `Delivery` |
| `Lifecycle`, `MCLifecycle`, `LifecycleProofs` | plain and HTTP applications and microservices over TCP or RabbitMQ, over the hook phases |
| `ExceptionFilters` | the filter cache and `handle()` |
| `HttpRequests` | routes and requests, over `ExceptionFilters` |
| `Pipes` | pipes and the request context's `query`, `queries`, `param` |
| `MCHttpRequests`, `HttpRequestsProofs` | instances and theorems of the three |
| `KvQueue`, `MCKvQueue`, `KvQueueProofs` | key-value handles and their queues; implements `Delivery` |
| `Connections`, `Scheduler`, `Services` | databases, storage and cache; crons and timers; the hooks that run both |
| `CommandLine`, `MCCommandLine`, `Logger` | argument parser and runner; loggers |
| `MCSequential` | an instance of the service modules, the command line and the loggers, whose steps do not overlap: each runs while the others stand still |
| `SequentialProofs` | theorems about `Services`, `CommandLine`, `Logger` and `Decorators` |

An action is the code of one process between two awaits, whole, unless a module's
head says otherwise. A definition whose name begins with `Mut` is a faulty variant
of the one it is named for; only the mutants in `PROJECT.json` use it.

### Container

A **client** is a request or an unscoped caller that awaits one `resolve` at a
time. A **call** is a provider resolver in flight, from the moment its token
enters `resolving` to the settling of its promise; it knows its caller, the
dependency slot it fills, and how far its own dependencies have come.

| Action | Code |
|---|---|
| `Ask(k, t)` | `resolve` or `resolveWithContext` by a client, up to its first await |
| `EndRequest(k)` | the `finally` of `Server.dispatch` and of an HTTP route: `clearContext` on the root container |
| `Inject(c)` | the next dependency of a class (one after the other) or of a factory (`Promise.all`, all of them whatever fails) |
| `Complete(c)` | the last field is injected or the factory returns; store, leave `resolving`, settle |
| `Fail(c)` | a dependency failed; or a constructor (before any field), the expression of a field or a factory throws; leave `resolving`, reject |
| `Clear` | `Container.clear()` on the root container, end of shutdown |

`resolving`, `singletons` and `providers` are one set or map per container in the
code. Each token has one home here, so their union is kept and nothing is lost;
`ModuleGraph` has the containers apart. Steps are finer than run-to-completion
(each dependency of a `Promise.all` is a step of its own): that adds
interleavings, so the safety results hold for the code's as well. The constructor
of a class runs before its fields are injected (`instantiateClass`), so the code
does construct objects on a cycle; nothing refers to such an object before its last
field has arrived, and `Complete` is that moment. `CycleNeverGiven` is about what
anybody is given: a field that is optional counts like any other, unless its token
can really be missing (`LeftOut`, `Present`). `made` is history.

### ModuleGraph, Integrations, Decorators

`Compile` is one step: the compiler's depth-first visit (`Visit`, `InitOrder`) and
`buildContainer()`, which recurses into imports and overflows on a cycle. Then
`InitToken` initialises one token of one module in order, as `create()` does, with
errors dropped; `Get`, `ContextResolve` and `GetByTag` are what an application
asks afterwards. `Resolve` constructs what is missing, in the container that has
it, with the `ModuleRef` that the first one to need it was given: a constructor that
throws does so before what its fields need is resolved. `singletons` are kept per
container, an alias refers to the instance of the token it stands for, and each
resolution of a transient makes an instance with a number of its own. Every graph of a
family is an initial state. `Integrations` builds the declaration that `forRoot`,
`forRootAsync`, `register` and the decorated class are merged into, for every
package; `MCModuleGraph` puts each between a root and a configuration module.

`Decorators` evaluates the classes of a program in order. `Read` follows the
prototype, `Push` and `Unshift` change the list they found, which may be an
ancestor's, and `Tagged` makes a list of its own.

### TcpRpc, RmqRpc, Rpc

| TcpRpc | Code |
|---|---|
| `Connect`, `Start(m)` | `connect()`; `send`/`emit` up to the await of `ensureConnected` |
| `DialSucceeds`, `DialFails` | one turn of `doConnect`'s retry loop and what those who await it do |
| `Write(m)`, `Written(m)`, `WriteFails(m)` | the rest of `send`/`emit` and the settling of `conn.write` |
| `ReadResponse(n)`, `ReadEnd(n)` | a turn of `readLoop`, and its end with the `finally` (`EndLoop`) |
| `Close`, `Closed(n)` | `close()` up to and after the await of the read loop |
| `Listen`, `Accept(n)`, `CloseServer` | `TcpServer.listen` and `close` |
| `ReadRequest(n)`, `Reply(n)`, `FinishEvent(e)`, `ReadEndOfRequests(n)` | `handleConnection`, `handleMessage`, `handleEvent` |
| `RefuseRequest(n)` | `handleConnection` meets a frame that is too long or cannot be decoded, and closes the connection |
| `Reset(n)` | the network |

| RmqRpc | Code |
|---|---|
| `Start(m)`, `Publish(m)` | `send`/`emit` up to and after `ensureConnected` |
| `DialConnects`, `DialOpens`, `DialNames`, `DialConsumes`, `DialFails` | the four awaits of `doConnect`, with what is visible after each |
| `CloseBegin`, `CloseConnection`, `CloseEnd` | the awaits of `close()` |
| `HandleReply` | the consumer of the reply queue |
| `Listen`, `ListenOpens`, `ListenConsumes`, `StopBegin`, `StopEnd` | `RmqServer.listen` and `close` |
| `Deliver`, `Finish(h)` | `handleMessage` before and after `dispatch` |
| `Route(m)`, `Lose`, `ServerLost`, `Crash` | the broker, the network and the server's process |

A message is its own correlation id; `Rpc` is implemented under the mapping of
a promise that is neither idle nor settled to "asked". In RabbitMQ a delivery is
identified by its tag and its channel, and an acknowledgement goes to
`this.channel` of its own time: when that is a later channel, `misdirected` is set
and the tag may be another message's. The server never acknowledges a message it cannot
read, which takes a place of the prefetch window until its channel closes. The
server's queue is the durable one of the default options.

### Delivery

A message is new, out (it never got there), waiting, held or gone, and the latest run
of its consumer is none, running or over. Delivery is at least once: a message that
is held goes back when its channel or handle closes (`Release`), as often as that
happens and also under a consumer that still runs (`Decide`). It goes for good from
the hands of its consumer (`Settle`), or without one when nobody is meant for it
(`Drop`), and nothing takes it back from there. What is `volatile` (in a queue that exists as long
as its channel) is out when the channel closes. `RmqRpc`, `AmqpRpc` and `KvQueue`
have `Place` and `Consumer` as refinement mappings from `where` and
`outcome` or `verdict`. That of `KvQueue` also says what "over" means there
(`DoneIsDecided`):

| Delivery | RmqRpc | AmqpRpc | KvQueue |
|---|---|---|---|
| `Accept` | `Route` | `Publish` | `Send` |
| `Refuse` | `Lose` | `Publish` to an undeclared queue | `Send` without a handle |
| `Start`, `Keep` | `Deliver`; an unreadable message is kept | `Deliver`; likewise | `Deliver` |
| `Drop` | none | none | `Deliver` with no method found |
| `Decide`, `Settle` | `Finish(h)` | `Returns`, `Throws`, `Filtered` | `Returns`, `Report` |
| `Release` | `StopBegin`, `Crash`, `ServerLost`, an acknowledgement with a tag of nobody's | `Shut`: a channel or its connection closes; what an anonymous queue held is then out | `Close`; a callback that rejects |

`RmqRpc` implements it step by step while the server acknowledges (`~noAck`; without,
the broker forgets a message as it delivers it) and no acknowledgement has gone to a
later channel (`misdirected`, the hazard at `microservices/rmq/server.ts:144`): such an
acknowledgement may settle a message that nobody has handled. The
consumers of `AmqpRpc` need no such clause, because `handle()` keeps the channel of
its delivery.

### AmqpRpc

An **actor** is a call of a client or the explorer's `discover()`; each goes
through `createChannel()` (`ToChannel`, `DialDone`, `DialFails`, `Create`), then
declares and consumes (`Declare`, `Consume`, `Bind`), then writes (`Publish`).
`TimesOut`, `HandleReply` and `CloseClient` settle a request. `Deliver`, `Returns`,
`Throws` and `Filtered` are `handle()` from delivery to acknowledgement; `Shutdown`
closes the explorer's channels one by one; `CloseBegin`, `CloseEnd` and `Refuse` are
the connection and the broker. A kind of client has one instance. A binding that names
no queue gets an `Anonymous` one, exclusive and deleted automatically: `Shut` takes it
away with what it holds and what its consumers hold, and whoever publishes before
it is bound again publishes to nobody.

### Lifecycle

A **task** is one call of a method of the application; an action runs one task
from one await to the next. `CallX` goes up to the first of them; a call that returns
at once ends in it. A microservice's `listen()` awaits that of its server, which
ends with the server: it is among the calls `serving` until `close()`, or the loss of a
RabbitMQ channel, ends it. `handle` is the one whose server the adapter or the
microservice's server refers to. `scenario` selects the
kind of application, the calls that race, the servers and which hooks may throw.
`Order` is the order of `getInstances({recursive: true})`, and `Imported` what is left
of it once the root container was `cleared`. `runs` and `opened` are history.

### HttpRequests, ExceptionFilters, Pipes

A request goes through `Receive` (the route is matched, the scope begins),
`ControllerResolved`, `Guard` (one guard per step), `Validate`, `Returns` or
`HandlerThrows`, and `Settled`, where the filters for its error, registered so
far, have their outcomes. `FilterResolved` inserts the filter that `register()`
awaited and sorts its class. Statuses are numbers, bodies are left out. `Pipes`
has a function per pipe over values `[type, is]`; what JavaScript makes of a text
(`parseInt`, `Number`, `Date`) is a constant, given per class of text. An enum of
numbers has, next to its values, the `names` that its object maps them back to.

### KvQueue, Services, CommandLine, Logger

`KvQueue`: `Connect`/`Opened`/`OpenFails`/`Close` walk the names one await at a time;
`Discover` binds the methods of each queue and listens; `Deliver`, `GuardsPass`, `Returns`,
`Throws`, `Report` take a message through `handle()`, with the `lastIndex` of an
event with flag g. A handle whose `close()` throws stays in the registry (`spoilt`),
and `close()` goes on with the next. A payload whose constructor throws in `handle()`
does so outside its `try`: the callback rejects, and Deno delivers the message again
(`Rejects`). `Services` calls the hooks of `Connections` and `Scheduler` in
the order of InjectorContext; packages may be missing and drivers may throw. The storage
and cache of a module that is global exist twice once a module that does not import
it asks for them (`UsedGlobally`, `UseGlobals`), and the hooks are those of the first.
`CommandLine` is three steps (`Scan`, `Resolve`,
`Execute`); its reference definition is the *meaning* of an intent: what the items
of a command line, written in any of their forms, ask for. `Logger` has one action
per method that changes or writes.

## 3. Runs

| Run | Question | Bounds |
|---|---|---|
| `container_graph` | Do singletons, a failing constructor, a factory, an optional field and shutdown keep `resolving` exact and singletons unique? | 5 tokens, 2 clients with 2 asks each, 5 calls in flight |
| `container_race` | Is nobody given a provider on a cycle, and is every caller answered? Are request instances private when two requests share an id? | two cycles, one closed by an optional field, each asked for from both ends by two callers; 4 tokens with an alias asked for by 2 requests of one id; 2 asks each |
| `tcp` | Is an unsettled request always in the map of a live loop; is the promise of `Rpc` kept; does every send and close settle? | 2 requests, 1 event, 2 connections; three budgets of connects, closes, listens and sends; frames that either end refuses to read |
| `rmq` | Can an asked request always be settled; are the promises of `Rpc` and `Delivery` kept, with crashes and redelivery over a broker; is a request answered beside messages that nobody can read? | 1 request, 1 event, prefetch 2, 2 dials, 2 listens, one stop and loss each, and either a close or 2 unreadable messages, which fill the window; with and without acknowledgements |
| `amqp` | Can a written request always settle; is no message lost; is the promise of `Delivery` kept; does a served message settle? | 2 calls, up to 2 consumers, 2 connections, 3 channels; five applications, one of them with an anonymous queue; at most 1 disturbance |
| `lifecycle` | Is nothing served before it is ready, are hooks run once, is everything destroyed, is every call answered, whatever races and throws? | five sets of up to four calls on the four kinds of application, 2 providers, 2 servers |
| `kv` | Is no handle leaked or closed under its user; is a message done only when decided; is the promise of `Delivery` kept; does a message settle? | 2 databases, 1 queue, 3 messages, 4 methods, 2 connects, 1 close, 1 fault |
| `kv_close` | Refuted: section 5 | the same without a fault, 1 message |
| `http` | Is a success earned; is every request answered and its scope released; are filters ordered; is what a pipe lets through sound? | 3 requests, 2 of one id, 2 controllers, 3 filters registered twice at once; 13 classes of text, up to 2 per argument, 17 pipes |
| `modules` | Do init hooks run once and in order; does a container resolve what its module sees; is every mark read? | every graph of 4 modules of the family, and every documented configuration of the packages' modules; 3 classes, 3 marks |
| `modules_global` | Refuted: section 5 | the same graphs |
| `sequential` | Does a command line do what is meant; is help harmless; does every logged argument show; can what runs be stopped; is a connection its option's own, whatever throws? | lines of up to 4 tokens against intents of up to 3 items; 1 to 3 arguments; 3 databases, 3 packages, any of them missing, 3 jobs |

Why these bounds are enough for the cases aimed at: two clients with two asks
give every pair of racing resolutions and a retry after each outcome; no graph
of the container has more than four constructible tokens, so five calls never run
out. Two connections or channels give an old one next to a new one; what three
of them do is covered by the proofs, which have no bound. In `rmq` two
unreadable messages fill a prefetch window of two: the server gets nothing more until
its channel closes, and a new one has room until they are delivered again. Two
providers, one of the root and one imported, give every order of hooks and the
difference that `clear` makes. Three requests give two in one scope and one beside it; two registrations of three filters of one class give every insertion
order. Four modules give a diamond with a root, a cycle below it, and a class that
is configured twice on two levels. Deadlock checking is off because clients,
callers and operators may stop for good, and because a run of `create()`, of the
command line or of a request comes to an end.

What a run leaves out: `lifecycle` has no `start` beside a `close` (an `init` after
a `close` that overtook the first bootstrap runs the hooks again); graphs that
configure one class twice, or whose imports are cyclic, are compiled and built, but
`InitOnceInOrder` is about the hooks of the others; `tcp`'s liveness is about runs in
which `connect()` did not open a second connection (`[]SingleConnection`), since
`close()` then awaits a read loop whose connection nobody closes. `ReadyBeforeServing`
is not about an HTTP application that `init()` or `startAllMicroservices()` also
initialises, which may serve before its routes are there. `CallSettles` counts a
microservice's `listen()` as answered while its server is up: it ends with the server, and
over RabbitMQ the server of a first `listen()` is one that `close()` does not know after a
second one. `SendSettles` of `RmqRpc` asks nothing for a request behind a window that
unreadable messages fill for good (`Clogged`), nor once an acknowledgement has gone to
another channel. `ExecutesWhatIsMeant` is about values that do not start with a dash and
lines without a global token, and `CycleNeverGiven` leaves out a field that is empty
because its token is missing. `VisibleAsDeclared` compares the provider that decides a scope
with the one that `resolve()` takes unless something the former needs, at any depth, is
missing: then `resolve()` goes on to the next module (section 5).

The mutants in `PROJECT.json` show that each property can fail: a missing check of
`resolving`, a `finally` that is lost, responses matched by arrival, consumption
without acknowledgements, timers that outlive their entries, a filter that is put
before those of its own priority, a route's guards that replace the controller's, a `close()` that does not look at
`initialized` again, a tag pushed to the list that was found, and so on.

## 4. Fairness

- `Container`: each live call takes its next step: the event loop runs every
  continuation that is ready, and constructors and factories return or throw.
  Clients need not ask, end or shut down.
- `TcpRpc`: dialling and writing end, each process takes its next step on a
  connection, handlers return or throw. Nobody has to call, close or listen, and
  the network need not fail. There is no timeout in the code, and the model says
  so by needing fairness of `Reply`.
- `RmqRpc`: as for TCP; the broker routes and delivers. `SendSettles` also asks
  that a server that can answer is there again and again, and that unreadable messages do
  not fill its window for good: these are its hypotheses and not a fairness of the code's.
- `AmqpRpc`, `KvQueue`: the broker or Deno delivers; consumers, guards and filters
  end.
- `Lifecycle`: weak fairness of `Resume(t)`: a call whose await has ended goes on;
  hooks and servers answer, with an error or without. A server need not end, and its
  `listen()` is not expected to.
- `HttpRequests`: each request takes its next step.
- The other runs check safety only.

## 5. What the code does otherwise than documented

Two statements are refuted by a run each.

`modules_global`, `GlobalIsEverywhere`: `@Global()` "Marks a module as global (its
providers are available everywhere)" (`packages/injector/decorators.ts:151`), but
`create()` registers the providers of a global module a second time, in a global
container without children. Whoever does not import the module is given an instance
that this container constructs anew, which fails when it needs what the module imports, is a second instance when it does
not, and has no hooks.

`kv_close`, `CloseClosesAll`: `close()` "Closes all open KV connections."
(`packages/kv/connections.ts:69`). Two `connect()` calls that overlap both find a name
without a handle (line 58), and the handle of the first is replaced by that of the second;
nothing can close it any more.

Others were met while modelling and are described by the models' behaviour:

- Of storage clients, "`destroy()` is invoked automatically on module shutdown"
  (`packages/s3/README.md:114-115`; the cache likewise, `packages/caching/README.md:95`).
  `onApplicationShutdown()` visits the root container and its children
  (`injector_context.ts:490`), and not the global container: what a global module made
  there for a module that does not import it stays open.
- At teardown "`RpcClient` rejects all in-flight requests and clears their timers."
  (`packages/amqp/README.md:291-292`). `handleReply()` deletes the entry and the timer before
  it deserializes the reply (`clients.ts:325`); when that throws, nothing settles the request
  any more.
- `close()` "Gracefully shuts down the application context and disposes of all providers."
  (`packages/core/application_context.ts:70`). When an `onBeforeApplicationShutdown` hook
  fails, it rejects with `initialized` reset (`application.ts:141`): nothing is destroyed,
  and a second `close()` does nothing.
- `ParseEnumPipe` returns "The matched enum member." (`packages/core/pipes/parse_enum.ts:45`)
  and refuses other values (lines 9-10). The object of an enum of numbers also maps its values
  back to the names of its members, so that a name is found among the values and returned
  as the text it is.
- `resolving` is shared by all callers, so two requests that construct the same
  provider at the same time get a `CircularDependencyError` on an acyclic graph.
  The same mark is what makes singletons unique.
- `clearContext` clears the root container only; those of imported modules keep
  the request's instances. AMQP and KV handlers never clear theirs.
- `connect()` on a connected `TcpClient` opens a second connection; when the first
  ends, its `finally` also rejects the requests of the second and forgets it.
  `TcpServer.close()` leaves accepted connections open. An answer that cannot be
  serialized is dropped, and its caller waits until the connection ends. A frame that the
  server cannot read, also that of an event, closes the connection, and the requests that
  wait on it are rejected.
- A message that `RmqServer` cannot read is never acknowledged: as many as the prefetch
  count stop the server until its channel closes, and no `send` settles. An acknowledgement
  goes to the channel of its own time, where the tag may be another message's. A second
  `listen()` of a microservice over RabbitMQ opens another connection and forgets the first.
- A binding of an AMQP consumer that names no queue has one that is deleted with its
  channel: what waits in it, and what its consumers have not acknowledged, is lost.
- A queue message whose payload class throws in its constructor makes the callback of the
  listener reject, and Deno delivers it again.
- `isBootstrapped` is set after the hooks, and a plain application or a microservice
  sets `initialized` last: two concurrent `init()` calls run each bootstrap hook
  twice. A `listen()` that awaits `init()` starts the adapter also after a `close()`
  in between; when `init()` fails, it never starts and is never told.
- `ClientsModule` connects eagerly "so connection failures surface at bootstrap
  time" (`packages/microservices/clients_module.ts:47`), but errors of the
  initialisation of a module's providers are dropped
  (`packages/injector/injector_context.ts:201`).
- `GLOBAL_MODULE_METADATA` is said to make a module's *exports* available
  (`packages/injector/constants.ts:10`); all of its providers are.
- Of two dynamic modules of one class, one is dropped. Cyclic imports are compiled
  and then overflow the stack. Controllers, crons and commands of a module that is
  neither the root nor imported by it directly are not found, and those that are
  found but not exported cannot be resolved by the root.
- A missing dependency of a dependency is reported as a missing token, so an
  optional field swallows it, and a provider of the same token in another module may
  be taken instead. The constructor of a class on a cycle runs before the cycle is
  detected. A transient that another provider asks for is never given its `onModuleInit()`.
- A list that a decorator finds through the prototype is the parent's: `@Inject`,
  `@Queued`, `@Cron`, `@Get`, `@UseGuards` and `@Option` of a subclass change the
  parent and its other subclasses. Only `@Tags` copies.
- A filter that throws before it returns a promise makes `handle()` reject. Several
  filters with a value give an array.
- `ParseDatePipe` refuses the number 0; `ParseEnumPipe` takes the empty text for 0;
  `ParseIntPipe` passes numbers that are not integers.
- `error(message, stack, context)` takes the context for the stack when there is more
  than one further text; `overrideLogger` has no effect while the static reference
  is itself a `Logger`, and `null` does not restore a label that was undefined.
- A job whose name the registry refuses has been started; fired timeouts stay in the
  registry; crons are not aborted at shutdown. Two databases of one name and type:
  the first is overwritten and never closed; no database is closed at shutdown. With a
  `pool`, the `drizzle` options of a database are not used. A
  `DrizzleOrmModule.registerAsync` that injects `ConfigService` has no imports, so
  this works for global tokens only.
- `verifyOptions` of `JwtModule`, "applied to every verify operation"
  (`packages/jwt/common.ts:78`), are not used, and the module's secret wins over a
  key given to the call (`packages/jwt/jwt_service.ts:158`).

## 6. Proofs

All for every value of the constants that satisfies the named assumptions, with
no bound on tokens, clients, connections, channels, messages, requests or calls.
Each inductive argument has a step or a lemma per action; each inductive invariant
was first checked by TLC on the run of its module. The assumptions say that
constants have their types (a list is a sequence, a graph's dependencies are tokens)
and, where the code relies on it, that names are distinct: the servers of an
application and the providers in the order of their hooks (`ScenarioAssumption`),
the names of the databases (`NamesAssumption`). Only a date pipe has a default
(`PipeAssumption`). The classes of a program are numbered in the order of their
definitions, and a class extends an earlier one (`ProgramAssumption`).

| Property | Theorem | Why it holds |
|---|---|---|
| `ResolvingIsInFlight` | `InFlightCorrect` | settling removes the call and its token together |
| `SingletonBuiltOnce` | `SingletonCorrect` | `MadeIsStored`: a singleton that was made is in store, or its container was cleared |
| `CycleNeverGiven` | `CycleCorrect` | about what anybody is given, since constructors run first. `DepsArrive`: the first token of an unfounded set to be complete would need an earlier one, or have left out a field whose token lasts, which is never not found (`LastingIsFound`); what is given was complete (`StoredWasMade`, `AnswersWereMade`) |
| `RequestInstancesPrivate` | `RequestsIsolated` | `RequestsNumbered`: an instance in a scope is one its token's provider made |
| `ContextInstanceStable` | `ContextsStable` | `AwaitedByContext`: while an instance is built for a context the context has none, and a deleted context is forgotten by the call |
| `ConnIsRead`, `SentIsAwaited` | `ConnCorrect`, `AwaitedCorrect` | the one serves where a request is written; `EndLoop` settles all pending requests, even those of another connection |
| `ImplementsRpc` of `TcpRpc` | `TransportImplementsRpc` | `OnceInv`: a request is in one place until its handler starts, one connection awaits its handler, a value is that of a handler that has returned |
| `AskedIsPending` | `AskedStaysPending` | whatever takes an entry settles its request |
| `NothingLost` of `RmqRpc`, until an acknowledgement is misdirected | `NothingIsLost` | `TagsMatch`: on the open channel a tag is one message's, that of the handler that has it |
| `ImplementsRpc` of `RmqRpc` | `TransportImplementsRpc` | as for TCP, when the server runs with `noAck`; with acknowledgements a request can be handled twice, which `Rpc` does not allow |
| `AskedCanSettle` | `RequestsCanSettle` | inductive with the types |
| `NothingLost` of `AmqpRpc`, but for what an anonymous queue held | `NothingIsLost` | a handler on an open channel holds its message alone, and a message in the filters has an outcome |
| `ImplementsDelivery` of `RmqRpc` | `ServerImplementsDelivery` | `HoldsOwn`: a handler of the open channel has its tag for itself and holds its message, unless an acknowledgement went astray; so what it acknowledges is its own (`HitsOwn`) |
| `ImplementsDelivery` of `AmqpRpc` | `ConsumersImplementDelivery` | the same without that exception, since a consumer keeps its channel, and with that of anonymous queues, whose messages are `volatile`; a message with a handler has been started (`StartedInv`) |
| `ImplementsDelivery` of `KvQueue` | `ListenerImplementsDelivery` | `HeldInv`: a callback on an open handle alone holds its message and has started it; one whose handle was closed settles nothing |
| `HandlesOwned` | `HandlesAreOwned` | `OwnedInv`: while no calls overlap there is one `connect()` at most, and what it opens replaces no handle, by the least index that is not open; a handle in the registry is closed only if its `close()` has thrown |
| `DoneIsDecided` | `ForgottenIsDecided` | `FoundIsFor`: what `find()` gives is meant for the message, and it misses none but those whose `lastIndex` is past the match |
| `ReadyBeforeServing` | `ServesWhenReady` | `ServeInv`: a task that has left the bootstrap phase finds it done, one that is about to serve finds the routes too, and an `HttpApplication` that only `listen()` initialises is not initialised before |
| `DisposedOncePerInit` | `DisposesOncePerInit` | `DisposeInv`, a count: destructions done, calls that owe one and the present initialisation are together no more than the initialisations |
| `ClosedIsDisposed` | `ClosedWasDisposed` | `ClosedInv`: a call is before or in the destroy phase, with all that is not destroyed in its list, or everything is destroyed |
| `BootstrapOnce` | `BootstrapsOnce` | `BootInv`: one call at most is bootstrapping, it has marked the application before, and what is in its list has not run |
| `FiltersOrdered` | `FiltersStayOrdered` | `SortedIsOrdered`: inserting the newest entry keeps a list in order |
| `ScopesReleased` | `ScopesAreReleased` | every path to "done" leaves by `Respond`, which clears the scope |
| `SuccessIsEarned` | `SuccessEarned` | `EarnedInv`: past the guards none is unasked; those that passed are declared and distinct; before the filters there is no error |
| `PipesAreSound`, but for the names of an enum of numbers | `PipesSound` | `ParseIsSound`, pipe by pipe, and `MissingIsRefused` |
| `OwnConnections` | `ConnectionsAreOwn` | `ConnectionsInv`: a factory is the one of its type, and what is kept under a name belongs to it and was reached |
| `Stoppable` | `AllStoppable` | `StoppableInv`: the discovery ends with the first job that the registry refuses |
| `EveryArgumentShows` | `EverythingIsShown` | lemma by lemma, each way of taking context and stack apart leaves the texts where the lines of the output put them |
| `HelpIsHarmless` | `HelpHarmless` | `PreScanScans`: for a line of any length, the scan has seen the help flag unless a separator came first; with it, or without a command, none is executed, and the run fails exactly when the one command or help topic of the line does not exist (`NamesOne`) |
| `MarksAreRead` | `EveryMarkIsRead` | `DecoratorsInv`: each kind of mark has a key, and each key keeps the lists it finds (`KeyInv`) for all classes at once; ancestors are a chain, so that a list that is replaced is read by those that extend its class, or shared it before (`ReadChange`) |

`TypeCorrect` is proved in each of them where it is listed. The phases of `Lifecycle`
walk lists made with `SelectSeq`; `LifecycleProofs` has the lemmas that such a list is
without repetition and holds what it should (`PhaseInv`).

Where the code loops over data, the model has the outcome in closed form, so that it
can be reasoned about without induction: `DiscoverProvider` of `Scheduler` is the jobs
up to the first that Deno or the registry refuses; `Routes` of `HttpRequests` a set of
positions with the order of registration, of which the first that matches is taken, as
is the first of `MethodsOf` in `KvQueue`; `All` of `Pipes` the values up to the first that
is refused. Two clauses of the properties are there because the proof fails without
them: an `HttpException` may be thrown with any status, also a 2xx
(`SuccessIsEarned`), and `test()` of an event with flag g or y misses what it matches
(`DoneIsDecided`).

A recursion over a sequence is a recursive function on its length (`PreScan`), and the
proof takes the least length for which the claim would fail: the library's induction
theorems have an operator for a parameter, which the provers cannot instantiate, but the
least element of a set of numbers is enough (`LeastOf`). The ancestors of a class are the
least set closed under `Parent`, for the same reason.

*Model-checked only.* Every liveness property, since fairness and ENABLED are outside
the provers' reach. `InitOnceInOrder`, `VisibleAsDeclared` and `GlobalIsEverywhere` are
about recursive operators over a module graph, and `ExecutesWhatIsMeant` compares a fold
of the parser over the tokens of a line with a recursive rendering: what they compute
would have to be shown by induction over graphs and over folds.

`NothingLost` of `RmqRpc` and of `AmqpRpc` follows from `ImplementsDelivery` (a message is
gone only when its consumer is over), and `DoneIsDecided` is a part of that of `KvQueue`: the
runs check the larger property, and the three are theorems of their own because its proofs
rest on them.

## 7. Not modelled

- Byte-level frame assembly and partial writes of the TCP codec; process
  termination by an unhandled rejection.
- `tryResolve`, `ModuleRef.create`; HTTP bodies and headers, and the tables of
  status codes and exception classes (`core/http/status.ts` and its neighbours
  are constants); help texts and their formatting.
- `connectMicroservice`, `useGlobalGuards` and the application factory, which run
  before anything else does.
- jwt's signing and verification, queries, objects and cache entries: stateless
  calls into third-party libraries. The testing module rewrites providers before
  the injector starts.

## 8. What is left

1. A `FrameCodec` that assembles frames from arbitrary splits of the stream, with
   writes that are partial, composed with `TcpRpc`.
2. `getInstances` of `ModuleGraph` as the `Order` of `Lifecycle`: what the reverse
   order of shutdown destroys first.
