----------------------------- MODULE Lifecycle -----------------------------
(***************************************************************************)
(* The life of an application: Application, HttpApplication and            *)
(* MicroserviceApplication (packages/core) over the hook phases of         *)
(* InjectorContext (packages/injector/injector_context.ts).                *)
(*                                                                         *)
(* A task is one call of a method of the application.  Calls are made at   *)
(* any time, also while others await a hook, an adapter or a server.  An   *)
(* action runs one task from one await to the next.  A microservice has    *)
(* one server, a TcpServer or a RmqServer, and its listen() awaits that    *)
(* of the server, which ends with the server.                              *)
(***************************************************************************)
EXTENDS Naturals, Sequences, SequencesExt

CONSTANTS
  Order,      \* the providers, in the order of getInstances({recursive: true})
  Imported,   \* those that it lists once the root container is cleared, in order
  Scenarios   \* what may be run: [app, op, servers, faulty], see below

Ops == {"init", "listen", "start", "close", "run"}
Hooks == {"bootstrap", "before", "destroy", "shutdown"}
Providers == Range(Order)

ASSUME ScenarioAssumption ==
  /\ Order \in Seq(Providers) /\ IsInjective(Order)
  /\ Imported \in Seq(Providers) /\ IsInjective(Imported)
  /\ \A s \in Scenarios :
       /\ s.app \in {"plain", "http", "tcp", "rmq"}
       /\ \A t \in DOMAIN s.op : s.op[t] \in Ops
       /\ \A t \in DOMAIN s.op : s.op[t] = "start" => s.app = "http"
       /\ \A t \in DOMAIN s.op : s.op[t] = "listen" => s.app # "plain"
       /\ IsInjective(s.servers)
       /\ s.faulty \subseteq Hooks \X Providers

VARIABLES
  scenario,          \* the application and the calls that are made
  initialized,       \* Application.initialized
  exceptionHandler,  \* whether Application.exceptionHandler is resolved
  listening,         \* HttpApplication.listening: "no", "pending" or "active"
  serving,           \* the listen() calls whose server accepts requests
  handle,            \* of these the one whose server the adapter, or the server
                     \* of the microservice, refers to, if any
  attached,          \* connected server -> "off", "bare" (no handler) or "on"
  mapped,            \* the routes are registered with the adapter
  isBootstrapped, isShuttingDown,
  cleared,           \* the root container is cleared
  tasks,             \* task -> where it is
  runs,              \* hook -> provider -> how often it was called (history)
  opened             \* how often `initialized` became true (history)

app == <<initialized, exceptionHandler, listening, serving, handle, attached, mapped>>
ctx == <<isBootstrapped, isShuttingDown, cleared, runs>>
vars == <<scenario, app, ctx, tasks, opened>>

App == scenario.app           \* "plain", "http", or a microservice: "tcp" or "rmq"
Op == scenario.op             \* the method each task calls
Tasks == DOMAIN Op
Servers == scenario.servers   \* the servers, in the order of connectMicroservice()
Connected == Range(Servers)
Faulty == scenario.faulty     \* <<hook, provider>>: the hooks that may throw

-----------------------------------------------------------------------------
\* `todo`: providers whose hook is to be called, or servers to be started, in
\* order; `all`: the instances onApplicationShutdown() has read; `seen`: the server
\* that close() found to shut down, if any.
Idle == [at |-> "idle", todo |-> <<>>, all |-> <<>>, failed |-> FALSE, seen |-> {}]

Over(t) == tasks[t].at \in {"done", "rejected"}
Goto(t, place) == [tasks EXCEPT ![t].at = place]
Phase(t, hook, todo) ==
  [tasks EXCEPT ![t].at = hook, ![t].todo = todo, ![t].failed = FALSE]
Instances == IF cleared THEN Imported ELSE Order

\* `initialized` is assigned v.
Initialized(v) ==
  /\ initialized' = v
  /\ opened' = IF v /\ ~initialized THEN opened + 1 ELSE opened

-----------------------------------------------------------------------------
(* init().                                                                 *)

\* Faulty variant: every application marks itself initialised at the end.
MutMarkLate == UNCHANGED <<initialized, opened>>

\* HttpApplication marks itself initialised before its first await.
MarkEarly ==
  IF App = "http" THEN Initialized(TRUE) ELSE UNCHANGED <<initialized, opened>>

\* init() up to the await of the exception handler and the controller mapping.
EnterInit(t) ==
  /\ MarkEarly
  /\ tasks' = Goto(t, "prepare")
  /\ UNCHANGED <<exceptionHandler, serving, handle, attached, mapped, ctx>>

\* onApplicationBootstrap() reads the instances, unless isBootstrapped.
Prepare(t) ==
  /\ tasks[t].at = "prepare"
  /\ exceptionHandler' = TRUE
  /\ tasks' = IF isBootstrapped THEN Goto(t, "ready") ELSE Phase(t, "bootstrap", Instances)
  /\ UNCHANGED <<initialized, listening, serving, handle, attached, mapped, ctx, opened>>

\* The next of the providers, or of the servers, is behind the task.
Advance(t) == [tasks EXCEPT ![t].todo = Tail(@)]

\* Faulty variant: a phase ends with its first error.
MutCollectStops(t) == [tasks EXCEPT ![t].todo = <<>>, ![t].at = "rejected"]

\* The hook threw: its error is kept for the end of the phase.
Collect(t) == [Advance(t) EXCEPT ![t].failed = TRUE]

\* A phase awaits the hook of the next provider.
RunHook(t) ==
  LET hook == tasks[t].at IN
  /\ hook \in Hooks
  /\ tasks[t].todo # <<>>
  /\ LET p == Head(tasks[t].todo) IN
     /\ runs' = [runs EXCEPT ![hook][p] = @ + 1]
     /\ \/ tasks' = Advance(t)
        \/ <<hook, p>> \in Faulty /\ tasks' = Collect(t)
  /\ UNCHANGED <<app, isBootstrapped, isShuttingDown, cleared, opened>>

EndBootstrap(t) ==
  /\ tasks[t].at = "bootstrap"
  /\ tasks[t].todo = <<>>
  /\ isBootstrapped' = TRUE
  /\ tasks' = Goto(t, IF tasks[t].failed THEN "rejected" ELSE "ready")
  /\ UNCHANGED <<app, isShuttingDown, cleared, runs, opened>>

\* The end of init(), and what its caller does next.
EndInit(t) ==
  /\ tasks[t].at = "ready"
  /\ IF App = "http" THEN mapped' = TRUE /\ UNCHANGED <<initialized, opened>>
                     ELSE Initialized(TRUE) /\ UNCHANGED mapped
  /\ tasks' = CASE Op[t] = "init"   -> Goto(t, "done")
               [] Op[t] = "listen" -> Goto(t, "serve")
               [] Op[t] = "start"  -> Phase(t, "attach", Servers)
               [] OTHER            -> Goto(t, "command")
  /\ UNCHANGED <<exceptionHandler, listening, serving, handle, attached, ctx>>

CallInit(t) ==
  /\ tasks[t].at = "idle"
  /\ Op[t] = "init"
  /\ \/ ~initialized /\ EnterInit(t) /\ UNCHANGED listening
     \/ /\ initialized
        /\ tasks' = Goto(t, "done")
        /\ UNCHANGED <<app, ctx, opened>>

-----------------------------------------------------------------------------
(* listen(), startAllMicroservices().                                      *)

\* Faulty variant: a listen() that waits for init() does not hold back the next.
MutHeldBackIgnoresPending == listening = "active"

\* HonoAdapter.listen(), or the listen() of the microservice's server, for call t.
Accept(t) == serving' = serving \cup {t} /\ handle' = {t}

\* HttpApplication.listen() does nothing when another call listens or will.
HeldBack == listening # "no"

\* listen(): an application that is not initialised is initialised first; one
\* that is, or that is just being initialised, listens at once.
CallListen(t) ==
  /\ tasks[t].at = "idle"
  /\ Op[t] = "listen"
  /\ \/ /\ ~initialized
        /\ EnterInit(t)
        /\ listening' = IF App = "http" /\ listening # "active" THEN "pending"
                                                              ELSE listening
     \/ /\ initialized
        /\ tasks' = Goto(t, "done")
        /\ IF App = "http" /\ ~HeldBack
           THEN listening' = "active" /\ Accept(t)
           ELSE UNCHANGED <<listening, serving, handle>>
        /\ UNCHANGED <<initialized, exceptionHandler, attached, mapped, ctx, opened>>

\* After init(): the adapter, if this is still pending; the server, in any case.  The
\* server may refuse to listen, as Deno does when another TcpServer has the port.
Serve(t) ==
  /\ tasks[t].at = "serve"
  /\ \/ /\ App = "http"
        /\ IF listening = "pending" THEN listening' = "active" /\ Accept(t)
                                    ELSE UNCHANGED <<listening, serving, handle>>
        /\ tasks' = Goto(t, "done")
     \/ /\ App = "rmq" \/ (App = "tcp" /\ serving = {})
        /\ Accept(t)
        /\ tasks' = Goto(t, "listening")
        /\ UNCHANGED listening
     \/ /\ App \in {"tcp", "rmq"}
        /\ tasks' = Goto(t, "rejected")
        /\ UNCHANGED <<listening, serving, handle>>
  /\ UNCHANGED <<initialized, exceptionHandler, attached, mapped, ctx, opened>>

\* Faulty variant: listen() looks at the connection that the server refers to.
MutEndedIsHeld(t) == t \in handle /\ t \notin serving

\* The listener, or the connection, that listen() t has opened is closed.
Ended(t) == t \notin serving

\* The accept loop of TcpServer ends; RmqServer hears of "close", and rejects when no
\* close() says any more that it is closing.
EndListen(t) ==
  /\ tasks[t].at = "listening"
  /\ Ended(t)
  /\ tasks' = Goto(t, "done") \/ (App = "rmq" /\ tasks' = Goto(t, "rejected"))
  /\ UNCHANGED <<app, ctx, opened>>

\* The connection of RmqServer fails, or is closed by the broker.
Lose(t) ==
  /\ tasks[t].at = "listening"
  /\ App = "rmq"
  /\ serving' = serving \ {t}
  /\ tasks' = Goto(t, "rejected")
  /\ UNCHANGED <<initialized, exceptionHandler, listening, handle, attached, mapped, ctx, opened>>

\* startAllMicroservices() does nothing when no server is connected.
CallStart(t) ==
  /\ tasks[t].at = "idle"
  /\ Op[t] = "start"
  /\ \/ ~initialized /\ Servers # <<>> /\ EnterInit(t) /\ UNCHANGED listening
     \/ /\ initialized \/ Servers = <<>>
        /\ tasks' = Phase(t, "attach", Servers)
        /\ UNCHANGED <<app, ctx, opened>>

\* The connected servers after those that were started are closed again.
RolledBack(started) ==
  [s \in Connected |-> IF s \in started THEN "off" ELSE attached[s]]

\* The next server is given the exception handler and listens, or refuses to:
\* then those this call has started are closed.
Attach(t) ==
  /\ tasks[t].at = "attach"
  /\ tasks[t].todo # <<>>
  /\ LET server == Head(tasks[t].todo) IN
     \/ /\ attached' = [attached EXCEPT ![server] =
                         IF exceptionHandler THEN "on" ELSE "bare"]
        /\ tasks' = Advance(t)
     \/ /\ attached' = RolledBack(Connected \ Range(tasks[t].todo))
        /\ tasks' = [tasks EXCEPT ![t].at = "rejected", ![t].todo = <<>>]
  /\ UNCHANGED <<initialized, exceptionHandler, listening, serving, handle, mapped,
                 ctx, opened>>

EndStart(t) ==
  /\ tasks[t].at = "attach"
  /\ tasks[t].todo = <<>>
  /\ tasks' = Goto(t, "done")
  /\ UNCHANGED <<app, ctx, opened>>

-----------------------------------------------------------------------------
(* close(), runCommandLine().                                              *)

\* runCommandLine() is init(), the command and close().
CallRun(t) ==
  /\ tasks[t].at = "idle"
  /\ Op[t] = "run"
  /\ \/ ~initialized /\ EnterInit(t) /\ UNCHANGED listening
     \/ /\ initialized
        /\ tasks' = Goto(t, "command")
        /\ UNCHANGED <<app, ctx, opened>>

\* close() up to its first await, which TcpServer.close() has only after the listener.
CallClose(t) ==
  /\ (tasks[t].at = "idle" /\ Op[t] = "close") \/ tasks[t].at = "command"
  /\ tasks' = Goto(t, CASE ~initialized            -> "done"
                        [] App \in {"http", "rmq"} -> "stop"
                        [] OTHER                   -> "super")
  /\ IF initialized /\ App = "tcp" THEN serving' = serving \ handle /\ handle' = {}
                                  ELSE UNCHANGED <<serving, handle>>
  /\ UNCHANGED <<initialized, exceptionHandler, listening, attached, mapped, ctx, opened>>

\* The connected servers, or the channel of the RmqServer, have closed; what the adapter
\* or the server refers to is being closed.
StopServers(t) ==
  /\ tasks[t].at = "stop"
  /\ attached' = [s \in Connected |-> "off"]
  /\ tasks' = [tasks EXCEPT ![t].at = "adapter", ![t].seen = handle]
  /\ UNCHANGED <<initialized, exceptionHandler, listening, serving, handle, mapped,
                 ctx, opened>>

\* It has closed, and the adapter or the server drops the one it refers to now.
StopAdapter(t) ==
  /\ tasks[t].at = "adapter"
  /\ serving' = serving \ tasks[t].seen
  /\ handle' = {}
  /\ tasks' = Goto(t, "super")
  /\ UNCHANGED <<initialized, exceptionHandler, listening, attached, mapped, ctx, opened>>

\* Faulty variant: close() does not look at `initialized` again after its awaits.
MutStillOpen(t) == TRUE

\* Application.close() looks at `initialized` itself.
StillOpen(t) == initialized

\* Application.close() up to the first hook: onBeforeApplicationShutdown() does
\* nothing the second time.
EnterClose(t) ==
  /\ tasks[t].at = "super"
  /\ IF StillOpen(t)
     THEN /\ Initialized(FALSE)
          /\ isShuttingDown' = TRUE
          /\ tasks' = Phase(t, "before",
                            IF isShuttingDown THEN <<>> ELSE Reverse(Instances))
     ELSE /\ tasks' = Goto(t, "done")
          /\ UNCHANGED <<initialized, opened, isShuttingDown>>
  /\ UNCHANGED <<exceptionHandler, listening, serving, handle, attached, mapped,
                 isBootstrapped, cleared, runs>>

\* A failing hook rejects close(), and the next phase is not entered.
EndBefore(t) ==
  /\ tasks[t].at = "before"
  /\ tasks[t].todo = <<>>
  /\ tasks' = IF tasks[t].failed THEN Goto(t, "rejected")
              ELSE [Phase(t, "destroy", Reverse(Instances)) EXCEPT
                      ![t].all = Reverse(Instances)]
  /\ UNCHANGED <<app, ctx, opened>>

\* The errors of onModuleDestroy() do not keep onApplicationShutdown() from
\* being called, on the instances read before.
EndDestroy(t) ==
  /\ tasks[t].at = "destroy"
  /\ tasks[t].todo = <<>>
  /\ tasks' = [tasks EXCEPT ![t].at = "shutdown", ![t].todo = tasks[t].all]
  /\ UNCHANGED <<app, ctx, opened>>

\* The root container is cleared, whatever failed.
EndShutdown(t) ==
  /\ tasks[t].at = "shutdown"
  /\ tasks[t].todo = <<>>
  /\ cleared' = TRUE
  /\ tasks' = Goto(t, IF tasks[t].failed THEN "rejected" ELSE "done")
  /\ UNCHANGED <<app, isBootstrapped, isShuttingDown, runs, opened>>

-----------------------------------------------------------------------------
Init ==
  /\ scenario \in Scenarios
  /\ initialized = FALSE /\ exceptionHandler = FALSE
  /\ listening = "no" /\ serving = {} /\ handle = {} /\ mapped = FALSE
  /\ attached = [s \in Connected |-> "off"]
  /\ isBootstrapped = FALSE /\ isShuttingDown = FALSE
  /\ cleared = FALSE
  /\ tasks = [t \in Tasks |-> Idle]
  /\ runs = [h \in Hooks |-> [p \in Providers |-> 0]]
  /\ opened = 0

Step(t) ==
  \/ Prepare(t) \/ RunHook(t) \/ EndBootstrap(t) \/ EndInit(t) \/ Serve(t) \/ EndListen(t)
  \/ Attach(t) \/ EndStart(t) \/ StopServers(t) \/ StopAdapter(t) \/ EnterClose(t)
  \/ EndBefore(t) \/ EndDestroy(t) \/ EndShutdown(t)

Call(t) == CallInit(t) \/ CallListen(t) \/ CallStart(t) \/ CallRun(t) \/ CallClose(t)

Next == UNCHANGED scenario /\ \E t \in Tasks : Call(t) \/ Step(t) \/ Lose(t)

\* What is awaited settles, and the event loop runs what awaited it.
Resume(t) == UNCHANGED scenario /\ t \in Tasks /\ (Step(t) \/ (tasks[t].at # "idle" /\ CallClose(t)))

TaskNames == UNION {DOMAIN s.op : s \in Scenarios}

Spec == Init /\ [][Next]_vars /\ \A t \in TaskNames : WF_vars(Resume(t))
-----------------------------------------------------------------------------
Calls(ops) == \E t \in Tasks : Op[t] \in ops

\* Safety.  However listen() and close() calls race, an application accepts no request
\* before the bootstrap hooks are done and HttpApplication's routes are registered, as
\* long as nothing but listen() initialises it.
ReadyBeforeServing ==
  serving # {} /\ ~(App = "http" /\ Calls({"init", "start", "run"})) =>
    isBootstrapped /\ (App = "http" => mapped)

\* Safety.  Concurrent close() calls, which all pass the first check and await the
\* servers, dispose of the application once for each time it was initialised.
DisposedOncePerInit == \A p \in Providers : runs["destroy"][p] <= opened

\* Safety.  The bootstrap hook of a provider of an HttpApplication runs at most once,
\* whoever calls init(), listen() or startAllMicroservices() while it runs, as long as
\* nobody closes it.
BootstrapOnce ==
  App = "http" /\ ~Calls({"close", "run"}) => \A p \in Providers : runs["bootstrap"][p] <= 1

\* Safety.  When an application is no longer initialised and no call is inside its
\* shutdown, its providers were destroyed, whatever hooks failed on the way, if those of
\* onBeforeApplicationShutdown() did not.
ClosedIsDisposed ==
  ( /\ opened > 0 /\ ~initialized
    /\ \A p \in Providers : <<"before", p>> \notin Faulty
    /\ \A t \in Tasks : tasks[t].at \notin {"before", "destroy", "shutdown"} )
    => \A p \in Providers : runs["destroy"][p] > 0

\* The listen() of a microservice whose server is up.
Serves(t) == tasks[t].at = "listening" /\ t \in serving

\* A call that its caller expects to be answered.
Awaited(t) == t \in Tasks /\ tasks[t].at # "idle" /\ ~Over(t) /\ ~Serves(t)

\* Liveness.  Every call of a method of the application is answered, whatever hooks fail
\* and whichever other calls change the flags that it looks at between its awaits, but
\* for the listen() of a microservice: that is answered once its server is closed or lost.
CallSettles == \A t \in TaskNames : []<>~Awaited(t)
=============================================================================
