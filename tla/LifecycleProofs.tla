--------------------------- MODULE LifecycleProofs ---------------------------
(***************************************************************************)
(* Proofs about Lifecycle, for any providers, any scenarios and any number *)
(* of concurrent calls: no request is accepted before the application is   *)
(* bootstrapped and, over HTTP, its routes are registered; each provider   *)
(* is destroyed at most once for each time the application was             *)
(* initialised, and at least once when it is closed; and the bootstrap     *)
(* hooks of an HttpApplication run at most once.                           *)
(***************************************************************************)
EXTENDS Lifecycle, FiniteSetTheorems, TLAPS

-----------------------------------------------------------------------------
(* Where the tasks are.                                                    *)

\* Each task has a place.
TaskShape ==
  /\ DOMAIN tasks = Tasks
  /\ \A t \in Tasks : DOMAIN tasks[t] = {"at", "todo", "all", "failed", "seen"}

\* Task t is at `place` after the step, and no other has moved.
Arrives(t, place) ==
  \A u \in Tasks : tasks'[u].at = IF u = t THEN place ELSE tasks[u].at

\* Each way of writing the next place of a task takes it there.
LEMMA GotoArrives ==
  ASSUME TaskShape, UNCHANGED scenario, NEW t \in Tasks, NEW place, tasks' = Goto(t, place)
  PROVE  TaskShape' /\ Arrives(t, place)
BY DEF TaskShape, Goto, Arrives, Tasks, Op

\* A phase with its providers or servers.
LEMMA PhaseArrives ==
  ASSUME TaskShape, UNCHANGED scenario, NEW t \in Tasks, NEW hook, NEW todo, NEW all,
         \/ tasks' = Phase(t, hook, todo)
         \/ tasks' = [Phase(t, hook, todo) EXCEPT ![t].all = all]
  PROVE  TaskShape' /\ Arrives(t, hook)
BY DEF TaskShape, Phase, Arrives, Tasks, Op

\* A phase whose next provider or server is behind the task.
LEMMA AdvanceArrives ==
  ASSUME TaskShape, UNCHANGED scenario, NEW t \in Tasks,
         tasks' = Advance(t) \/ tasks' = Collect(t)
  PROVE  TaskShape' /\ Arrives(t, tasks[t].at)
BY DEF TaskShape, Advance, Collect, Arrives, Tasks, Op

\* A place together with what is left to do, or with whether the adapter listened.
LEMMA ExceptArrives ==
  ASSUME TaskShape, UNCHANGED scenario, NEW t \in Tasks, NEW place, NEW x,
         \/ tasks' = [tasks EXCEPT ![t].at = place, ![t].todo = x]
         \/ tasks' = [tasks EXCEPT ![t].at = place, ![t].seen = x]
  PROVE  TaskShape' /\ Arrives(t, place)
BY DEF TaskShape, Arrives, Tasks, Op

-----------------------------------------------------------------------------
(* No request before the application is ready.                             *)

ListenOnly == App = "http" => ~Calls({"init", "start", "run"})

Ready == isBootstrapped /\ (App = "http" => mapped)

\* Strengthening ReadyBeforeServing to an inductive invariant: who has left the bootstrap
\* phase finds it done, who is about to serve finds the routes too, and an HttpApplication
\* that only listen() initialises is not initialised before it is to listen.
ServeInv ==
  /\ TaskShape
  /\ \A t \in Tasks : tasks[t].at = "ready" => isBootstrapped
  /\ \A t \in Tasks : tasks[t].at = "serve" => Ready
  /\ App = "http" /\ ListenOnly /\ listening = "no" => ~initialized
  /\ ListenOnly /\ serving # {} => Ready

\* The initial state satisfies it.
LEMMA InitServe == Init => ServeInv
BY DEF Init, ServeInv, TaskShape, Idle

\* A step that takes a task elsewhere than to "ready" or "serve", and neither starts to
\* serve nor initialises the application without listen(), keeps it.
LEMMA ElsewhereKeeps ==
  ASSUME ServeInv, UNCHANGED scenario, NEW t \in Tasks, NEW place, TaskShape', Arrives(t, place),
         place = "ready" => isBootstrapped', place = "serve" => Ready',
         isBootstrapped => isBootstrapped', mapped => mapped',
         serving' \subseteq serving \/ Ready' \/ ~ListenOnly,
         initialized' => initialized \/ App # "http" \/ listening' # "no" \/ ~ListenOnly,
         listening' = "no" => listening = "no"
  PROVE  ServeInv'
BY DEF ServeInv, Arrives, Ready, ListenOnly, Calls, App, Tasks, Op

\* The parts of init() keep it.
LEMMA InitStepsServe ==
  ASSUME ServeInv, UNCHANGED scenario, NEW t \in Tasks,
         Prepare(t) \/ RunHook(t) \/ EndBootstrap(t) \/ EndInit(t)
  PROVE  ServeInv'
<1> USE DEF ServeInv
<1>1. CASE Prepare(t)
  <2>1. UNCHANGED <<isBootstrapped, mapped, serving, initialized, listening>>
    BY <1>1 DEF Prepare, ctx
  <2>2. CASE isBootstrapped
    <3>1. TaskShape' /\ Arrives(t, "ready")
      BY <1>1, <2>2, GotoArrives DEF Prepare
    <3> QED BY <2>1, <2>2, <3>1, ElsewhereKeeps
  <2>3. CASE ~isBootstrapped
    <3>1. TaskShape' /\ Arrives(t, "bootstrap")
      BY <1>1, <2>3, PhaseArrives DEF Prepare
    <3> QED BY <2>1, <3>1, ElsewhereKeeps
  <2> QED BY <2>2, <2>3
<1>2. CASE RunHook(t)
  <2>1. UNCHANGED <<isBootstrapped, mapped, serving, initialized, listening>>
    BY <1>2 DEF RunHook, app
  <2>2. TaskShape' /\ Arrives(t, tasks[t].at)
    BY <1>2, AdvanceArrives DEF RunHook
  <2>3. tasks[t].at \notin {"ready", "serve"}
    BY <1>2 DEF RunHook, Hooks
  <2> QED BY <2>1, <2>2, <2>3, ElsewhereKeeps
<1>3. CASE EndBootstrap(t)
  <2>1. isBootstrapped' /\ UNCHANGED <<mapped, serving, initialized, listening>>
    BY <1>3 DEF EndBootstrap, app
  <2>2. PICK place \in {"rejected", "ready"} : TaskShape' /\ Arrives(t, place)
    BY <1>3, GotoArrives DEF EndBootstrap
  <2> QED BY <2>1, <2>2, ElsewhereKeeps
<1>4. CASE EndInit(t)
  <2>1. isBootstrapped /\ UNCHANGED <<isBootstrapped, serving, listening>>
    BY <1>4 DEF EndInit, ctx
  <2>2. /\ App = "http" => mapped' /\ UNCHANGED initialized
        /\ App # "http" => UNCHANGED mapped
    BY <1>4 DEF EndInit
  <2>3. Ready'
    BY <2>1, <2>2 DEF Ready, App
  <2>4. PICK place \in {"done", "serve", "attach", "command"} : TaskShape' /\ Arrives(t, place)
    <3>1. CASE Op[t] \notin {"init", "listen"} /\ Op[t] = "start"
      <4>1. tasks' = Phase(t, "attach", Servers)
        BY <1>4, <3>1 DEF EndInit
      <4> QED BY <4>1, PhaseArrives
    <3>2. CASE Op[t] = "init"
      BY <1>4, <3>2, GotoArrives DEF EndInit
    <3>3. CASE Op[t] = "listen"
      BY <1>4, <3>3, GotoArrives DEF EndInit
    <3>4. CASE Op[t] \notin {"init", "listen", "start"}
      BY <1>4, <3>4, GotoArrives DEF EndInit
    <3> QED BY <3>1, <3>2, <3>3, <3>4
  <2> QED BY <2>1, <2>2, <2>3, <2>4, ElsewhereKeeps
<1> QED BY <1>1, <1>2, <1>3, <1>4

\* init() entered by a call that is not listen() marks only an application early that is
\* not initialised by listen() alone.
LEMMA EnterInitServe ==
  ASSUME ServeInv, UNCHANGED scenario, NEW t \in Tasks, EnterInit(t),
         listening' \in {listening, "pending"},
         App = "http" => listening' # "no" \/ ~ListenOnly
  PROVE  ServeInv'
<1>1. UNCHANGED <<isBootstrapped, mapped, serving>>
  BY DEF EnterInit, ctx
<1>2. initialized' => initialized \/ App = "http"
  BY DEF EnterInit, MarkEarly, Initialized
<1>3. TaskShape' /\ Arrives(t, "prepare")
  BY GotoArrives DEF EnterInit, ServeInv
<1> QED BY <1>1, <1>2, <1>3, ElsewhereKeeps

\* The calls keep it.
LEMMA CallsServe ==
  ASSUME ServeInv, UNCHANGED scenario, NEW t \in Tasks, Call(t)
  PROVE  ServeInv'
<1>1. Op[t] \in {"init", "start", "run"} /\ App = "http" => ~ListenOnly
  BY DEF ListenOnly, Calls
<1>2. TaskShape
  BY DEF ServeInv
<1>3. ASSUME UNCHANGED <<isBootstrapped, mapped, serving, initialized, listening>>,
             NEW place, place \notin {"ready", "serve"}, TaskShape', Arrives(t, place)
      PROVE  ServeInv'
  BY <1>3, ElsewhereKeeps
<1>4. CASE CallInit(t)
  <2>1. CASE EnterInit(t) /\ UNCHANGED listening
    BY <1>1, <1>4, <2>1, EnterInitServe DEF CallInit
  <2>2. CASE tasks' = Goto(t, "done") /\ UNCHANGED <<app, ctx, opened>>
    BY <1>2, <1>3, <2>2, GotoArrives DEF app, ctx
  <2> QED BY <1>4, <2>1, <2>2 DEF CallInit
<1>5. CASE CallStart(t)
  <2>1. CASE EnterInit(t) /\ UNCHANGED listening
    BY <1>1, <1>5, <2>1, EnterInitServe DEF CallStart
  <2>2. CASE tasks' = Phase(t, "attach", Servers) /\ UNCHANGED <<app, ctx, opened>>
    BY <1>2, <1>3, <2>2, PhaseArrives DEF app, ctx
  <2> QED BY <1>5, <2>1, <2>2 DEF CallStart
<1>6. CASE CallRun(t)
  <2>1. CASE EnterInit(t) /\ UNCHANGED listening
    BY <1>1, <1>6, <2>1, EnterInitServe DEF CallRun
  <2>2. CASE tasks' = Goto(t, "command") /\ UNCHANGED <<app, ctx, opened>>
    BY <1>2, <1>3, <2>2, GotoArrives DEF app, ctx
  <2> QED BY <1>6, <2>1, <2>2 DEF CallRun
<1>7. CASE CallClose(t)
  <2>1. UNCHANGED <<isBootstrapped, mapped, initialized, listening>> /\ serving' \subseteq serving
    BY <1>7 DEF CallClose, ctx
  <2>2. PICK place \in {"done", "super", "stop"} : tasks' = Goto(t, place)
    BY <1>7 DEF CallClose
  <2>3. TaskShape' /\ Arrives(t, place)
    BY <1>2, <2>2, GotoArrives
  <2> QED BY <2>1, <2>3, ElsewhereKeeps
<1>8. CASE CallListen(t)
  <2>1. CASE ~initialized
    <3>1. EnterInit(t) /\ listening' \in {listening, "pending"}
      BY <1>8, <2>1 DEF CallListen
    <3>2. App = "http" => listening' # "no"
      BY <1>8, <2>1 DEF CallListen
    <3> QED BY <3>1, <3>2, EnterInitServe
  <2>2. CASE initialized
    <3>1. TaskShape' /\ Arrives(t, "done")
      BY <1>2, <1>8, <2>2, GotoArrives DEF CallListen
    <3>2. UNCHANGED <<isBootstrapped, mapped, initialized>>
      BY <1>8, <2>2 DEF CallListen, ctx
    <3>3. serving' \subseteq serving \/ Ready' \/ ~ListenOnly
      BY <1>8, <2>2 DEF CallListen, HeldBack, ServeInv, Ready
    <3>4. listening' = "no" => listening = "no"
      BY <1>8, <2>2 DEF CallListen
    <3> QED BY <2>2, <3>1, <3>2, <3>3, <3>4, ElsewhereKeeps
  <2> QED BY <2>1, <2>2
<1> QED BY <1>4, <1>5, <1>6, <1>7, <1>8 DEF Call

\* The other steps keep it.
LEMMA OtherStepsServe ==
  ASSUME ServeInv, UNCHANGED scenario, NEW t \in Tasks,
         \/ Serve(t) \/ EndListen(t) \/ Lose(t) \/ Attach(t) \/ EndStart(t)
         \/ StopServers(t) \/ StopAdapter(t) \/ EnterClose(t) \/ EndBefore(t) \/ EndDestroy(t) \/ EndShutdown(t)
  PROVE  ServeInv'
<1>1. TaskShape
  BY DEF ServeInv
<1>2. ASSUME UNCHANGED <<isBootstrapped, mapped, listening>>, serving' \subseteq serving,
             initialized' => initialized,
             NEW place, place \notin {"ready", "serve"}, TaskShape', Arrives(t, place)
      PROVE  ServeInv'
  BY <1>2, ElsewhereKeeps
<1>3. CASE Serve(t)
  <2>1. UNCHANGED <<isBootstrapped, mapped, initialized>>
    BY <1>3 DEF Serve, ctx
  <2>2. Ready'
    BY <1>3, <2>1 DEF Serve, ServeInv, Ready, App
  <2>3. PICK place \in {"done", "listening", "rejected"} : tasks' = Goto(t, place)
    BY <1>3 DEF Serve
  <2>4. TaskShape' /\ Arrives(t, place)
    BY <1>1, <2>3, GotoArrives
  <2>5. listening' = "no" => listening = "no"
    BY <1>3 DEF Serve
  <2> QED BY <2>1, <2>2, <2>4, <2>5, ElsewhereKeeps
<1>12. CASE EndListen(t) \/ Lose(t)
  <2>1. UNCHANGED <<isBootstrapped, mapped, listening, initialized>> /\ serving' \subseteq serving
    BY <1>12 DEF EndListen, Lose, app, ctx
  <2>2. PICK place \in {"done", "rejected"} : tasks' = Goto(t, place)
    BY <1>12 DEF EndListen, Lose
  <2>3. TaskShape' /\ Arrives(t, place)
    BY <1>1, <2>2, GotoArrives
  <2> QED BY <1>2, <2>1, <2>3
<1>4. CASE Attach(t)
  <2>1. UNCHANGED <<isBootstrapped, mapped, listening, serving, initialized>>
    BY <1>4 DEF Attach, ctx
  <2>2. PICK place \in {"attach", "rejected"} : TaskShape' /\ Arrives(t, place)
    BY <1>1, <1>4, AdvanceArrives, ExceptArrives DEF Attach
  <2> QED BY <1>2, <2>1, <2>2
<1>5. CASE EndStart(t)
  BY <1>1, <1>2, <1>5, GotoArrives DEF EndStart, app, ctx
<1>6. CASE StopServers(t)
  BY <1>1, <1>2, <1>6, ExceptArrives DEF StopServers, ctx
<1>7. CASE StopAdapter(t)
  BY <1>1, <1>2, <1>7, GotoArrives DEF StopAdapter, ctx
<1>8. CASE EnterClose(t)
  <2>1. UNCHANGED <<isBootstrapped, mapped, listening, serving>>
    BY <1>8 DEF EnterClose
  <2>2. initialized' => initialized
    BY <1>8 DEF EnterClose, Initialized
  <2>3. PICK place \in {"before", "done"} : TaskShape' /\ Arrives(t, place)
    BY <1>1, <1>8, GotoArrives, PhaseArrives DEF EnterClose
  <2> QED BY <1>2, <2>1, <2>2, <2>3
<1>9. CASE EndBefore(t)
  <2>1. UNCHANGED <<isBootstrapped, mapped, listening, serving, initialized>>
    BY <1>9 DEF EndBefore, app, ctx
  <2>2. PICK place \in {"destroy", "rejected"} : TaskShape' /\ Arrives(t, place)
    BY <1>1, <1>9, GotoArrives, PhaseArrives DEF EndBefore
  <2> QED BY <1>2, <2>1, <2>2
<1>10. CASE EndDestroy(t)
  BY <1>1, <1>2, <1>10, ExceptArrives DEF EndDestroy, app, ctx
<1>11. CASE EndShutdown(t)
  <2>1. UNCHANGED <<isBootstrapped, mapped, listening, serving, initialized>>
    BY <1>11 DEF EndShutdown, app
  <2>2. PICK place \in {"done", "rejected"} : TaskShape' /\ Arrives(t, place)
    BY <1>1, <1>11, GotoArrives DEF EndShutdown
  <2> QED BY <1>2, <2>1, <2>2
<1> QED BY <1>3, <1>4, <1>5, <1>6, <1>7, <1>8, <1>9, <1>10, <1>11, <1>12

\* Every step keeps it.
LEMMA NextServe == ServeInv /\ [Next]_vars => ServeInv'
<1> SUFFICES ASSUME ServeInv, [Next]_vars PROVE ServeInv'
  OBVIOUS
<1>1. CASE Next
  BY <1>1, InitStepsServe, CallsServe, OtherStepsServe DEF Next, Step
<1>2. CASE UNCHANGED vars
  BY <1>2 DEF vars, app, ctx, ServeInv, TaskShape, Ready, ListenOnly, Calls, App, Tasks, Op
<1> QED BY <1>1, <1>2

\* However listen() and close() race, Application, HttpApplication and
\* MicroserviceApplication accept no request before the bootstrap hooks are done and, over
\* HTTP, the routes are registered, as long as nothing but listen() initialises the latter.
THEOREM ServesWhenReady == Spec => []ReadyBeforeServing
<1>1. ServeInv => ReadyBeforeServing
  BY DEF ServeInv, ReadyBeforeServing, Ready, ListenOnly
<1> QED BY <1>1, InitServe, NextServe, PTL DEF Spec

-----------------------------------------------------------------------------
(* The providers a phase has still to visit.                               *)

\* A list of providers, each of them once.
Listed(list) == list \in Seq(Providers) /\ IsInjective(list)

\* Both lists of instances are such lists, and so is the empty one.
LEMMA InstancesListed == Listed(<<>>) /\ Listed(Instances) /\ Listed(Order)
<1>1. Listed(<<>>)
  BY DEF Listed, IsInjective
<1> QED BY <1>1, ScenarioAssumption DEF Listed, Instances

\* A phase goes through the same providers in reverse.
LEMMA ReverseListed ==
  ASSUME NEW list, Listed(list)
  PROVE  Listed(Reverse(list)) /\ Range(Reverse(list)) = Range(list)
<1>1. Len(list) \in Nat /\ DOMAIN list = 1..Len(list) /\ \A i \in 1..Len(list) : list[i] \in Providers
  BY DEF Listed
<1>2. DOMAIN Reverse(list) = 1..Len(list)
  BY <1>1 DEF Reverse
<1>3. \A i \in 1..Len(list) : Len(list) - i + 1 \in 1..Len(list)
                              /\ Reverse(list)[i] = list[Len(list) - i + 1]
  BY <1>1 DEF Reverse
<1>4. Reverse(list) \in Seq(Providers)
  BY <1>1, <1>3 DEF Reverse
<1>5. IsInjective(Reverse(list))
  <2> SUFFICES ASSUME NEW i \in 1..Len(list), NEW j \in 1..Len(list),
                      Reverse(list)[i] = Reverse(list)[j]
               PROVE  i = j
    BY <1>2 DEF IsInjective
  <2>1. Len(list) - i + 1 = Len(list) - j + 1
    BY <1>1, <1>3 DEF Listed, IsInjective
  <2> QED BY <1>1, <2>1
<1>6. \A i \in 1..Len(list) : list[i] = Reverse(list)[Len(list) - i + 1]
  BY <1>1, <1>3
<1>7. Range(Reverse(list)) = Range(list)
  BY <1>1, <1>2, <1>3, <1>6 DEF Range
<1> QED BY <1>4, <1>5, <1>7 DEF Listed

\* When the next provider is behind a phase, exactly that one is.
LEMMA TailListed ==
  ASSUME NEW list, Listed(list), list # <<>>
  PROVE  /\ Listed(Tail(list)) /\ Head(list) \in Providers
         /\ Range(Tail(list)) = Range(list) \ {Head(list)} /\ Head(list) \in Range(list)
<1>1. Len(list) \in Nat /\ Len(list) # 0 /\ DOMAIN list = 1..Len(list)
  BY DEF Listed
<1>2. Tail(list) \in Seq(Providers) /\ Head(list) = list[1] /\ Head(list) \in Providers
  BY DEF Listed
<1>3. Len(Tail(list)) = Len(list) - 1 /\ DOMAIN Tail(list) = 1..(Len(list) - 1)
  BY <1>1 DEF Listed
<1>4. \A i \in 1..(Len(list) - 1) : Tail(list)[i] = list[i + 1] /\ i + 1 \in DOMAIN list
  BY <1>1, <1>3 DEF Listed
<1>5. IsInjective(Tail(list))
  <2> SUFFICES ASSUME NEW i \in 1..(Len(list) - 1), NEW j \in 1..(Len(list) - 1),
                      Tail(list)[i] = Tail(list)[j]
               PROVE  i = j
    BY <1>3 DEF IsInjective
  <2>1. i + 1 = j + 1
    BY <1>4 DEF Listed, IsInjective
  <2> QED BY <1>1, <2>1
<1>6. \A k \in 2..Len(list) : k - 1 \in 1..(Len(list) - 1) /\ Tail(list)[k - 1] = list[k]
  BY <1>1, <1>4
<1>7. \A k \in 2..Len(list) : list[k] # list[1]
  BY <1>1 DEF Listed, IsInjective
<1>8. Range(Tail(list)) = {list[k] : k \in 2..Len(list)}
  <2>1. \A i \in 1..(Len(list) - 1) : Tail(list)[i] \in {list[k] : k \in 2..Len(list)}
    BY <1>1, <1>4
  <2>2. \A k \in 2..Len(list) : list[k] \in {Tail(list)[i] : i \in 1..(Len(list) - 1)}
    BY <1>6
  <2> QED BY <1>3, <2>1, <2>2 DEF Range
<1>9. Range(list) = {list[k] : k \in 2..Len(list)} \cup {list[1]}
  BY <1>1 DEF Range
<1> QED BY <1>2, <1>5, <1>7, <1>8, <1>9 DEF Listed

-----------------------------------------------------------------------------
(* What a step does to the phases.                                         *)

\* The lists of the phases and the counts have their types.
PhaseInv ==
  /\ TaskShape
  /\ runs \in [Hooks -> [Providers -> Nat]]
  /\ initialized \in BOOLEAN /\ opened \in Nat
  /\ \A t \in Tasks :
       /\ tasks[t].at \in Hooks => Listed(tasks[t].todo)
       /\ tasks[t].at = "destroy" => Listed(tasks[t].all)

\* A step of task t moves no other.
Alone(t) == TaskShape' /\ \A u \in Tasks \ {t} : tasks'[u] = tasks[u]

\* Task t leaves the phases or stays outside of them; the application may be initialised.
Outside(t) ==
  /\ Alone(t) /\ tasks'[t].at \notin Hooks
  /\ UNCHANGED runs
  /\ Initialized(TRUE) \/ UNCHANGED <<initialized, opened>>

\* It enters a phase.
Enters(t, hook, todo) ==
  /\ Alone(t) /\ tasks'[t].at = hook /\ tasks'[t].todo = todo
  /\ UNCHANGED runs

\* Its phase calls the hook of the next provider.
Visits(t) ==
  /\ Alone(t) /\ tasks[t].at \in Hooks /\ tasks[t].todo # <<>>
  /\ tasks'[t].at = tasks[t].at /\ tasks'[t].todo = Tail(tasks[t].todo)
  /\ tasks'[t].all = tasks[t].all
  /\ runs' = [runs EXCEPT ![tasks[t].at][Head(tasks[t].todo)] = @ + 1]
  /\ UNCHANGED <<initialized, opened, cleared>>

\* Each way of writing the next place of a task leaves the others where they are.
LEMMA TaskStepsAlone ==
  ASSUME TaskShape, UNCHANGED scenario, NEW t \in Tasks, NEW place, NEW x, NEW y,
         \/ tasks' = Goto(t, place) \/ tasks' = Phase(t, place, x)
         \/ tasks' = [Phase(t, place, x) EXCEPT ![t].all = y]
         \/ tasks' = Advance(t) \/ tasks' = Collect(t)
         \/ tasks' = [tasks EXCEPT ![t].at = place, ![t].todo = x]
         \/ tasks' = [tasks EXCEPT ![t].at = place, ![t].seen = x]
  PROVE  Alone(t)
<1>1. DOMAIN tasks = Tasks /\ Tasks' = Tasks
  BY DEF TaskShape, Tasks, Op
<1>2. CASE tasks' = Goto(t, place)
  BY <1>1, <1>2 DEF Alone, TaskShape, Goto
<1>3. CASE tasks' = Phase(t, place, x) \/ tasks' = [Phase(t, place, x) EXCEPT ![t].all = y]
  BY <1>1, <1>3 DEF Alone, TaskShape, Phase
<1>4. CASE tasks' = Advance(t) \/ tasks' = Collect(t)
  BY <1>1, <1>4 DEF Alone, TaskShape, Advance, Collect
<1>5. CASE \/ tasks' = [tasks EXCEPT ![t].at = place, ![t].todo = x]
           \/ tasks' = [tasks EXCEPT ![t].at = place, ![t].seen = x]
  BY <1>1, <1>5 DEF Alone, TaskShape
<1> QED BY <1>2, <1>3, <1>4, <1>5

\* A step that only moves its task to a place outside of the phases.
LEMMA GotoOutside ==
  ASSUME TaskShape, UNCHANGED <<scenario, runs>>, NEW t \in Tasks, NEW place, place \notin Hooks,
         tasks' = Goto(t, place),
         Initialized(TRUE) \/ UNCHANGED <<initialized, opened>>
  PROVE  Outside(t)
<1>1. Alone(t)
  BY TaskStepsAlone
<1>2. tasks'[t].at = place
  BY GotoArrives DEF Arrives
<1> QED BY <1>1, <1>2 DEF Outside

\* init() is entered outside of the phases.
LEMMA EnterInitOutside ==
  ASSUME TaskShape, UNCHANGED scenario, NEW t \in Tasks, EnterInit(t)
  PROVE  Outside(t) /\ UNCHANGED cleared
<1>1. Initialized(TRUE) \/ UNCHANGED <<initialized, opened>>
  BY DEF EnterInit, MarkEarly
<1>2. UNCHANGED <<runs, cleared>>
  BY DEF EnterInit, ctx
<1>3. tasks' = Goto(t, "prepare") /\ "prepare" \notin Hooks
  BY DEF EnterInit, Hooks
<1> QED BY <1>1, <1>2, <1>3, GotoOutside

\* The calls are outside of the phases.
LEMMA CallsOutside ==
  ASSUME TaskShape, UNCHANGED scenario, NEW t \in Tasks, Call(t)
  PROVE  Outside(t) /\ UNCHANGED cleared /\ tasks[t].at \notin Hooks
<1>1. tasks[t].at \notin Hooks
  BY DEF Call, CallInit, CallListen, CallStart, CallRun, CallClose, Hooks
<1>2. CASE EnterInit(t)
  BY <1>1, <1>2, EnterInitOutside
<1>3. CASE \E place \in {"done", "command", "super", "stop"} :
             tasks' = Goto(t, place) /\ UNCHANGED <<ctx, initialized, opened>>
  BY <1>1, <1>3, GotoOutside DEF ctx, Hooks
<1>4. CASE tasks' = Phase(t, "attach", Servers) /\ UNCHANGED <<app, ctx, opened>>
  <2>1. Alone(t) /\ tasks'[t].at = "attach"
    BY <1>4, TaskStepsAlone, PhaseArrives DEF Arrives
  <2> QED BY <1>1, <1>4, <2>1 DEF Outside, app, ctx, Hooks
<1>6. CASE CallClose(t)
  BY <1>3, <1>6 DEF CallClose
<1>7. CASE CallInit(t) \/ CallListen(t) \/ CallRun(t)
  BY <1>2, <1>3, <1>7 DEF CallInit, CallListen, CallRun, app
<1>8. CASE CallStart(t)
  BY <1>2, <1>4, <1>8 DEF CallStart
<1> QED BY <1>6, <1>7, <1>8 DEF Call

\* The steps of init(), listen() and startAllMicroservices(), and those of close() before
\* Application.close(), are outside of the phases too.
LEMMA StepsOutside ==
  ASSUME TaskShape, UNCHANGED scenario, NEW t \in Tasks,
         \/ (Prepare(t) /\ isBootstrapped) \/ EndBootstrap(t) \/ EndInit(t) \/ Serve(t)
         \/ EndListen(t) \/ Lose(t)
         \/ Attach(t) \/ EndStart(t) \/ StopServers(t) \/ StopAdapter(t)
         \/ (EnterClose(t) /\ ~initialized)
  PROVE  Outside(t) /\ UNCHANGED cleared /\ tasks[t].at \notin {"before", "destroy", "shutdown"}
<1>1. tasks[t].at \notin {"before", "destroy", "shutdown"}
  BY DEF Prepare, EndBootstrap, EndInit, Serve, EndListen, Lose, Attach, EndStart, StopServers,
     StopAdapter, EnterClose
<1>2. CASE Prepare(t) /\ isBootstrapped
  BY <1>1, <1>2, GotoOutside DEF Prepare, ctx, Hooks
<1>3. CASE EndBootstrap(t) \/ EndStart(t) \/ StopAdapter(t)
  BY <1>1, <1>3, GotoOutside DEF EndBootstrap, EndStart, StopAdapter, app, ctx, Hooks
<1>31. CASE Serve(t) \/ EndListen(t) \/ Lose(t)
  BY <1>1, <1>31, GotoOutside DEF Serve, EndListen, Lose, app, ctx, Hooks
<1>4. CASE EnterClose(t) /\ ~initialized
  BY <1>1, <1>4, GotoOutside DEF EnterClose, StillOpen, Hooks
<1>5. CASE Attach(t)
  <2>1. UNCHANGED <<initialized, opened, runs, cleared>>
    BY <1>5 DEF Attach, ctx
  <2>2. Alone(t)
    BY <1>5, TaskStepsAlone DEF Attach
  <2>3. tasks'[t].at \in {"attach", "rejected"}
    BY <1>5, AdvanceArrives, ExceptArrives DEF Attach, Arrives
  <2> QED BY <1>1, <2>1, <2>2, <2>3 DEF Outside, Hooks
<1>6. CASE StopServers(t)
  <2>1. UNCHANGED <<initialized, opened, runs, cleared>>
    BY <1>6 DEF StopServers, ctx
  <2>2. Alone(t)
    BY <1>6, TaskStepsAlone DEF StopServers
  <2>3. tasks'[t].at = "adapter"
    BY <1>6 DEF StopServers, TaskShape
  <2> QED BY <1>1, <2>1, <2>2, <2>3 DEF Outside, Hooks
<1>7. CASE EndInit(t)
  <2>1. UNCHANGED <<runs, cleared>> /\ (Initialized(TRUE) \/ UNCHANGED <<initialized, opened>>)
    BY <1>7 DEF EndInit, ctx
  <2>2. CASE \E place \in {"done", "serve", "command"} : tasks' = Goto(t, place)
    BY <1>1, <2>1, <2>2, GotoOutside DEF Hooks
  <2>3. CASE tasks' = Phase(t, "attach", Servers)
    <3>1. Alone(t) /\ tasks'[t].at = "attach"
      BY <2>3, TaskStepsAlone, PhaseArrives DEF Arrives
    <3> QED BY <1>1, <2>1, <3>1 DEF Outside, Hooks
  <2>4. CASE Op[t] \notin {"init", "listen"} /\ Op[t] = "start"
    BY <1>7, <2>3, <2>4 DEF EndInit
  <2>5. CASE Op[t] = "init"
    BY <1>7, <2>2, <2>5 DEF EndInit
  <2>6. CASE Op[t] = "listen"
    BY <1>7, <2>2, <2>6 DEF EndInit
  <2>7. CASE Op[t] \notin {"init", "listen", "start"}
    BY <1>7, <2>2, <2>7 DEF EndInit
  <2> QED BY <2>4, <2>5, <2>6, <2>7
<1> QED BY <1>2, <1>3, <1>31, <1>4, <1>5, <1>6, <1>7

\* A phase that calls the hook of the next provider.
LEMMA RunHookVisits ==
  ASSUME TaskShape, UNCHANGED scenario, NEW t \in Tasks, RunHook(t)
  PROVE  /\ Visits(t)
         /\ tasks'[t].failed = tasks[t].failed
              \/ <<tasks[t].at, Head(tasks[t].todo)>> \in Faulty
<1>1. Alone(t)
  BY TaskStepsAlone DEF RunHook
<1>2. tasks' = Advance(t) \/ tasks' = Collect(t)
  BY DEF RunHook
<1>3. /\ tasks'[t].at = tasks[t].at /\ tasks'[t].todo = Tail(tasks[t].todo)
      /\ tasks'[t].all = tasks[t].all
  BY <1>2 DEF Advance, Collect, TaskShape
<1>4. tasks' = Advance(t) => tasks'[t].failed = tasks[t].failed
  BY DEF Advance, TaskShape
<1> QED BY <1>1, <1>3, <1>4 DEF Visits, RunHook, app

\* The steps that enter a phase.
LEMMA StepsEnter ==
  ASSUME TaskShape, UNCHANGED scenario, NEW t \in Tasks
  PROVE  /\ Prepare(t) /\ ~isBootstrapped =>
              Enters(t, "bootstrap", Instances) /\ UNCHANGED <<initialized, opened, cleared>>
         /\ EnterClose(t) /\ initialized =>
              /\ Enters(t, "before", IF isShuttingDown THEN <<>> ELSE Reverse(Instances))
              /\ Initialized(FALSE) /\ ~tasks'[t].failed /\ UNCHANGED cleared
         /\ EndBefore(t) /\ ~tasks[t].failed =>
              /\ Enters(t, "destroy", Reverse(Instances))
              /\ tasks'[t].all = Reverse(Instances) /\ UNCHANGED <<initialized, opened, cleared>>
         /\ EndDestroy(t) =>
              /\ Enters(t, "shutdown", tasks[t].all) /\ UNCHANGED <<initialized, opened, cleared>>
<1>1. ASSUME NEW hook, NEW todo, UNCHANGED runs, tasks' = Phase(t, hook, todo)
      PROVE  Enters(t, hook, todo) /\ tasks'[t].failed = FALSE
  <2>1. tasks'[t].at = hook /\ tasks'[t].todo = todo /\ tasks'[t].failed = FALSE
    BY <1>1 DEF Phase, TaskShape
  <2> QED BY <1>1, <2>1, TaskStepsAlone DEF Enters
<1>2. ASSUME Prepare(t), ~isBootstrapped
      PROVE  Enters(t, "bootstrap", Instances) /\ UNCHANGED <<initialized, opened, cleared>>
  BY <1>1, <1>2 DEF Prepare, ctx
<1>3. ASSUME EnterClose(t), initialized
      PROVE  /\ Enters(t, "before", IF isShuttingDown THEN <<>> ELSE Reverse(Instances))
             /\ Initialized(FALSE) /\ ~tasks'[t].failed /\ UNCHANGED cleared
  BY <1>1, <1>3 DEF EnterClose, StillOpen
<1>4. ASSUME EndBefore(t), ~tasks[t].failed
      PROVE  /\ Enters(t, "destroy", Reverse(Instances))
             /\ tasks'[t].all = Reverse(Instances) /\ UNCHANGED <<initialized, opened, cleared>>
  <2>1. tasks' = [Phase(t, "destroy", Reverse(Instances)) EXCEPT ![t].all = Reverse(Instances)]
    BY <1>4 DEF EndBefore
  <2>2. /\ tasks'[t].at = "destroy" /\ tasks'[t].todo = Reverse(Instances)
        /\ tasks'[t].all = Reverse(Instances)
    BY <2>1 DEF Phase, TaskShape
  <2>3. Alone(t)
    BY <2>1, TaskStepsAlone
  <2> QED BY <1>4, <2>2, <2>3 DEF Enters, EndBefore, app, ctx
<1>5. ASSUME EndDestroy(t)
      PROVE  Enters(t, "shutdown", tasks[t].all) /\ UNCHANGED <<initialized, opened, cleared>>
  <2>1. tasks' = [tasks EXCEPT ![t].at = "shutdown", ![t].todo = tasks[t].all]
    BY <1>5 DEF EndDestroy
  <2>2. tasks'[t].at = "shutdown" /\ tasks'[t].todo = tasks[t].all
    BY <2>1 DEF TaskShape
  <2>3. Alone(t)
    BY <2>1, TaskStepsAlone
  <2> QED BY <1>5, <2>2, <2>3 DEF Enters, EndDestroy, app, ctx
<1> QED BY <1>2, <1>3, <1>4, <1>5

\* What a step may do to the phases.
Leaves(t) ==
  /\ Outside(t)
  /\ \/ UNCHANGED cleared /\ tasks[t].at \notin {"before", "destroy", "shutdown"}
     \/ UNCHANGED cleared /\ tasks[t].at = "before" /\ tasks[t].failed
     \/ cleared' /\ tasks[t].at = "shutdown"

Hooked(t) ==
  /\ Visits(t)
  /\ tasks'[t].failed = tasks[t].failed \/ <<tasks[t].at, Head(tasks[t].todo)>> \in Faulty

Boots(t) ==
  /\ tasks[t].at = "prepare"
  /\ Enters(t, "bootstrap", Instances) /\ UNCHANGED <<initialized, opened, cleared>>

Closes(t) ==
  /\ tasks[t].at = "super" /\ initialized
  /\ \E todo \in {<<>>, Reverse(Instances)} : Enters(t, "before", todo)
  /\ Initialized(FALSE) /\ ~tasks'[t].failed /\ UNCHANGED cleared

Destroys(t) ==
  /\ tasks[t].at = "before"
  /\ Enters(t, "destroy", Reverse(Instances)) /\ tasks'[t].all = Reverse(Instances)
  /\ UNCHANGED <<initialized, opened, cleared>>

ShutsDown(t) ==
  /\ tasks[t].at = "destroy" /\ tasks[t].todo = <<>>
  /\ Enters(t, "shutdown", tasks[t].all) /\ UNCHANGED <<initialized, opened, cleared>>

Moves(t) == Leaves(t) \/ Hooked(t) \/ Boots(t) \/ Closes(t) \/ Destroys(t) \/ ShutsDown(t)

\* Every step does one of these to one task.
LEMMA NextMoves ==
  ASSUME TaskShape, Next
  PROVE  UNCHANGED scenario /\ \E t \in Tasks : Moves(t)
<1>1. PICK t \in Tasks : UNCHANGED scenario /\ (Call(t) \/ Step(t) \/ Lose(t))
  BY DEF Next
<1>2. CASE Call(t)
  BY <1>1, <1>2, CallsOutside DEF Moves, Leaves, Hooks
<1>3. CASE RunHook(t)
  BY <1>1, <1>3, RunHookVisits DEF Moves, Hooked
<1>4. CASE \/ (Prepare(t) /\ isBootstrapped) \/ EndBootstrap(t) \/ EndInit(t) \/ Serve(t)
           \/ EndListen(t) \/ Lose(t)
           \/ Attach(t) \/ EndStart(t) \/ StopServers(t) \/ StopAdapter(t)
           \/ (EnterClose(t) /\ ~initialized)
  BY <1>1, <1>4, StepsOutside DEF Moves, Leaves
<1>5. CASE Prepare(t) /\ ~isBootstrapped
  <2>1. tasks[t].at = "prepare"
    BY <1>5 DEF Prepare
  <2>2. Boots(t)
    BY <1>1, <1>5, <2>1, StepsEnter DEF Boots
  <2> QED BY <1>1, <2>2 DEF Moves
<1>6. CASE EnterClose(t) /\ initialized
  <2>1. tasks[t].at = "super"
    BY <1>6 DEF EnterClose
  <2>2. Closes(t)
    BY <1>1, <1>6, <2>1, StepsEnter DEF Closes
  <2> QED BY <1>1, <2>2 DEF Moves
<1>7. CASE EndBefore(t) /\ tasks[t].failed
  <2>1. Outside(t)
    BY <1>1, <1>7, GotoOutside DEF EndBefore, app, ctx, Hooks
  <2> QED BY <1>1, <1>7, <2>1 DEF Moves, Leaves, EndBefore, ctx
<1>8. CASE EndBefore(t) /\ ~tasks[t].failed
  <2>1. tasks[t].at = "before"
    BY <1>8 DEF EndBefore
  <2>2. Destroys(t)
    BY <1>1, <1>8, <2>1, StepsEnter DEF Destroys
  <2> QED BY <1>1, <2>2 DEF Moves
<1>9. CASE EndDestroy(t)
  <2>1. tasks[t].at = "destroy" /\ tasks[t].todo = <<>>
    BY <1>9 DEF EndDestroy
  <2>2. ShutsDown(t)
    BY <1>1, <1>9, <2>1, StepsEnter DEF ShutsDown
  <2> QED BY <1>1, <2>2 DEF Moves
<1>10. CASE EndShutdown(t)
  <2>1. Outside(t)
    BY <1>1, <1>10, GotoOutside DEF EndShutdown, app, Hooks
  <2> QED BY <1>1, <1>10, <2>1 DEF Moves, Leaves, EndShutdown
<1> QED
  BY <1>1, <1>2, <1>3, <1>4, <1>5, <1>6, <1>7, <1>8, <1>9, <1>10 DEF Step

\* The initial state has lists and counts of their types.
LEMMA InitPhases == Init => PhaseInv
<1> SUFFICES ASSUME Init PROVE PhaseInv
  OBVIOUS
<1>1. TaskShape /\ \A t \in Tasks : tasks[t].at = "idle"
  BY DEF Init, TaskShape, Idle
<1>2. runs \in [Hooks -> [Providers -> Nat]]
  BY DEF Init
<1>3. initialized \in BOOLEAN /\ opened \in Nat
  BY DEF Init
<1> QED BY <1>1, <1>2, <1>3 DEF PhaseInv, Hooks

\* What an assignment to `initialized` does to the count: with the application's being
\* initialised counted, nothing, or it adds one.
LEMMA InitializedCounts ==
  ASSUME PhaseInv, NEW v \in BOOLEAN, Initialized(v)
  PROVE  /\ initialized' = v /\ opened' \in Nat
         /\ v => opened' - 1 = opened - (IF initialized THEN 1 ELSE 0)
         /\ ~v => opened' = opened
<1>1. initialized' = v
  BY DEF Initialized
<1>2. CASE v /\ ~initialized
  <2>1. opened' = opened + 1
    BY <1>2 DEF Initialized
  <2> QED BY <1>1, <1>2, <2>1 DEF PhaseInv
<1>3. CASE ~(v /\ ~initialized)
  <2>1. opened' = opened
    BY <1>3 DEF Initialized
  <2> QED BY <1>1, <1>3, <2>1 DEF PhaseInv
<1> QED BY <1>2, <1>3

\* Every move keeps the types.
LEMMA MovesTyped ==
  ASSUME PhaseInv, UNCHANGED scenario, NEW t \in Tasks, Moves(t)
  PROVE  PhaseInv'
<1>1. Tasks' = Tasks
  BY DEF Tasks, Op
<1>2. Alone(t)
  BY DEF Moves, Leaves, Outside, Hooked, Visits, Boots, Closes, Destroys, ShutsDown, Enters
<1>3. initialized' \in BOOLEAN /\ opened' \in Nat
  <2>1. UNCHANGED <<initialized, opened>> \/ \E v \in BOOLEAN : Initialized(v)
    BY Zenon DEF Moves, Leaves, Outside, Hooked, Visits, Boots, Closes, Destroys, ShutsDown
  <2> QED BY <2>1, InitializedCounts DEF PhaseInv
<1>4. /\ runs' \in [Hooks -> [Providers -> Nat]]
      /\ tasks'[t].at \in Hooks => Listed(tasks'[t].todo)
      /\ tasks'[t].at = "destroy" => Listed(tasks'[t].all)
  <2>1. CASE Leaves(t)
    BY <2>1 DEF Leaves, Outside, PhaseInv, Hooks
  <2>2. CASE Hooked(t)
    <3>1. Listed(tasks[t].todo) /\ tasks[t].at \in Hooks /\ tasks[t].todo # <<>>
      BY <2>2 DEF Hooked, Visits, PhaseInv
    <3>2. Listed(tasks'[t].todo) /\ Head(tasks[t].todo) \in Providers
      BY <2>2, <3>1, TailListed DEF Hooked, Visits
    <3>3. runs' \in [Hooks -> [Providers -> Nat]]
      BY <2>2, <3>1, <3>2 DEF Hooked, Visits, PhaseInv
    <3> QED BY <2>2, <3>2, <3>3 DEF Hooked, Visits, PhaseInv
  <2>3. CASE Boots(t)
    BY <2>3, InstancesListed DEF Boots, Enters, PhaseInv
  <2>4. CASE Closes(t)
    BY <2>4, InstancesListed, ReverseListed DEF Closes, Enters, PhaseInv
  <2>5. CASE Destroys(t)
    BY <2>5, InstancesListed, ReverseListed DEF Destroys, Enters, PhaseInv
  <2>6. CASE ShutsDown(t)
    BY <2>6 DEF ShutsDown, Enters, PhaseInv
  <2> QED BY <2>1, <2>2, <2>3, <2>4, <2>5, <2>6 DEF Moves
<1> QED BY <1>1, <1>2, <1>3, <1>4 DEF PhaseInv, Alone

\* Every step keeps them.
LEMMA NextPhases == PhaseInv /\ [Next]_vars => PhaseInv'
<1> SUFFICES ASSUME PhaseInv, [Next]_vars PROVE PhaseInv'
  OBVIOUS
<1>1. CASE Next
  <2>1. UNCHANGED scenario /\ \E t \in Tasks : Moves(t)
    BY <1>1, NextMoves DEF PhaseInv
  <2> QED BY <2>1, MovesTyped
<1>2. CASE UNCHANGED vars
  BY <1>2 DEF vars, app, ctx, PhaseInv, TaskShape, Tasks, Op
<1> QED BY <1>1, <1>2

-----------------------------------------------------------------------------
(* Disposed once for each time it was initialised.                         *)

\* The tasks that will still destroy p.
Owing(p) == {t \in Tasks : \/ tasks[t].at = "before"
                           \/ tasks[t].at = "destroy" /\ p \in Range(tasks[t].todo)}

\* Strengthening DisposedOncePerInit: who is going to destroy p took away one of the times
\* that the application was initialised, and the present one is still there to be taken.
DisposeInv ==
  \A p \in Providers :
    /\ IsFiniteSet(Owing(p))
    /\ runs["destroy"][p] + Cardinality(Owing(p)) + (IF initialized THEN 1 ELSE 0) <= opened

\* At first nobody destroys anything.
LEMMA InitDispose == Init => DisposeInv
<1> SUFFICES ASSUME Init, NEW p \in Providers
             PROVE  /\ IsFiniteSet(Owing(p))
                    /\ runs["destroy"][p] + Cardinality(Owing(p)) + (IF initialized THEN 1 ELSE 0)
                         <= opened
  BY DEF DisposeInv
<1>1. Owing(p) = {}
  BY DEF Init, Owing, Idle
<1>2. runs["destroy"][p] = 0 /\ ~initialized /\ opened = 0
  BY DEF Init, Hooks
<1> QED BY <1>1, <1>2, FS_EmptySet

\* Every move keeps the balance for each provider.
LEMMA MovesDispose ==
  ASSUME PhaseInv, DisposeInv, UNCHANGED scenario, NEW t \in Tasks, Moves(t)
  PROVE  DisposeInv'
<1> SUFFICES ASSUME NEW p \in Providers
             PROVE  /\ IsFiniteSet(Owing(p)')
                    /\ runs'["destroy"][p] + Cardinality(Owing(p)')
                         + (IF initialized' THEN 1 ELSE 0) <= opened'
  BY DEF DisposeInv
<1>1. /\ IsFiniteSet(Owing(p)) /\ Cardinality(Owing(p)) \in Nat
      /\ runs["destroy"][p] + Cardinality(Owing(p)) + (IF initialized THEN 1 ELSE 0) <= opened
  BY FS_CardinalityType DEF DisposeInv
<1>2. runs["destroy"][p] \in Nat /\ opened \in Nat /\ initialized \in BOOLEAN
  BY DEF PhaseInv, Hooks
<1>3. /\ Tasks' = Tasks
      /\ \A u \in Tasks \ {t} : u \in Owing(p)' <=> u \in Owing(p)
  BY DEF Tasks, Op, Owing, Moves, Leaves, Outside, Hooked, Visits, Boots, Closes, Destroys,
     ShutsDown, Enters, Alone
<1>4. Owing(p)' \subseteq Tasks /\ Owing(p) \subseteq Tasks
  BY <1>3 DEF Owing
<1>5. ASSUME t \in Owing(p)' => t \in Owing(p)
      PROVE  IsFiniteSet(Owing(p)') /\ Cardinality(Owing(p)') <= Cardinality(Owing(p))
             /\ Cardinality(Owing(p)') \in Nat
  <2>1. Owing(p)' \in SUBSET Owing(p)
    BY <1>3, <1>4, <1>5
  <2> QED BY <1>1, <2>1, FS_Subset, FS_CardinalityType
<1>6. CASE Leaves(t)
  <2>1. t \notin Owing(p)'
    BY <1>6 DEF Leaves, Outside, Owing, Hooks
  <2>2. UNCHANGED runs
    BY <1>6 DEF Leaves, Outside
  <2>3. CASE UNCHANGED <<initialized, opened>>
    BY <1>1, <1>2, <1>5, <2>1, <2>2, <2>3
  <2>4. CASE Initialized(TRUE)
    <3>1. initialized' /\ opened' \in Nat /\ opened' - 1 = opened - (IF initialized THEN 1 ELSE 0)
      BY <2>4, InitializedCounts
    <3>2. (IF initialized' THEN 1 ELSE 0) = 1 /\ (IF initialized THEN 1 ELSE 0) \in {0, 1}
      BY <3>1
    <3>3. Cardinality(Owing(p)') <= Cardinality(Owing(p)) /\ Cardinality(Owing(p)') \in Nat
      BY <1>5, <2>1
    <3>4. runs["destroy"][p] + Cardinality(Owing(p)') <= opened' - 1
      <4>1. CASE initialized
        <5>1. runs["destroy"][p] + Cardinality(Owing(p)) + 1 <= opened /\ opened' = opened
          BY <1>1, <1>2, <3>1, <4>1
        <5> QED BY <1>1, <1>2, <3>3, <5>1
      <4>2. CASE ~initialized
        <5>1. runs["destroy"][p] + Cardinality(Owing(p)) + 0 <= opened /\ opened' - 1 = opened
          BY <1>1, <1>2, <3>1, <4>2
        <5> QED BY <1>1, <1>2, <3>3, <5>1
      <4> QED BY <4>1, <4>2
    <3>5. runs["destroy"][p] + Cardinality(Owing(p)') + 1 <= opened'
      BY <1>2, <3>1, <3>3, <3>4
    <3> QED BY <1>5, <2>1, <2>2, <3>2, <3>5
  <2> QED BY <1>6, <2>3, <2>4 DEF Leaves, Outside
<1>7. CASE Hooked(t)
  <2>1. /\ Listed(tasks[t].todo) /\ tasks[t].todo # <<>> /\ tasks[t].at \in Hooks
        /\ UNCHANGED <<initialized, opened>> /\ tasks'[t].at = tasks[t].at
        /\ tasks'[t].todo = Tail(tasks[t].todo)
        /\ runs' = [runs EXCEPT ![tasks[t].at][Head(tasks[t].todo)] = @ + 1]
    BY <1>7 DEF Hooked, Visits, PhaseInv
  <2>2. /\ Range(Tail(tasks[t].todo)) = Range(tasks[t].todo) \ {Head(tasks[t].todo)}
        /\ Head(tasks[t].todo) \in Range(tasks[t].todo) /\ Head(tasks[t].todo) \in Providers
    BY <2>1, TailListed
  <2>3. CASE tasks[t].at = "destroy" /\ Head(tasks[t].todo) = p
    <3>1. t \in Owing(p) /\ t \notin Owing(p)'
      BY <2>1, <2>2, <2>3 DEF Owing
    <3>2. Owing(p)' = Owing(p) \ {t}
      BY <1>3, <1>4, <3>1
    <3>3. IsFiniteSet(Owing(p)') /\ Cardinality(Owing(p)') = Cardinality(Owing(p)) - 1
      BY <1>1, <3>1, <3>2, FS_RemoveElement
    <3>4. runs'["destroy"][p] = runs["destroy"][p] + 1
      BY <2>1, <2>3 DEF PhaseInv, Hooks
    <3> QED BY <1>1, <1>2, <2>1, <3>3, <3>4
  <2>4. CASE ~(tasks[t].at = "destroy" /\ Head(tasks[t].todo) = p)
    <3>1. t \in Owing(p)' => t \in Owing(p)
      BY <1>3, <2>1, <2>2 DEF Owing
    <3>2. runs'["destroy"][p] = runs["destroy"][p]
      BY <2>1, <2>2, <2>4 DEF PhaseInv, Hooks
    <3> QED BY <1>1, <1>2, <1>5, <2>1, <3>1, <3>2
  <2> QED BY <2>3, <2>4
<1>8. CASE Boots(t) \/ ShutsDown(t) \/ Destroys(t)
  <2>1. UNCHANGED <<runs, initialized, opened>>
    BY <1>8 DEF Boots, ShutsDown, Destroys, Enters
  <2>2. t \in Owing(p)' => t \in Owing(p)
    BY <1>3, <1>8 DEF Boots, ShutsDown, Destroys, Enters, Owing
  <2> QED BY <1>1, <1>2, <1>5, <2>1, <2>2
<1>9. CASE Closes(t)
  <2>1. initialized /\ ~initialized' /\ UNCHANGED <<opened, runs>>
    BY <1>9 DEF Closes, Initialized, Enters
  <2>2. t \notin Owing(p) /\ t \in Owing(p)'
    BY <1>3, <1>9 DEF Closes, Enters, Owing
  <2>3. Owing(p)' = Owing(p) \cup {t}
    BY <1>3, <1>4, <2>2
  <2>4. IsFiniteSet(Owing(p)') /\ Cardinality(Owing(p)') = Cardinality(Owing(p)) + 1
    BY <1>1, <2>2, <2>3, FS_AddElement
  <2> QED BY <1>1, <1>2, <2>1, <2>4
<1> QED BY <1>6, <1>7, <1>8, <1>9 DEF Moves

\* Every step keeps it.
LEMMA NextDispose == PhaseInv /\ DisposeInv /\ [Next]_vars => DisposeInv'
<1> SUFFICES ASSUME PhaseInv, DisposeInv, [Next]_vars PROVE DisposeInv'
  OBVIOUS
<1>1. CASE Next
  <2>1. UNCHANGED scenario /\ \E t \in Tasks : Moves(t)
    BY <1>1, NextMoves DEF PhaseInv
  <2> QED BY <2>1, MovesDispose
<1>2. CASE UNCHANGED vars
  BY <1>2 DEF vars, app, ctx, DisposeInv, Owing, Tasks, Op
<1> QED BY <1>1, <1>2

\* However close() calls race, also with calls that initialise the application again,
\* onModuleDestroy() of a provider is called at most once for each time that `initialized`
\* became true.
THEOREM DisposesOncePerInit == Spec => []DisposedOncePerInit
<1>1. PhaseInv /\ DisposeInv => DisposedOncePerInit
  <2> SUFFICES ASSUME PhaseInv, DisposeInv, NEW p \in Providers
               PROVE  runs["destroy"][p] <= opened
    BY DEF DisposedOncePerInit
  <2>1. Cardinality(Owing(p)) \in Nat
    BY FS_CardinalityType DEF DisposeInv
  <2>2. runs["destroy"][p] \in Nat /\ opened \in Nat
    BY DEF PhaseInv, Hooks
  <2> QED BY <2>1, <2>2 DEF DisposeInv
<1> QED BY <1>1, InitPhases, NextPhases, InitDispose, NextDispose, PTL DEF Spec

-----------------------------------------------------------------------------
(* Disposed when it is closed.                                             *)

BeforeWorks == \A p \in Providers : <<"before", p>> \notin Faulty

Destroyed == \A p \in Providers : runs["destroy"][p] > 0

\* Strengthening ClosedIsDisposed: while the application is not initialised any more, its
\* providers are destroyed or a call is before or in the phase that does it, and that
\* phase has the others still before it.
ClosedInv ==
  BeforeWorks =>
    /\ \A t \in Tasks : tasks[t].at = "before" => ~tasks[t].failed
    /\ \A t \in Tasks : tasks[t].at = "destroy" =>
         \A p \in Providers : runs["destroy"][p] > 0 \/ p \in Range(tasks[t].todo)
    /\ cleared \/ (\E t \in Tasks : tasks[t].at = "shutdown") => Destroyed
    /\ opened > 0 /\ ~initialized =>
         Destroyed \/ \E t \in Tasks : tasks[t].at \in {"before", "destroy"}

\* The initial state satisfies it.
LEMMA InitClosed == Init => ClosedInv
BY DEF Init, ClosedInv, Idle

\* No call of a hook is taken back.
LEMMA DestroyedStays ==
  ASSUME PhaseInv, NEW t \in Tasks, Moves(t), NEW p \in Providers, runs["destroy"][p] > 0
  PROVE  runs'["destroy"][p] > 0
<1>1. CASE UNCHANGED runs
  BY <1>1
<1>2. CASE Hooked(t)
  <2>1. tasks[t].at \in Hooks /\ tasks[t].todo # <<>> /\ Listed(tasks[t].todo)
        /\ runs' = [runs EXCEPT ![tasks[t].at][Head(tasks[t].todo)] = @ + 1]
    BY <1>2 DEF Hooked, Visits, PhaseInv
  <2>2. runs["destroy"][p] \in Nat
    BY DEF PhaseInv, Hooks
  <2> QED BY <2>1, <2>2 DEF PhaseInv, Hooks
<1> QED BY <1>1, <1>2 DEF Moves, Leaves, Outside, Boots, Closes, Destroys, ShutsDown, Enters

\* Every move keeps it.
LEMMA MovesClosed ==
  ASSUME PhaseInv, ClosedInv, UNCHANGED scenario, NEW t \in Tasks, Moves(t)
  PROVE  ClosedInv'
<1> SUFFICES ASSUME BeforeWorks
             PROVE  /\ \A u \in Tasks : tasks'[u].at = "before" => ~tasks'[u].failed
                    /\ \A u \in Tasks : tasks'[u].at = "destroy" =>
                         \A p \in Providers : runs'["destroy"][p] > 0 \/ p \in Range(tasks'[u].todo)
                    /\ cleared' \/ (\E u \in Tasks : tasks'[u].at = "shutdown") => Destroyed'
                    /\ opened' > 0 /\ ~initialized' =>
                         Destroyed' \/ \E u \in Tasks : tasks'[u].at \in {"before", "destroy"}
  BY DEF ClosedInv, BeforeWorks, Faulty, Tasks, Op
<1>1. \A u \in Tasks \ {t} : tasks'[u] = tasks[u]
  BY DEF Moves, Leaves, Outside, Hooked, Visits, Boots, Closes, Destroys, ShutsDown, Enters, Alone
<1>2. \A p \in Providers : runs["destroy"][p] > 0 => runs'["destroy"][p] > 0
  BY DestroyedStays
<1>3. Destroyed => Destroyed'
  BY <1>2 DEF Destroyed
<1>4. /\ \A u \in Tasks : tasks[u].at = "before" => ~tasks[u].failed
      /\ \A u \in Tasks : tasks[u].at = "destroy" =>
           \A p \in Providers : runs["destroy"][p] > 0 \/ p \in Range(tasks[u].todo)
      /\ cleared \/ (\E u \in Tasks : tasks[u].at = "shutdown") => Destroyed
      /\ opened > 0 /\ ~initialized =>
           Destroyed \/ \E u \in Tasks : tasks[u].at \in {"before", "destroy"}
  BY DEF ClosedInv
<1>5. \A p \in Providers : ~cleared => p \in Range(Reverse(Instances))
  BY InstancesListed, ReverseListed DEF Instances, Providers
<1>6. CASE Leaves(t)
  <2>1. tasks'[t].at \notin Hooks /\ UNCHANGED runs
    BY <1>6 DEF Leaves, Outside
  <2>2. tasks[t].at # "before"
    BY <1>4, <1>6 DEF Leaves
  <2>3. opened' > 0 /\ ~initialized' => opened > 0 /\ ~initialized
    BY <1>6 DEF Leaves, Outside, Initialized
  <2>4. cleared' => Destroyed
    BY <1>4, <1>6 DEF Leaves
  <2>5. tasks[t].at = "destroy" => FALSE
    BY <1>6 DEF Leaves
  <2> QED BY <1>1, <1>3, <1>4, <2>1, <2>2, <2>3, <2>4, <2>5 DEF Hooks
<1>7. CASE Hooked(t)
  <2>1. /\ tasks'[t].at = tasks[t].at /\ tasks'[t].todo = Tail(tasks[t].todo)
        /\ tasks[t].todo # <<>> /\ tasks[t].at \in Hooks /\ Listed(tasks[t].todo)
        /\ runs' = [runs EXCEPT ![tasks[t].at][Head(tasks[t].todo)] = @ + 1]
        /\ UNCHANGED <<initialized, opened, cleared>>
    BY <1>7 DEF Hooked, Visits, PhaseInv
  <2>2. /\ Range(Tail(tasks[t].todo)) = Range(tasks[t].todo) \ {Head(tasks[t].todo)}
        /\ Head(tasks[t].todo) \in Providers
    BY <2>1, TailListed
  <2>3. tasks[t].at = "before" => ~tasks'[t].failed
    BY <1>4, <1>7, <2>2 DEF Hooked, BeforeWorks
  <2>4. tasks[t].at = "destroy" => runs'["destroy"][Head(tasks[t].todo)] > 0
    <3>1. runs["destroy"][Head(tasks[t].todo)] \in Nat
      BY <2>2 DEF PhaseInv, Hooks
    <3> QED BY <2>1, <2>2, <3>1 DEF PhaseInv, Hooks
  <2>5. ASSUME tasks'[t].at = "destroy", NEW p \in Providers
        PROVE  runs'["destroy"][p] > 0 \/ p \in Range(tasks'[t].todo)
    BY <1>2, <1>4, <2>1, <2>2, <2>4, <2>5
  <2> QED BY <1>1, <1>2, <1>3, <1>4, <2>1, <2>3, <2>5
<1>8. CASE Boots(t)
  <2>1. /\ tasks'[t].at = "bootstrap" /\ tasks[t].at = "prepare"
        /\ UNCHANGED <<initialized, opened, cleared, runs>>
    BY <1>8 DEF Boots, Enters
  <2> QED BY <1>1, <1>3, <1>4, <2>1
<1>9. CASE Closes(t)
  <2>1. tasks'[t].at = "before" /\ ~tasks'[t].failed /\ UNCHANGED <<cleared, runs>>
    BY <1>9 DEF Closes, Enters
  <2>2. \A u \in Tasks : tasks'[u].at \in {"shutdown", "destroy"} => u # t
    BY <2>1
  <2> QED BY <1>1, <1>3, <1>4, <2>1, <2>2
<1>10. CASE Destroys(t)
  <2>1. /\ tasks'[t].at = "destroy" /\ tasks'[t].todo = Reverse(Instances)
        /\ UNCHANGED <<initialized, opened, cleared, runs>>
    BY <1>10 DEF Destroys, Enters
  <2>2. ASSUME NEW p \in Providers
        PROVE  runs'["destroy"][p] > 0 \/ p \in Range(tasks'[t].todo)
    BY <1>3, <1>4, <1>5, <2>1 DEF Destroyed
  <2> QED BY <1>1, <1>3, <1>4, <2>1, <2>2
<1>11. CASE ShutsDown(t)
  <2>1. /\ tasks[t].at = "destroy" /\ tasks[t].todo = <<>> /\ tasks'[t].at = "shutdown"
        /\ UNCHANGED <<initialized, opened, cleared, runs>>
    BY <1>11 DEF ShutsDown, Enters
  <2>2. Range(tasks[t].todo) = {}
    BY <2>1 DEF Range
  <2>3. Destroyed
    BY <1>4, <2>1, <2>2 DEF Destroyed
  <2> QED BY <1>1, <1>2, <1>3, <1>4, <2>1, <2>3
<1> QED BY <1>6, <1>7, <1>8, <1>9, <1>10, <1>11 DEF Moves

\* Every step keeps it.
LEMMA NextClosed == PhaseInv /\ ClosedInv /\ [Next]_vars => ClosedInv'
<1> SUFFICES ASSUME PhaseInv, ClosedInv, [Next]_vars PROVE ClosedInv'
  OBVIOUS
<1>1. CASE Next
  <2>1. UNCHANGED scenario /\ \E t \in Tasks : Moves(t)
    BY <1>1, NextMoves DEF PhaseInv
  <2> QED BY <2>1, MovesClosed
<1>2. CASE UNCHANGED vars
  BY <1>2 DEF vars, app, ctx, ClosedInv, BeforeWorks, Destroyed, Faulty, Tasks, Op
<1> QED BY <1>1, <1>2

\* However calls race and whichever hooks fail, except those of the first phase of close(),
\* an application that is not initialised any more has called onModuleDestroy() of every
\* provider, unless a call is still inside the shutdown.
THEOREM ClosedWasDisposed == Spec => []ClosedIsDisposed
<1>1. ClosedInv => ClosedIsDisposed
  BY DEF ClosedInv, ClosedIsDisposed, BeforeWorks, Destroyed
<1> QED BY <1>1, InitPhases, NextPhases, InitClosed, NextClosed, PTL DEF Spec

-----------------------------------------------------------------------------
(* Bootstrapped once.                                                      *)

NeverClosed == App = "http" /\ ~Calls({"close", "run"})

\* Where the calls of an HttpApplication can be when nobody closes it.
OpenPlaces == {"idle", "prepare", "bootstrap", "ready", "serve", "attach", "done", "rejected"}

Booting(t) == tasks[t].at \in {"prepare", "bootstrap"}

\* Strengthening BootstrapOnce: the application marks itself as initialised before the one
\* call that runs the hooks, which are not called before, nor twice.
BootInv ==
  NeverClosed =>
    /\ scenario \in Scenarios
    /\ \A t \in Tasks : tasks[t].at \in OpenPlaces
    /\ \A t, u \in Tasks : Booting(t) /\ Booting(u) => t = u
    /\ \A t \in Tasks : Booting(t) \/ tasks[t].at = "ready" => initialized
    /\ \A p \in Providers :
         /\ runs["bootstrap"][p] <= 1
         /\ ~initialized => runs["bootstrap"][p] = 0
         /\ \A t \in Tasks : \/ tasks[t].at = "prepare"
                             \/ tasks[t].at = "bootstrap" /\ p \in Range(tasks[t].todo)
                             => runs["bootstrap"][p] = 0

\* The initial state satisfies it.
LEMMA InitBoot == Init => BootInv
<1> SUFFICES ASSUME Init PROVE BootInv
  OBVIOUS
<1>1. \A t \in Tasks : tasks[t].at = "idle"
  BY DEF Init, Idle
<1>2. \A p \in Providers : runs["bootstrap"][p] = 0
  BY DEF Init, Hooks
<1> QED BY <1>1, <1>2 DEF Init, BootInv, OpenPlaces, Booting

\* A step that takes its task to a place after the hooks, to "ready" only from them, keeps it.
LEMMA AfterHooksKeeps ==
  ASSUME PhaseInv, BootInv, UNCHANGED <<scenario, runs, initialized>>, NEW t \in Tasks, NEW place,
         Arrives(t, place), Alone(t), NeverClosed => place \in OpenPlaces \ {"prepare", "bootstrap"},
         place = "ready" => Booting(t)
  PROVE  BootInv'
<1>1. Tasks' = Tasks /\ NeverClosed' = NeverClosed
  BY DEF Tasks, Op, NeverClosed, Calls, App
<1> SUFFICES ASSUME NeverClosed PROVE BootInv'
  BY <1>1 DEF BootInv
<1>2. tasks'[t].at = place /\ \A u \in Tasks \ {t} : tasks'[u] = tasks[u]
  BY DEF Arrives, Alone
<1>3. ASSUME NEW u \in Tasks, Booting(u)'
      PROVE  u # t /\ Booting(u)
  BY <1>2, <1>3 DEF Booting
<1>4. \A u \in Tasks : tasks'[u].at = "ready" => initialized
  BY <1>2 DEF BootInv
<1>5. ASSUME NEW p \in Providers, NEW u \in Tasks,
             tasks'[u].at = "prepare" \/ (tasks'[u].at = "bootstrap" /\ p \in Range(tasks'[u].todo))
      PROVE  runs["bootstrap"][p] = 0
  BY <1>2, <1>5 DEF BootInv
<1>6. \A u \in Tasks : tasks'[u].at \in OpenPlaces
  BY <1>2 DEF BootInv
<1> QED BY <1>1, <1>3, <1>4, <1>5, <1>6 DEF BootInv

\* The call that enters init() finds that no other has, and holds back the next ones.
LEMMA EnterInitBoots ==
  ASSUME PhaseInv, BootInv, UNCHANGED scenario, NEW t \in Tasks, ~initialized, EnterInit(t)
  PROVE  BootInv'
<1>1. Tasks' = Tasks /\ NeverClosed' = NeverClosed
  BY DEF Tasks, Op, NeverClosed, Calls, App
<1> SUFFICES ASSUME NeverClosed PROVE BootInv'
  BY <1>1 DEF BootInv
<1>2. initialized' /\ UNCHANGED runs
  BY DEF EnterInit, MarkEarly, NeverClosed, Initialized, ctx
<1>3. tasks' = Goto(t, "prepare")
  BY DEF EnterInit
<1>4. Alone(t)
  BY <1>3, TaskStepsAlone DEF PhaseInv
<1>5. tasks'[t].at = "prepare" /\ \A u \in Tasks \ {t} : tasks'[u] = tasks[u]
  BY <1>3, <1>4, GotoArrives DEF Arrives, Alone, PhaseInv
<1>6. \A u \in Tasks : ~Booting(u)
  BY DEF BootInv
<1>7. \A u, v \in Tasks : Booting(u)' /\ Booting(v)' => u = v
  BY <1>5, <1>6 DEF Booting
<1>8. \A p \in Providers : runs'["bootstrap"][p] = 0
  BY <1>2 DEF BootInv
<1>9. \A u \in Tasks : tasks'[u].at \in OpenPlaces
  BY <1>5 DEF BootInv, OpenPlaces
<1> QED BY <1>1, <1>2, <1>7, <1>8, <1>9 DEF BootInv

\* The steps of init() that run the hooks keep it.
LEMMA HookStepsBoot ==
  ASSUME PhaseInv, BootInv, UNCHANGED scenario, NEW t \in Tasks, NeverClosed,
         Boots(t) \/ (Hooked(t) /\ tasks[t].at = "bootstrap")
  PROVE  BootInv'
<1>1. Tasks' = Tasks /\ NeverClosed' = NeverClosed /\ UNCHANGED <<scenario, initialized>>
  BY DEF Tasks, Op, NeverClosed, Calls, App, Boots, Hooked, Visits
<1>2. /\ tasks'[t].at = "bootstrap" /\ \A u \in Tasks \ {t} : tasks'[u] = tasks[u]
      /\ Booting(t)
  BY DEF Boots, Hooked, Visits, Enters, Alone, Booting
<1>3. initialized /\ \A u \in Tasks \ {t} : ~Booting(u)
  BY <1>2 DEF BootInv
<1>4. \A u \in Tasks : Booting(u)' => u = t
  BY <1>2, <1>3 DEF Booting
<1>5. \A u \in Tasks : tasks'[u].at \in OpenPlaces
  BY <1>2 DEF BootInv, OpenPlaces
<1>6. ASSUME NEW p \in Providers
      PROVE  runs'["bootstrap"][p] <= 1 /\ (p \in Range(tasks'[t].todo) => runs'["bootstrap"][p] = 0)
  <2>1. runs["bootstrap"][p] <= 1 /\ runs["bootstrap"][p] \in Nat
    BY DEF BootInv, PhaseInv, Hooks
  <2>2. CASE Boots(t)
    BY <2>1, <2>2 DEF Boots, Enters, BootInv
  <2>3. CASE Hooked(t) /\ tasks[t].at = "bootstrap"
    <3>1. /\ tasks'[t].todo = Tail(tasks[t].todo) /\ tasks[t].todo # <<>> /\ Listed(tasks[t].todo)
          /\ runs' = [runs EXCEPT !["bootstrap"][Head(tasks[t].todo)] = @ + 1]
      BY <2>3 DEF Hooked, Visits, PhaseInv
    <3>2. /\ Range(Tail(tasks[t].todo)) = Range(tasks[t].todo) \ {Head(tasks[t].todo)}
          /\ Head(tasks[t].todo) \in Range(tasks[t].todo) /\ Head(tasks[t].todo) \in Providers
      BY <3>1, TailListed
    <3>3. CASE p = Head(tasks[t].todo)
      <4>1. runs["bootstrap"][p] = 0
        BY <2>3, <3>2, <3>3 DEF BootInv
      <4>2. runs'["bootstrap"][p] = 1
        BY <3>1, <3>3, <4>1 DEF PhaseInv, Hooks
      <4> QED BY <3>1, <3>2, <3>3, <4>2
    <3>4. CASE p # Head(tasks[t].todo)
      <4>1. runs'["bootstrap"][p] = runs["bootstrap"][p]
        BY <3>1, <3>2, <3>4 DEF PhaseInv, Hooks
      <4>2. p \in Range(tasks'[t].todo) => runs["bootstrap"][p] = 0
        BY <2>3, <3>1, <3>2 DEF BootInv
      <4> QED BY <2>1, <4>1, <4>2
    <3> QED BY <3>3, <3>4
  <2> QED BY <2>2, <2>3
<1>7. ASSUME NEW u \in Tasks, tasks'[u].at = "prepare"
      PROVE  FALSE
  BY <1>2, <1>4, <1>7 DEF Booting
<1>8. \A p \in Providers : \A u \in Tasks :
        \/ tasks'[u].at = "prepare"
        \/ tasks'[u].at = "bootstrap" /\ p \in Range(tasks'[u].todo)
        => runs'["bootstrap"][p] = 0
  BY <1>4, <1>6, <1>7 DEF Booting
<1> QED BY <1>1, <1>3, <1>4, <1>5, <1>6, <1>8 DEF BootInv

\* The calls keep it.
LEMMA CallsBoot ==
  ASSUME PhaseInv, BootInv, UNCHANGED scenario, NEW t \in Tasks, Call(t), NeverClosed
  PROVE  BootInv'
<1>1. CASE ~initialized /\ EnterInit(t)
  BY <1>1, EnterInitBoots
<1>2. CASE tasks' = Goto(t, "done") /\ UNCHANGED <<initialized, ctx>>
  <2>1. Alone(t) /\ UNCHANGED runs
    BY <1>2, TaskStepsAlone DEF PhaseInv, ctx
  <2>2. Arrives(t, "done")
    BY <1>2, GotoArrives DEF PhaseInv
  <2> QED BY <1>2, <2>1, <2>2, AfterHooksKeeps DEF OpenPlaces
<1>3. CASE tasks' = Phase(t, "attach", Servers) /\ UNCHANGED <<app, ctx, opened>>
  <2>1. Alone(t) /\ UNCHANGED <<runs, initialized>>
    BY <1>3, TaskStepsAlone DEF PhaseInv, ctx, app
  <2>2. Arrives(t, "attach")
    BY <1>3, PhaseArrives DEF PhaseInv
  <2> QED BY <2>1, <2>2, AfterHooksKeeps DEF OpenPlaces
<1>4. Op[t] \notin {"run", "close"}
  BY DEF NeverClosed, Calls
<1>5. tasks[t].at # "command"
  BY DEF BootInv, OpenPlaces
<1>6. CASE CallInit(t)
  BY <1>1, <1>2, <1>6 DEF CallInit, app
<1>7. CASE CallListen(t)
  BY <1>1, <1>2, <1>7 DEF CallListen
<1>8. CASE CallStart(t)
  BY <1>1, <1>3, <1>8 DEF CallStart
<1> QED BY <1>4, <1>5, <1>6, <1>7, <1>8 DEF Call, CallRun, CallClose

\* The steps keep it.
LEMMA StepsBoot ==
  ASSUME PhaseInv, BootInv, UNCHANGED scenario, NEW t \in Tasks, Step(t), NeverClosed
  PROVE  BootInv'
<1>1. TaskShape /\ tasks[t].at \in OpenPlaces
  BY DEF PhaseInv, BootInv
<1>2. ASSUME NEW place, tasks' = Goto(t, place), UNCHANGED <<runs, initialized>>,
             place \in OpenPlaces \ {"prepare", "bootstrap"}, place = "ready" => Booting(t)
      PROVE  BootInv'
  <2>1. Alone(t)
    BY <1>1, <1>2, TaskStepsAlone
  <2>2. Arrives(t, place)
    BY <1>1, <1>2, GotoArrives
  <2> QED BY <1>2, <2>1, <2>2, AfterHooksKeeps
<1>3. CASE Prepare(t)
  <2>1. CASE isBootstrapped
    BY <1>2, <1>3, <2>1 DEF Prepare, Booting, OpenPlaces, ctx
  <2>2. CASE ~isBootstrapped
    <3>1. tasks[t].at = "prepare"
      BY <1>3 DEF Prepare
    <3>2. Boots(t)
      BY <1>1, <1>3, <2>2, <3>1, StepsEnter DEF Boots
    <3> QED BY <3>2, HookStepsBoot
  <2> QED BY <2>1, <2>2
<1>4. CASE RunHook(t)
  <2>1. tasks[t].at = "bootstrap"
    BY <1>1, <1>4 DEF RunHook, Hooks, OpenPlaces
  <2>2. Hooked(t)
    BY <1>1, <1>4, RunHookVisits DEF Hooked
  <2> QED BY <2>1, <2>2, HookStepsBoot
<1>5. CASE EndBootstrap(t)
  BY <1>2, <1>5 DEF EndBootstrap, Booting, OpenPlaces, app
<1>6. CASE EndInit(t)
  <2>1. UNCHANGED <<runs, initialized>>
    BY <1>6 DEF EndInit, ctx, NeverClosed
  <2>2. Op[t] \in {"init", "listen", "start"}
    BY ScenarioAssumption DEF BootInv, NeverClosed, Calls, Op, Ops, Tasks
  <2>3. CASE Op[t] = "start"
    <3>1. tasks' = Phase(t, "attach", Servers)
      BY <1>6, <2>3 DEF EndInit
    <3>2. Alone(t)
      BY <1>1, <3>1, TaskStepsAlone
    <3>3. Arrives(t, "attach")
      BY <1>1, <3>1, PhaseArrives
    <3> QED BY <2>1, <3>2, <3>3, AfterHooksKeeps DEF OpenPlaces
  <2>4. CASE Op[t] = "init"
    BY <1>2, <1>6, <2>1, <2>4 DEF EndInit, OpenPlaces
  <2>5. CASE Op[t] = "listen"
    BY <1>2, <1>6, <2>1, <2>5 DEF EndInit, OpenPlaces
  <2> QED BY <2>2, <2>3, <2>4, <2>5
<1>7. CASE Serve(t) \/ EndStart(t)
  BY <1>2, <1>7 DEF Serve, EndStart, OpenPlaces, NeverClosed, ctx, app
<1>8. CASE Attach(t)
  <2>1. UNCHANGED <<runs, initialized>>
    BY <1>8 DEF Attach, ctx
  <2>2. Alone(t)
    BY <1>1, <1>8, TaskStepsAlone DEF Attach
  <2>3. \E place \in {"attach", "rejected"} : Arrives(t, place)
    BY <1>1, <1>8, AdvanceArrives, ExceptArrives DEF Attach
  <2> QED BY <2>1, <2>2, <2>3, AfterHooksKeeps DEF OpenPlaces
<1>9. ~(\/ StopServers(t) \/ StopAdapter(t) \/ EnterClose(t) \/ EndBefore(t) \/ EndDestroy(t)
        \/ EndShutdown(t) \/ EndListen(t))
  BY <1>1 DEF EndListen, StopServers, StopAdapter, EnterClose, EndBefore, EndDestroy, EndShutdown, OpenPlaces
<1> QED BY <1>3, <1>4, <1>5, <1>6, <1>7, <1>8, <1>9 DEF Step

\* Every step keeps it.
LEMMA NextBoot == PhaseInv /\ BootInv /\ [Next]_vars => BootInv'
<1> SUFFICES ASSUME PhaseInv, BootInv, [Next]_vars PROVE BootInv'
  OBVIOUS
<1>1. CASE Next /\ NeverClosed
  <2>1. PICK t \in Tasks : UNCHANGED scenario /\ (Call(t) \/ Step(t) \/ Lose(t))
    BY <1>1 DEF Next
  <2>2. ~Lose(t)
    BY <1>1 DEF Lose, NeverClosed
  <2> QED BY <1>1, <2>1, <2>2, CallsBoot, StepsBoot
<1>2. CASE Next /\ ~NeverClosed
  BY <1>2 DEF Next, BootInv, NeverClosed, Calls, App, Tasks, Op
<1>3. CASE UNCHANGED vars
  BY <1>3 DEF vars, app, ctx, BootInv, Booting, NeverClosed, Calls, App, Tasks, Op
<1> QED BY <1>1, <1>2, <1>3

\* Whoever calls init(), listen() or startAllMicroservices() of an HttpApplication while
\* its bootstrap hooks run, each hook is called at most once as long as nobody closes it.
THEOREM BootstrapsOnce == Spec => []BootstrapOnce
<1>1. BootInv => BootstrapOnce
  BY DEF BootInv, BootstrapOnce, NeverClosed
<1> QED BY <1>1, InitPhases, NextPhases, InitBoot, NextBoot, PTL DEF Spec
=============================================================================
