-------------------------- MODULE SequentialProofs --------------------------
(***************************************************************************)
(* Proofs about the components whose steps do not overlap: the service     *)
(* modules in an application, for any databases, storage connections,      *)
(* packages, cron methods and calls of the application; the loggers, for   *)
(* any options and arguments; the help of the console, for any commands    *)
(* and any line; and the decorators, for any classes and any marks.        *)
(***************************************************************************)
EXTENDS Services, Logger, CommandLine, Decorators, FiniteSetTheorems, WellFoundedInduction, TLAPS

-----------------------------------------------------------------------------
(* The database connections.                                               *)

\* A connection that was made for an option: by the driver of its type.
IsOf(connection, type, name) ==
  /\ connection.option \in DOMAIN Databases
  /\ <<Databases[connection.option].type, Databases[connection.option].name>> = <<type, name>>
  /\ connection.driver = type

\* Strengthening OwnConnections to an inductive invariant: a factory is the one of its type,
\* and what is kept for a name belongs to it and was reached.
ConnectionsInv ==
  /\ OwnConnections
  /\ databaseAt \in Nat
  /\ \A t \in DOMAIN factories : factories[t] = t
  /\ \A h \in handed : IsOf(h.connection, h.type, h.name)
  /\ \A k \in DOMAIN connections :
       /\ k = <<k[1], k[2]>> /\ IsOf(connections[k], k[1], k[2])
       /\ connections[k].option < databaseAt

\* The initial state satisfies it.
LEMMA InitConnections == ConnectionsInit => ConnectionsInv
BY DEF ConnectionsInit, ConnectionsInv, OwnConnections

\* One round of onModuleInit() keeps it, whichever packages are missing.
LEMMA EstablishKeeps ==
  ASSUME ConnectionsInv, EstablishConnection
  PROVE  ConnectionsInv'
<1> DEFINE option == Databases[databaseAt]
<1>1. databaseAt \in DOMAIN Databases /\ UNCHANGED handed
  BY DEF EstablishConnection
<1>2. \A t \in DOMAIN factories' : factories'[t] = t
  <2>1. factories' = [t \in DOMAIN factories \cup {u \in {option.type} : Factory(option) # {}} |->
                        IF t = option.type THEN CHOOSE p \in Factory(option) : TRUE
                                           ELSE factories[t]]
    BY DEF EstablishConnection
  <2>2. Factory(option) \subseteq {option.type}
    BY DEF Factory, ConnectionsInv
  <2>3. option.type \in DOMAIN factories => Factory(option) # {}
    BY DEF Factory
  <2> QED BY <2>1, <2>2, <2>3 DEF ConnectionsInv
<1>3. CASE UNCHANGED <<databaseAt, connections>>
  BY <1>1, <1>2, <1>3 DEF ConnectionsInv, OwnConnections, IsOf
<1>4. CASE ~UNCHANGED <<databaseAt, connections>>
  <2> DEFINE key == <<option.type, option.name>>
  <2>1. /\ Factory(option) # {} /\ databaseAt' = databaseAt + 1
        /\ connections' = [k \in DOMAIN connections \cup {key} |->
             IF k = key THEN [driver |-> factories'[option.type], option |-> databaseAt]
                        ELSE connections[k]]
    BY <1>4 DEF EstablishConnection
  <2>2. factories'[option.type] = option.type
    <3>1. option.type \in DOMAIN factories'
      BY <2>1 DEF EstablishConnection
    <3> QED BY <1>2, <3>1
  <2>3. databaseAt \in Nat /\ databaseAt' \in Nat
    BY <2>1 DEF ConnectionsInv
  <2>4. ASSUME NEW k \in DOMAIN connections'
        PROVE  /\ k = <<k[1], k[2]>> /\ IsOf(connections'[k], k[1], k[2])
               /\ connections'[k].option < databaseAt'
               /\ \A i \in DOMAIN Databases :
                    /\ i > connections'[k].option
                    /\ <<Databases[i].type, Databases[i].name>> = k
                    => i >= databaseAt'
    <3>1. DOMAIN Databases \subseteq Nat
      BY DatabaseAssumption
    <3>2. CASE k = key
      <4>1. connections'[k] = [driver |-> option.type, option |-> databaseAt]
        BY <2>1, <2>2, <3>2
      <4> QED BY <1>1, <2>1, <2>3, <3>1, <3>2, <4>1 DEF IsOf
    <3>3. CASE k # key
      <4>1. k \in DOMAIN connections /\ connections'[k] = connections[k]
        BY <2>1, <2>4, <3>3
      <4>2. \A i \in DOMAIN Databases :
              /\ i > connections[k].option
              /\ <<Databases[i].type, Databases[i].name>> = k
              => i >= databaseAt /\ i # databaseAt
        BY <3>3, <4>1 DEF ConnectionsInv, OwnConnections
      <4>3. connections[k].option \in Nat
        BY <3>1, <4>1 DEF ConnectionsInv, IsOf
      <4> QED BY <2>1, <2>3, <3>1, <4>1, <4>2, <4>3 DEF ConnectionsInv
    <3> QED BY <3>2, <3>3
  <2> QED BY <1>1, <1>2, <2>3, <2>4 DEF ConnectionsInv, OwnConnections, IsOf
<1> QED BY <1>3, <1>4

\* Every step of an application keeps it.
LEMMA NextConnections == ConnectionsInv /\ [ServicesNext]_serviceVars => ConnectionsInv'
<1> SUFFICES ASSUME ConnectionsInv, [ServicesNext]_serviceVars PROVE ConnectionsInv'
  OBVIOUS
<1>1. CASE EstablishConnection
  BY <1>1, EstablishKeeps
<1>2. ASSUME NEW type, NEW name, GetConnection(type, name) PROVE ConnectionsInv'
  <2>1. /\ <<type, name>> \in DOMAIN connections
        /\ handed' = {[type |-> type, name |-> name, connection |-> connections[<<type, name>>]]}
        /\ UNCHANGED <<databaseAt, factories, connections>>
    BY <1>2 DEF GetConnection
  <2>2. IsOf(connections[<<type, name>>], type, name)
    BY <2>1 DEF ConnectionsInv
  <2>3. \A h \in handed' : IsOf(h.connection, h.type, h.name)
    BY <2>1, <2>2
  <2> QED BY <2>1, <2>3 DEF ConnectionsInv, OwnConnections, IsOf
<1>3. CASE UNCHANGED <<databaseAt, factories, connections, handed>>
  BY <1>3 DEF ConnectionsInv, OwnConnections, IsOf
<1> QED
  BY <1>1, <1>2, <1>3 DEF ServicesNext, InitHooks, BootstrapHooks, UseGlobals, UseServices,
     DestroyHooks, CreateConnectionMap, CreateCache, DisconnectCache, DestroyStorage,
     connectionVars, serviceVars

\* DrizzleService hands out for a type and a name a connection of that type's own driver,
\* made for the last option of the name that was reached: whichever packages are missing,
\* and also when onModuleInit() ended early.
THEOREM ConnectionsAreOwn == ServicesSpec => []OwnConnections
<1>1. ServicesInit => ConnectionsInv
  BY InitConnections DEF ServicesInit
<1>2. ConnectionsInv => OwnConnections
  BY DEF ConnectionsInv
<1> QED BY <1>1, <1>2, NextConnections, PTL DEF ServicesSpec

-----------------------------------------------------------------------------
(* Jobs and timers can be stopped.                                         *)

\* Jobs of cron methods that run and are not in the registry.
Lost == {j \in running : ~j.own /\ (j.name \in DOMAIN cronJobs => cronJobs[j.name] # j)}

\* Strengthening Stoppable to an inductive invariant.
StoppableInv ==
  /\ \A j, k \in Lost : j = k
  /\ discovery # "failed" => Lost = {}
  /\ \A t \in ticking : t.added =>
       <<t.kind, t.name>> \in DOMAIN timers /\ timers[<<t.kind, t.name>>] = t

\* What the strengthening says of the timers implies that they can be stopped.
LEMMA InvImpliesStoppable == StoppableInv => Stoppable
<1> SUFFICES ASSUME StoppableInv PROVE Stoppable
  OBVIOUS
<1>1. CASE Lost = {}
  BY <1>1, FS_EmptySet DEF Stoppable, StoppableInv, Lost
<1>2. CASE Lost # {}
  <2>1. PICK j : Lost = {j}
    <3>1. PICK j \in Lost : TRUE
      BY <1>2
    <3>2. \A k \in Lost : k = j
      BY <3>1 DEF StoppableInv
    <3>3. Lost = {j}
      BY <3>1, <3>2
    <3> QED BY <3>3
  <2>2. Cardinality(Lost) = 1 /\ discovery = "failed"
    BY <2>1, FS_Singleton DEF StoppableInv
  <2> QED BY <2>2 DEF Stoppable, StoppableInv, Lost
<1> QED BY <1>1, <1>2

\* One provider's methods: all of their jobs are in the registry, but one that it refuses.
LEMMA DiscoverProviderKeeps ==
  ASSUME StoppableInv, DiscoverProvider
  PROVE  StoppableInv'
<1>1. PICK names : names = CronProviders[providerAt]
  OBVIOUS
<1> DEFINE Job(i) == [name |-> names[i], id |-> started + i, own |-> FALSE]
           kept == Kept(names)
           lasting == Begun(names) \cap Stops(names)
<1>2. /\ discovery = "running" /\ UNCHANGED <<timers, ticking>>
      /\ running' = running \cup {Job(i) : i \in Begun(names)}
      /\ cronJobs' = [name \in DOMAIN cronJobs \cup {names[i] : i \in kept} |->
                        IF name \in DOMAIN cronJobs THEN cronJobs[name]
                        ELSE Job(CHOOSE i \in kept : names[i] = name)]
      /\ discovery' = IF Stops(names) = {} THEN "running" ELSE "failed"
  BY <1>1 DEF DiscoverProvider
<1>3. DOMAIN names \subseteq Nat \ {0}
  BY <1>1, CronAssumption DEF DiscoverProvider
<1>4. Begun(names) \subseteq DOMAIN names /\ Stops(names) \subseteq DOMAIN names
  BY DEF Begun, Stops
<1>5. \A i, k \in lasting : i = k
  BY <1>3, <1>4 DEF Begun
<1>6. ASSUME NEW i \in kept
      PROVE  cronJobs'[names[i]] = Job(i) /\ names[i] \in DOMAIN cronJobs'
  <2>1. names[i] \notin DOMAIN cronJobs
    BY <1>4 DEF Kept, Stops, RegistryRefuses
  <2>2. \A k \in kept : names[k] = names[i] => k = i
    BY <1>3, <1>4 DEF Kept, Begun, DenoRefuses
  <2> QED BY <1>2, <2>1, <2>2
<1>7. ASSUME NEW j \in Lost'
      PROVE  \E i \in lasting : j = Job(i)
  <2>1. CASE j \in running
    <3>1. j.name \in DOMAIN cronJobs /\ cronJobs[j.name] = j
      BY <1>2, <1>7, <2>1 DEF StoppableInv, Lost
    <3> QED BY <1>2, <1>7, <3>1 DEF Lost
  <2>2. CASE j \notin running
    <3>1. PICK i \in Begun(names) : j = Job(i)
      BY <1>2, <1>7, <2>2 DEF Lost
    <3>2. i \notin kept
      BY <1>6, <1>7, <3>1 DEF Lost
    <3> QED BY <3>1, <3>2 DEF Kept
  <2> QED BY <2>1, <2>2
<1>8. \A j, k \in Lost' : j = k
  BY <1>5, <1>7
<1>9. discovery' # "failed" => Lost' = {}
  BY <1>2, <1>7
<1> QED BY <1>2, <1>8, <1>9 DEF StoppableInv

\* The application's calls lose no job and no timer.
LEMMA UseSchedulerKeeps ==
  ASSUME StoppableInv, UseScheduler
  PROVE  StoppableInv'
<1>1. ASSUME NEW name, AddCronJob(name) PROVE StoppableInv'
  <2>1. Lost' \subseteq Lost
    BY <1>1 DEF AddCronJob, Lost, With
  <2> QED BY <1>1, <2>1 DEF AddCronJob, StoppableInv
<1>2. ASSUME NEW name, DeleteCronJob(name) PROVE StoppableInv'
  <2>1. Lost' \subseteq Lost
    BY <1>2 DEF DeleteCronJob, Aborted, Lost, Without
  <2> QED BY <1>2, <2>1 DEF DeleteCronJob, StoppableInv
<1>3. ASSUME NEW kind, NEW name, AddTimer(kind, name) PROVE StoppableInv'
  <2>1. Lost' = Lost /\ UNCHANGED discovery
    BY <1>3 DEF AddTimer, Lost
  <2>2. \A t \in ticking' : t.added =>
          <<t.kind, t.name>> \in DOMAIN timers' /\ timers'[<<t.kind, t.name>>] = t
    <3> DEFINE key == <<kind, name>>  added == key \notin DOMAIN timers
               timer == [kind |-> kind, name |-> name, id |-> started + 1, added |-> added]
    <3>1. /\ ticking' = ticking \cup {timer}
          /\ timers' = IF added THEN With(timers, key, timer) ELSE timers
      BY <1>3 DEF AddTimer
    <3>2. added => /\ DOMAIN timers' = DOMAIN timers \cup {key} /\ timers'[key] = timer
                   /\ \A k \in DOMAIN timers : timers'[k] = timers[k]
      BY <3>1 DEF With
    <3>3. \A t \in ticking : t.added =>
            <<t.kind, t.name>> \in DOMAIN timers' /\ timers'[<<t.kind, t.name>>] = t
      BY <3>1, <3>2 DEF StoppableInv
    <3>4. timer.added = added /\ timer.kind = kind /\ timer.name = name
      OBVIOUS
    <3> HIDE DEF timer, added
    <3>5. timer.added => <<timer.kind, timer.name>> \in DOMAIN timers'
                         /\ timers'[<<timer.kind, timer.name>>] = timer
      BY <3>2, <3>4
    <3> QED BY <3>1, <3>3, <3>5
  <2> QED BY <2>1, <2>2 DEF StoppableInv
<1>4. ASSUME NEW kind, NEW name, DeleteTimer(kind, name) PROVE StoppableInv'
  <2>1. Lost' = Lost /\ UNCHANGED discovery
    BY <1>4 DEF DeleteTimer, Lost
  <2>2. \A t \in ticking' : t.added =>
          <<t.kind, t.name>> \in DOMAIN timers' /\ timers'[<<t.kind, t.name>>] = t
    BY <1>4 DEF DeleteTimer, Without, StoppableInv
  <2> QED BY <2>1, <2>2 DEF StoppableInv
<1>5. ASSUME NEW timer \in ticking, Fire(timer) PROVE StoppableInv'
  <2>1. Lost' = Lost /\ UNCHANGED <<discovery, timers>> /\ ticking' \subseteq ticking
    BY <1>5 DEF Fire, Lost
  <2> QED BY <2>1 DEF StoppableInv
<1> QED BY <1>1, <1>2, <1>3, <1>4, <1>5 DEF UseScheduler

\* Every step of an application keeps it.
LEMMA NextStoppable == StoppableInv /\ [ServicesNext]_serviceVars => StoppableInv'
<1> SUFFICES ASSUME StoppableInv, [ServicesNext]_serviceVars PROVE StoppableInv'
  OBVIOUS
<1>1. CASE DiscoverProvider
  BY <1>1, DiscoverProviderKeeps
<1>2. CASE UseScheduler
  BY <1>2, UseSchedulerKeeps
<1>3. CASE Bootstrap \/ DiscoveryFails \/ DiscoveryEnds
  <2>1. UNCHANGED <<running, cronJobs, timers, ticking>> /\ discovery # "failed"
    BY <1>3 DEF Bootstrap, DiscoveryFails, DiscoveryEnds
  <2> QED BY <2>1 DEF StoppableInv, Lost
<1>4. CASE UNCHANGED schedulerVars
  BY <1>4 DEF schedulerVars, StoppableInv, Lost
<1> QED
  BY <1>1, <1>2, <1>3, <1>4 DEF ServicesNext, InitHooks, BootstrapHooks, UseGlobals,
     UseServices, DestroyHooks, Discover, serviceVars

\* However the application adds and deletes jobs and timers while the crons are discovered,
\* a cron method's job that runs can be deleted by its name, except for the one on which
\* discovery failed, and a timer that was added can be cleared until it is over.
THEOREM AllStoppable == ServicesSpec => []Stoppable
<1>1. ServicesInit => StoppableInv
  BY DEF ServicesInit, SchedulerInit, StoppableInv, Lost
<1> QED BY <1>1, NextStoppable, InvImpliesStoppable, PTL DEF ServicesSpec
-----------------------------------------------------------------------------
(* The loggers.                                                            *)

\* However the arguments of a call are split, each is a message, the label or the stack,
\* and there is a message; only error() takes a stack.
SplitShows(split, level, args) ==
  /\ \E n \in Nat \ {0} : DOMAIN split.messages = 1..n
  /\ \A i \in DOMAIN args : \/ \E j \in DOMAIN split.messages : split.messages[j] = args[i]
                            \/ args[i] = split.label
                            \/ args[i] = split.stack /\ split.stack # Absent
  /\ split.stack # Absent => level = "error"

\* What is taken for the context is a string that was passed last; no other argument goes.
LEMMA SplitLabelShows ==
  ASSUME NEW l, NEW level, NEW S, NEW args \in Seq(S), args # <<>>
  PROVE  /\ SplitShows(SplitLabel(l, args), level, args)
         /\ SplitLabel(l, args).stack = Absent
         /\ \A i \in DOMAIN args :
              \/ \E j \in DOMAIN SplitLabel(l, args).messages :
                   SplitLabel(l, args).messages[j] = args[i]
              \/ args[i] = SplitLabel(l, args).label
<1>1. PICK n \in Nat \ {0} : Len(args) = n /\ DOMAIN args = 1..n
  OBVIOUS
<1> DEFINE split == SplitLabel(l, args)
<1>2. ASSUME NEW m \in 1..n, DOMAIN split.messages = 1..m, split.stack = Absent,
             \A i \in 1..m : split.messages[i] = args[i],
             m = n \/ (m = n - 1 /\ split.label = args[n])
      PROVE  /\ SplitShows(split, level, args) /\ split.stack = Absent
             /\ \A i \in DOMAIN args : \/ \E j \in DOMAIN split.messages : split.messages[j] = args[i]
                                       \/ args[i] = split.label
  <2> HIDE DEF split
  <2>1. \A i \in 1..n : i \in 1..m \/ (i = n /\ split.label = args[n])
    BY <1>2
  <2>2. \A i \in DOMAIN args : \/ \E j \in DOMAIN split.messages : split.messages[j] = args[i]
                               \/ args[i] = split.label
    BY <1>1, <1>2, <2>1
  <2>3. \E k \in Nat \ {0} : DOMAIN split.messages = 1..k
    BY <1>2
  <2>4. SplitShows(split, level, args)
    BY Zenon, <1>2, <2>2, <2>3 DEF SplitShows
  <2> QED BY <1>2, <2>2, <2>4
<1>3. CASE Len(args) > 1 /\ IsText(args[Len(args)])
  <2> DEFINE messages == SubSeq(args, 1, n - 1)
  <2>1. split = [messages |-> messages, label |-> args[n], stack |-> Absent]
    BY <1>1, <1>3 DEF SplitLabel
  <2>2. n - 1 \in 1..n /\ Len(messages) = n - 1 /\ messages \in Seq(S)
        /\ \A i \in 1..(n - 1) : messages[i] = args[i]
    BY <1>1, <1>3
  <2>3. DOMAIN messages = 1..(n - 1)
    BY <2>2
  <2>4. split.messages = messages /\ split.label = args[n] /\ split.stack = Absent
    BY <2>1
  <2> HIDE DEF messages, split
  <2> QED BY <1>2, <2>2, <2>3, <2>4 DEF split
<1>4. CASE ~(Len(args) > 1 /\ IsText(args[Len(args)]))
  <2>1. split.messages = args /\ split.stack = Absent
    BY <1>4 DEF SplitLabel
  <2> HIDE DEF split
  <2> QED BY <1>1, <1>2, <2>1 DEF split
<1> QED BY <1>3, <1>4

\* Nor is an argument of error() lost when it is taken for the stack.
LEMMA SplitStackShows ==
  ASSUME NEW l, NEW S, NEW args \in Seq(S), args # <<>>
  PROVE  SplitShows(SplitStack(l, args), "error", args)
<1>1. Len(args) \in Nat \ {0} /\ DOMAIN args = 1..Len(args)
  OBVIOUS
<1> DEFINE split == SplitLabel(l, args)
<1>2. SplitShows(split, "error", args)
  BY SplitLabelShows
<1>3. split = [messages |-> split.messages, label |-> split.label, stack |-> split.stack]
  BY DEF SplitLabel
<1> HIDE DEF split
<1>4. CASE Len(args) = 2 /\ args[2].kind = "stack"
  <2>1. /\ SplitStack(l, args).messages = <<args[1]>>
        /\ SplitStack(l, args).stack = args[2]
    BY <1>4 DEF SplitStack
  <2>2. DOMAIN <<args[1]>> = 1..1 /\ <<args[1]>>[1] = args[1]
    OBVIOUS
  <2>3. args[2] # Absent
    <3>1. Absent.kind = "absent"
      BY DEF Absent
    <3> QED BY <3>1, <1>4
  <2>4. DOMAIN args = {1, 2}
    BY <1>1, <1>4
  <2> QED BY <2>1, <2>2, <2>3, <2>4 DEF SplitShows
<1>5. CASE Len(args) # 2 /\ Len(split.messages) > 1 /\ IsText(args[Len(args)])
  <2>1. SplitStack(l, args) = [split EXCEPT !.stack = args[Len(args)]]
    BY <1>5 DEF SplitStack, split
  <2>2. /\ SplitStack(l, args).messages = split.messages
        /\ SplitStack(l, args).label = split.label
    BY <2>1, <1>3
  <2>3. split.stack = Absent
    BY SplitLabelShows DEF split
  <2>4. SplitStack(l, args).stack = args[Len(args)]
    BY <2>1, <1>3
  <2> QED BY <1>2, <2>2, <2>4, SplitLabelShows DEF SplitShows, split
<1> QED
  BY <1>2, <1>4, <1>5 DEF SplitStack, split

\* Two lists, one after the other.
LEMMA Concatenated ==
  ASSUME NEW S, NEW T, NEW s \in Seq(S), NEW t \in Seq(T)
  PROVE  /\ DOMAIN (s \o t) = 1..(Len(s) + Len(t))
         /\ \A i \in 1..Len(s) : (s \o t)[i] = s[i]
         /\ \A i \in 1..Len(t) : (s \o t)[Len(s) + i] = t[i]
BY s \in Seq(S \cup T), t \in Seq(S \cup T)

\* What is split like this is shown by the lines that are written.
Shown(level, args, written) ==
  /\ \A i \in DOMAIN args : \E j \in DOMAIN written :
       args[i] \in {written[j].message, written[j].label, written[j].stack}
  /\ \A j \in DOMAIN written : written[j].target = Target(level)

\* The lines of a split, with its stack, are those of the level.
LEMMA LinesShow ==
  ASSUME NEW l, NEW level, NEW args, NEW split, SplitShows(split, level, args),
         split.stack = Absent \/ level = "error",
         NEW written, written = MessageLines(l, level, split) \o StackLine(l, split)
  PROVE  Shown(level, args, written)
<1> DEFINE first == MessageLines(l, level, split)
           last == StackLine(l, split)
<1>1. PICK n \in Nat \ {0} : DOMAIN split.messages = 1..n
  BY DEF SplitShows
<1>2. /\ DOMAIN first = 1..n
      /\ \A i \in 1..n : /\ first[i].message = split.messages[i] /\ first[i].label = split.label
                         /\ first[i].target = Target(level)
                         /\ settings[l].json => first[i].stack = split.stack
  BY <1>1 DEF MessageLines
<1>3. \E S : first \in Seq(S) /\ Len(first) = n
  <2>1. first = [i \in 1..n |-> first[i]]
    BY <1>1 DEF MessageLines
  <2> HIDE DEF first
  <2>2. \A T : (\A i \in 1..n : first[i] \in T) => [i \in 1..n |-> first[i]] \in Seq(T)
    OBVIOUS
  <2>3. first \in Seq({first[i] : i \in 1..n})
    BY <2>1, <2>2
  <2> QED BY <2>3, <1>2
<1>4. /\ \E S : last \in Seq(S)
      /\ Len(last) = IF split.stack = Absent \/ settings[l].json THEN 0 ELSE 1
      /\ ~(split.stack = Absent \/ settings[l].json) =>
           last[1].stack = split.stack /\ last[1].target = Target(level)
  <2>1. CASE split.stack = Absent \/ settings[l].json
    <3>1. last = <<>>
      BY <2>1 DEF StackLine
    <3>2. last \in Seq({})
      BY <3>1
    <3> QED BY <3>1, <3>2, <2>1
  <2>2. CASE ~(split.stack = Absent \/ settings[l].json)
    <3>1. Target(level) = "stderr"
      BY <2>2 DEF Target
    <3>2. last = << [message |-> Absent, label |-> Absent, target |-> "stderr",
                     stack |-> split.stack, elapsed |-> FALSE] >>
      BY <2>2 DEF StackLine
    <3>3. /\ DOMAIN last = 1..1 /\ Len(last) = 1
          /\ last[1].stack = split.stack /\ last[1].target = "stderr"
      BY <3>2
    <3>4. last \in Seq({last[1]})
      BY <3>2
    <3> QED BY <2>2, <3>1, <3>3, <3>4
  <2> QED BY <2>1, <2>2
<1> HIDE DEF first, last
<1>5. /\ DOMAIN written = 1..(n + Len(last))
      /\ \A j \in 1..n : written[j] = first[j]
      /\ \A j \in 1..Len(last) : written[n + j] = last[j]
  <2>1. PICK S, T, f, g : f = first /\ g = last /\ f \in Seq(S) /\ g \in Seq(T)
    BY <1>3, <1>4
  <2>2. written = f \o g
    BY <2>1 DEF first, last
  <2>3. /\ DOMAIN (f \o g) = 1..(Len(f) + Len(g))
        /\ \A j \in 1..Len(f) : (f \o g)[j] = f[j]
        /\ \A j \in 1..Len(g) : (f \o g)[Len(f) + j] = g[j]
    BY <2>1, Concatenated
  <2> QED BY <1>3, <2>1, <2>2, <2>3
<1>6. \A j \in DOMAIN written : written[j].target = Target(level)
  <2> SUFFICES ASSUME NEW j \in DOMAIN written PROVE written[j].target = Target(level)
    OBVIOUS
  <2>1. CASE j \in 1..n
    <3>1. first[j].target = Target(level)
      BY <1>2, <2>1
    <3>2. written[j] = first[j]
      BY <1>5, <2>1
    <3> QED BY <3>1, <3>2
  <2>2. CASE j \notin 1..n
    <3>1. Len(last) = 1 /\ j = n + 1
      BY <1>4, <1>5, <2>2
    <3> QED BY <1>4, <1>5, <3>1
  <2> QED BY <2>1, <2>2
<1>7. ASSUME NEW i \in DOMAIN args
      PROVE  \E j \in DOMAIN written :
               args[i] \in {written[j].message, written[j].label, written[j].stack}
  <2>1. \A j \in 1..n : j \in DOMAIN written /\ written[j] = first[j]
    BY <1>4, <1>5
  <2>2. CASE \E j \in DOMAIN split.messages : split.messages[j] = args[i]
    BY <1>1, <1>2, <2>1, <2>2
  <2>3. CASE args[i] = split.label
    <3>1. 1 \in DOMAIN written /\ written[1].label = split.label
      BY <1>2, <2>1, 1 \in 1..n
    <3> QED BY <3>1, <2>3
  <2>4. CASE args[i] = split.stack /\ settings[l].json
    BY <1>2, <2>1, <2>4, 1 \in 1..n
  <2>5. CASE args[i] = split.stack /\ ~settings[l].json /\ split.stack # Absent
    <3>1. Len(last) = 1 /\ n + 1 \in DOMAIN written /\ written[n + 1] = last[1]
      BY <1>4, <1>5, <2>5
    <3> QED BY <1>4, <3>1, <2>5
  <2> QED BY <2>2, <2>3, <2>4, <2>5 DEF SplitShows
<1> QED BY <1>6, <1>7 DEF Shown

\* Everything that is logged is written, on stderr for the two levels of errors, for any
\* loggers with any options and arguments of any kind.
THEOREM EverythingIsShown == LoggerSpec => []EveryArgumentShows
<1>1. LoggerInit => EveryArgumentShows
  BY DEF LoggerInit, EveryArgumentShows
<1>2. ASSUME EveryArgumentShows, NEW l \in Loggers, NEW level \in LogLevels, NEW n \in 1..3,
             NEW args \in [1..n -> Arguments], Log(l, level, args)
      PROVE  EveryArgumentShows'
  <2>1. args \in Seq(Arguments) /\ args # <<>>
    OBVIOUS
  <2>2. PICK split :
          /\ split = IF level = "error" THEN SplitStack(l, args) ELSE SplitLabel(l, args)
          /\ SplitShows(split, level, args) /\ (split.stack = Absent \/ level = "error")
    BY <2>1, SplitLabelShows, SplitStackShows
  <2>3. call'.args = args /\ call'.level = level
    BY <1>2 DEF Log
  <2>4. CASE lines' = MessageLines(l, level, split) \o StackLine(l, split)
    <3>1. PICK written :
            lines' = written /\ written = MessageLines(l, level, split) \o StackLine(l, split)
      BY <2>4
    <3>2. Shown(level, args, written)
      BY Zenon, <2>2, <3>1, LinesShow
    <3> QED BY <2>3, <3>1, <3>2 DEF EveryArgumentShows, Shown, Target
  <2>5. CASE lines' = <<>>
    BY <2>5 DEF EveryArgumentShows
  <2> QED BY <1>2, <2>2, <2>4, <2>5 DEF Log
<1>3. ASSUME EveryArgumentShows, UNCHANGED <<call, lines>>
      PROVE  EveryArgumentShows'
  BY <1>3 DEF EveryArgumentShows, Target
<1>4. EveryArgumentShows /\ [LoggerNext]_loggerVars => EveryArgumentShows'
  BY <1>2, <1>3 DEF LoggerNext, loggerVars, OverrideLevels, OverrideLabel, RestoreLabel
<1> QED BY <1>1, <1>4, PTL DEF LoggerSpec

-----------------------------------------------------------------------------
(* The console.                                                            *)

\* A set of naturals that is not empty has a least element.
LEMMA LeastOf ==
  ASSUME NEW S, S \subseteq Nat, S # {}
  PROVE  \E n \in S : \A m \in S : n <= m
<1>1. PICK n \in S : \A m \in S : ~(<<m, n>> \in OpToRel(<, Nat))
  BY NatLessThanWellFounded, WFMin
<1>2. \A m \in S : m \in Nat /\ n \in Nat /\ (<<m, n>> \in OpToRel(<, Nat) <=> m < n)
  BY DEF OpToRel
<1>3. ASSUME NEW m \in S PROVE n <= m
  <2>1. m \in Nat /\ n \in Nat /\ ~(m < n)
    BY <1>1, <1>2
  <2> QED BY <2>1
<1> QED BY <1>3

\* What is left after n tokens, of which the i-th named the command: its first word is the
\* first one after the name.
RestFrom(rest, tokens, i, n) ==
  \/ (\A m \in DOMAIN rest : ~IsWord(rest[m])) /\ \A k \in (i + 1)..n : ~IsWord(tokens[k])
  \/ \E j \in (i + 1)..n : \E m \in DOMAIN rest :
       TopicAt(tokens, i, j) /\ rest[m] = tokens[j] /\ \A k \in 1..(m - 1) : ~IsWord(rest[k])

\* After n rounds over the tokens: the separator, a flag for help before it and the word that
\* names the command have been seen.
ScannedTo(st, tokens, n) ==
  /\ DOMAIN st = {"command", "named", "rest", "help", "separated"}
  /\ \E S : st.rest \in Seq(S)
  /\ st.separated => \E k \in 1..n : tokens[k] = Separator
  /\ ~st.separated => \A k \in 1..n : tokens[k] # Separator
  /\ \A i \in 1..n : tokens[i] \in HelpTokens /\ (\A k \in 1..i : tokens[k] # Separator) => st.help
  /\ st.named => \E i \in 1..n : /\ NamedAt(tokens, i) /\ st.command = tokens[i].text
                                 /\ RestFrom(st.rest, tokens, i, n)
  /\ ~st.named => st.command = NoName /\ \A i \in 1..n : ~NamedAt(tokens, i)
  /\ ~st.named /\ ~st.separated => /\ \A m \in DOMAIN st.rest : ~IsWord(st.rest[m])
                                   /\ \A k \in 1..n : ~IsWord(tokens[k])

\* A flag or a separator is no word.
LEMMA FlagsAreNoWords == \A token \in GlobalTokens \cup {Separator} : ~IsWord(token)
BY DEF GlobalTokens, HelpTokens, Separator, Long, Short, Token, IsWord

\* What one more token leaves of the rest, whether it is appended or was a flag.
LEMMA RestGrows ==
  ASSUME NEW S, NEW rest \in Seq(S), NEW tokens, NEW n \in Nat \ {0}, NEW i \in 1..(n - 1),
         RestFrom(rest, tokens, i, n - 1)
  PROVE  /\ RestFrom(Append(rest, tokens[n]), tokens, i, n)
         /\ ~IsWord(tokens[n]) => RestFrom(rest, tokens, i, n)
<1> DEFINE token == tokens[n]
           last == Len(rest)
           longer == Append(rest, token)
<1>1. /\ last \in Nat /\ DOMAIN rest = 1..last /\ DOMAIN longer = 1..(last + 1)
      /\ longer[last + 1] = token /\ \A m \in 1..last : longer[m] = rest[m]
  <2>1. rest \in Seq(S \cup {token})
    OBVIOUS
  <2> QED BY <2>1 DEF last, longer
<1> HIDE DEF last, longer
<1>2. CASE (\A m \in DOMAIN rest : ~IsWord(rest[m])) /\ \A k \in (i + 1)..(n - 1) : ~IsWord(tokens[k])
  <2>1. CASE ~IsWord(token)
    <3>1. \A k \in (i + 1)..n : ~IsWord(tokens[k])
      <4>1. \A k \in (i + 1)..n : k \in (i + 1)..(n - 1) \/ k = n
        OBVIOUS
      <4> QED BY <1>1, <1>2, <2>1, <4>1
    <3>2. \A m \in DOMAIN longer : ~IsWord(longer[m])
      <4>1. \A m \in 1..(last + 1) : m \in 1..last \/ m = last + 1
        BY <1>1
      <4> QED BY <1>1, <1>2, <2>1, <4>1
    <3> QED BY <1>1, <1>2, <3>1, <3>2 DEF RestFrom
  <2>2. CASE IsWord(token)
    <3>1. TopicAt(tokens, i, n) /\ n \in (i + 1)..n
      BY <1>1, <1>2, <2>2 DEF TopicAt
    <3>2. \A k \in 1..((last + 1) - 1) : ~IsWord(longer[k])
      BY <1>1, <1>2
    <3>3. last + 1 \in DOMAIN longer
      BY <1>1
    <3>4. longer[last + 1] = tokens[n]
      BY <1>1
    <3>5. \E m \in DOMAIN longer : /\ TopicAt(tokens, i, n) /\ longer[m] = tokens[n]
                                   /\ \A k \in 1..(m - 1) : ~IsWord(longer[k])
      BY <3>1, <3>2, <3>3, <3>4
    <3>6. RestFrom(longer, tokens, i, n)
      BY Zenon, <3>1, <3>5 DEF RestFrom
    <3> QED BY <2>2, <3>6 DEF longer
  <2> QED BY <2>1, <2>2
<1>3. ASSUME NEW j \in (i + 1)..(n - 1), NEW m \in DOMAIN rest, TopicAt(tokens, i, j),
             rest[m] = tokens[j], \A k \in 1..(m - 1) : ~IsWord(rest[k])
      PROVE  RestFrom(longer, tokens, i, n) /\ RestFrom(rest, tokens, i, n)
  <2>1. /\ j \in (i + 1)..n /\ m \in 1..last /\ m \in DOMAIN longer /\ longer[m] = rest[m]
        /\ \A k \in 1..(m - 1) : k \in 1..last
    BY <1>1
  <2>2. \A k \in 1..(m - 1) : ~IsWord(longer[k])
    BY <1>1, <1>3, <2>1
  <2> QED BY <1>3, <2>1, <2>2 DEF RestFrom
<1> QED BY <1>2, <1>3 DEF RestFrom, longer

\* A round of preScanArgv() keeps what the rounds before it have found.
LEMMA ScanNextScans ==
  ASSUME NEW tokens, NEW st, NEW n \in Nat \ {0}, ScannedTo(st, tokens, n - 1)
  PROVE  ScannedTo(ScanNext(st, tokens[n]), tokens, n)
<1>1. PICK token, next : token = tokens[n] /\ next = ScanNext(st, token)
  OBVIOUS
<1> DEFINE appended == /\ next.rest = Append(st.rest, token)
                       /\ next.named = st.named /\ next.command = st.command /\ next.help = st.help
                       /\ \/ next.separated /\ (st.separated \/ token = Separator)
                          \/ /\ next.separated = st.separated /\ ~st.separated
                             /\ token # Separator /\ token \notin GlobalTokens
                             /\ st.named \/ ~IsWord(token)
           skipped == /\ next.rest = st.rest /\ next.separated = st.separated
                      /\ next.named = st.named /\ next.command = st.command
                      /\ ~st.separated /\ token # Separator /\ token \in GlobalTokens
                      /\ st.help \/ token \in HelpTokens => next.help
           named == /\ next.rest = st.rest /\ next.separated = st.separated /\ next.help = st.help
                    /\ ~st.named /\ next.named /\ next.command = token.text /\ IsWord(token)
                    /\ ~st.separated /\ token # Separator /\ token \notin GlobalTokens
<1>2. DOMAIN next = DOMAIN st /\ (appended \/ skipped \/ named)
  <2>1. CASE st.separated \/ token = Separator
    <3>1. next = [st EXCEPT !.separated = TRUE, !.rest = Append(@, token)]
      BY <1>1, <2>1 DEF ScanNext
    <3> QED BY <2>1, <3>1 DEF ScannedTo
  <2>2. CASE ~(st.separated \/ token = Separator) /\ token \in GlobalTokens
    <3>1. next = [st EXCEPT !.help = @ \/ token \in HelpTokens]
      BY <1>1, <2>2 DEF ScanNext
    <3> QED BY <2>2, <3>1 DEF ScannedTo
  <2>3. CASE ~(st.separated \/ token = Separator) /\ token \notin GlobalTokens
    <3>1. \/ /\ ~st.named /\ token.kind = "word"
             /\ next = [st EXCEPT !.named = TRUE, !.command = token.text]
          \/ /\ st.named \/ token.kind # "word"
             /\ next = [st EXCEPT !.rest = Append(@, token)]
      BY <1>1, <2>3 DEF ScanNext
    <3> QED BY <2>3, <3>1 DEF ScannedTo, IsWord
  <2> QED BY <2>1, <2>2, <2>3
<1> HIDE DEF appended, skipped, named
<1>3. PICK S : st.rest \in Seq(S)
  BY DEF ScannedTo
<1>4. \A k : k \in 1..n <=> k \in 1..(n - 1) \/ k = n
  OBVIOUS
<1>5. \E T : next.rest \in Seq(T)
  <2>1. PICK rest : rest = st.rest /\ rest \in Seq(S)
    BY <1>3
  <2>2. rest \in Seq(S \cup {token}) /\ Append(rest, token) \in Seq(S \cup {token})
    BY <2>1
  <2> QED BY <1>2, <2>1, <2>2 DEF appended, skipped, named
<1>6. /\ next.separated => \E k \in 1..n : tokens[k] = Separator
      /\ ~next.separated => \A k \in 1..n : tokens[k] # Separator
  <2>1. /\ st.separated => \E k \in 1..(n - 1) : tokens[k] = Separator
        /\ ~st.separated => \A k \in 1..(n - 1) : tokens[k] # Separator
    BY DEF ScannedTo
  <2> QED BY <1>1, <1>2, <1>4, <2>1 DEF appended, skipped, named
<1>7. ASSUME NEW i \in 1..n, tokens[i] \in HelpTokens, \A k \in 1..i : tokens[k] # Separator
      PROVE  next.help
  <2>1. CASE i \in 1..(n - 1)
    <3>1. st.help
      BY <1>7, <2>1 DEF ScannedTo
    <3> QED BY <1>2, <3>1 DEF appended, skipped, named
  <2>2. CASE i = n
    <3>1. st.separated => \E k \in 1..(n - 1) : tokens[k] = Separator
      BY DEF ScannedTo
    <3>2. ~st.separated /\ token \in GlobalTokens /\ token # Separator /\ token \in HelpTokens
      BY <1>1, <1>4, <1>7, <2>2, <3>1 DEF GlobalTokens
    <3> QED BY <1>2, <3>2 DEF appended, skipped, named
  <2> QED BY <1>4, <2>1, <2>2
<1>8. ASSUME st.named
      PROVE  next.named /\ \E i \in 1..n : /\ NamedAt(tokens, i) /\ next.command = tokens[i].text
                                           /\ RestFrom(next.rest, tokens, i, n)
  <2>1. PICK i \in 1..(n - 1) : /\ NamedAt(tokens, i) /\ st.command = tokens[i].text
                                /\ RestFrom(st.rest, tokens, i, n - 1)
    BY <1>8 DEF ScannedTo
  <2>2. /\ RestFrom(Append(st.rest, token), tokens, i, n)
        /\ ~IsWord(token) => RestFrom(st.rest, tokens, i, n)
    BY <1>1, <1>3, <2>1, RestGrows
  <2>3. i \in 1..n /\ (token \in GlobalTokens => ~IsWord(token))
    BY <1>4, FlagsAreNoWords
  <2> QED BY <1>2, <1>8, <2>1, <2>2, <2>3 DEF appended, skipped, named
<1>9. ASSUME named
      PROVE  \E i \in 1..n : /\ NamedAt(tokens, i) /\ next.command = tokens[i].text
                             /\ RestFrom(next.rest, tokens, i, n)
  <2>1. /\ \A k \in 1..(n - 1) : tokens[k] # Separator /\ ~IsWord(tokens[k])
        /\ \A m \in DOMAIN st.rest : ~IsWord(st.rest[m])
    BY <1>9 DEF named, ScannedTo
  <2>2. NamedAt(tokens, n) /\ n \in 1..n
    BY <1>1, <1>9, <2>1 DEF named, NamedAt
  <2>3. RestFrom(next.rest, tokens, n, n)
    <3>1. \A k \in (n + 1)..n : FALSE
      OBVIOUS
    <3> QED BY <1>9, <2>1, <3>1 DEF named, RestFrom
  <2> QED BY <1>1, <1>9, <2>2, <2>3 DEF named
<1>10. ASSUME ~next.named
       PROVE  /\ next.command = NoName /\ \A i \in 1..n : ~NamedAt(tokens, i)
              /\ ~next.separated => /\ \A m \in DOMAIN next.rest : ~IsWord(next.rest[m])
                                    /\ \A k \in 1..n : ~IsWord(tokens[k])
  <2>1. ~st.named /\ (appended \/ skipped) /\ next.command = st.command
    BY <1>2, <1>10 DEF appended, skipped, named
  <2>2. st.command = NoName /\ \A i \in 1..(n - 1) : ~NamedAt(tokens, i)
    BY <2>1 DEF ScannedTo
  <2>3. ~NamedAt(tokens, n)
    <3>1. CASE IsWord(token)
      <4>1. st.separated
        BY <2>1, <3>1, FlagsAreNoWords DEF appended, skipped
      <4>2. \E k \in 1..(n - 1) : tokens[k] = Separator
        BY <4>1 DEF ScannedTo
      <4> QED BY <4>2 DEF NamedAt
    <3> QED BY <1>1, <3>1 DEF NamedAt
  <2>4. ASSUME ~next.separated
        PROVE  /\ \A m \in DOMAIN next.rest : ~IsWord(next.rest[m])
               /\ \A k \in 1..n : ~IsWord(tokens[k])
    <3>1. ~st.separated /\ ~IsWord(token)
      BY <2>1, <2>4, FlagsAreNoWords DEF appended, skipped
    <3>2. /\ \A m \in DOMAIN st.rest : ~IsWord(st.rest[m])
          /\ \A k \in 1..(n - 1) : ~IsWord(tokens[k])
      BY <2>1, <3>1 DEF ScannedTo
    <3>3. PICK rest : rest = st.rest /\ rest \in Seq(S)
      BY <1>3
    <3>4. \A m \in DOMAIN Append(rest, token) :
            (m \in DOMAIN rest /\ Append(rest, token)[m] = rest[m]) \/ Append(rest, token)[m] = token
      <4>1. rest \in Seq(S \cup {token})
        BY <3>3
      <4> QED BY <4>1
    <3>5. \A m \in DOMAIN Append(rest, token) : ~IsWord(Append(rest, token)[m])
      BY <3>1, <3>2, <3>3, <3>4
    <3> QED BY <1>1, <1>4, <2>1, <3>1, <3>2, <3>3, <3>5 DEF appended, skipped
  <2> QED BY <1>4, <2>1, <2>2, <2>3, <2>4
<1>11. next.named => \E i \in 1..n : /\ NamedAt(tokens, i) /\ next.command = tokens[i].text
                                     /\ RestFrom(next.rest, tokens, i, n)
  <2>1. next.named => st.named \/ named
    BY <1>2 DEF appended, skipped
  <2> QED BY <1>8, <1>9, <2>1
<1>12. ScannedTo(next, tokens, n)
  <2>1. DOMAIN next = {"command", "named", "rest", "help", "separated"}
    BY <1>2 DEF ScannedTo
  <2> QED BY <1>5, <1>6, <1>7, <1>10, <1>11, <2>1 DEF ScannedTo
<1> QED BY <1>1, <1>12

\* What the loop of preScanArgv() starts with, and f as its first m rounds.
Unscanned == [command |-> NoName, named |-> FALSE, rest |-> <<>>, help |-> FALSE, separated |-> FALSE]
ScanRounds(f, tokens, m) ==
  f = [n \in 0..m |-> IF n = 0 THEN Unscanned ELSE ScanNext(f[n - 1], tokens[n])]

\* The rounds are well defined, by the least number of which that would be wrong.
LEMMA RoundsExist ==
  ASSUME NEW tokens, NEW length \in Nat
  PROVE  \E f : ScanRounds(f, tokens, length)
<1> DEFINE undefined == {m \in Nat : ~ \E f : ScanRounds(f, tokens, m)}
<1>1. ASSUME undefined # {} PROVE FALSE
  <2>1. undefined \subseteq Nat
    OBVIOUS
  <2>2. PICK m \in undefined : \A k \in undefined : m <= k
    BY <1>1, <2>1, LeastOf
  <2>3. m \in Nat /\ ~ \E f : ScanRounds(f, tokens, m)
    BY <2>2
  <2>4. CASE m = 0
    <3>1. ScanRounds([n \in 0..0 |-> Unscanned], tokens, 0)
      BY DEF ScanRounds
    <3> QED BY <2>3, <2>4, <3>1
  <2>5. CASE m # 0
    <3>1. m - 1 \in Nat /\ m - 1 \notin undefined
      BY <2>2, <2>3, <2>5
    <3>2. PICK f : ScanRounds(f, tokens, m - 1)
      BY <3>1
    <3> DEFINE g == [n \in 0..m |-> IF n = m THEN ScanNext(f[m - 1], tokens[m]) ELSE f[n]]
    <3>3. \A n \in 0..(m - 1) : f[n] = IF n = 0 THEN Unscanned ELSE ScanNext(f[n - 1], tokens[n])
      BY <3>2 DEF ScanRounds
    <3>4. \A n \in 0..m : g[n] = IF n = 0 THEN Unscanned ELSE ScanNext(g[n - 1], tokens[n])
      <4>1. \A n \in 0..(m - 1) : g[n] = f[n]
        BY <2>3
      <4>2. g[m] = ScanNext(f[m - 1], tokens[m]) /\ m - 1 \in 0..(m - 1)
        BY <2>3, <2>5
      <4> HIDE DEF g
      <4>3. ASSUME NEW n \in 0..m
            PROVE  g[n] = IF n = 0 THEN Unscanned ELSE ScanNext(g[n - 1], tokens[n])
        <5>1. CASE n = m
          BY <2>3, <2>5, <4>1, <4>2, <5>1
        <5>2. CASE n # m
          <6>1. n \in 0..(m - 1) /\ (n # 0 => n - 1 \in 0..(m - 1))
            BY <2>3, <5>2
          <6> QED BY <3>3, <4>1, <6>1
        <5> QED BY <5>1, <5>2
      <4> QED BY <4>3
    <3>5. ScanRounds(g, tokens, m)
      BY <3>4 DEF ScanRounds
    <3> QED BY <2>3, <3>5
  <2> QED BY <2>4, <2>5
<1> QED BY <1>1

\* preScanArgv() ends with what each round keeps.
LEMMA PreScanScans ==
  ASSUME NEW tokens, NEW length \in Nat, Len(tokens) = length, DOMAIN tokens = 1..length
  PROVE  ScannedTo(PreScan(tokens), tokens, length)
<1>1. PICK scan : ScanRounds(scan, tokens, length) /\ PreScan(tokens) = scan[length]
  BY RoundsExist DEF PreScan, ScanRounds, Unscanned
<1>2. /\ scan[0] = Unscanned
      /\ \A n \in 1..length : scan[n] = ScanNext(scan[n - 1], tokens[n])
  BY <1>1 DEF ScanRounds
<1> DEFINE wrong == {n \in 0..length : ~ScannedTo(scan[n], tokens, n)}
<1>3. ASSUME wrong # {} PROVE FALSE
  <2>1. wrong \subseteq Nat
    OBVIOUS
  <2>2. PICK n \in wrong : \A m \in wrong : n <= m
    BY <1>3, <2>1, LeastOf
  <2>3. n \in 0..length /\ ~ScannedTo(scan[n], tokens, n)
    BY <2>2
  <2>4. CASE n = 0
    <3>1. ScannedTo(Unscanned, tokens, 0)
      <4>1. /\ DOMAIN Unscanned = {"command", "named", "rest", "help", "separated"}
            /\ Unscanned.rest = <<>> /\ Unscanned.command = NoName
            /\ ~Unscanned.separated /\ ~Unscanned.named
        BY DEF Unscanned
      <4>2. <<>> \in Seq({}) /\ DOMAIN <<>> = {} /\ \A i : i \notin 1..0
        OBVIOUS
      <4> QED BY <4>1, <4>2 DEF ScannedTo
    <3> QED BY <1>2, <2>3, <2>4, <3>1
  <2>5. CASE n # 0
    <3>1. n - 1 \in 0..length /\ n - 1 \notin wrong /\ n \in Nat \ {0}
      BY <2>2, <2>3, <2>5
    <3>2. ScannedTo(scan[n - 1], tokens, n - 1)
      BY <3>1
    <3> QED BY <1>2, <2>3, <3>1, <3>2, ScanNextScans
  <2> QED BY <2>4, <2>5
<1> QED BY <1>1, <1>3

\* Strengthening HelpIsHarmless to an inductive invariant: nothing is about to be executed.
HelpInv ==
  /\ argv \in Argvs
  /\ AsksForHelp \/ AsksForNothing =>
       /\ executed = NoName /\ phase \in {"scan", "done"}
       /\ phase = "done" => code = IF UnknownNamed THEN "1" ELSE "0"

\* What preScanArgv() makes of the line: whether it asks for help, the command it names, and
\* the first word of what is left.
LEMMA HelpIsSeen ==
  ASSUME argv \in Argvs
  PROVE  \E scan : \E n \in Nat :
           /\ scan = PreScan(argv) /\ DOMAIN argv = 1..n
           /\ AsksForHelp => scan.help
           /\ \E m \in Nat : DOMAIN scan.rest = 1..m
           /\ \/ scan.command = NoName /\ \A i \in 1..n : ~NamedAt(argv, i)
              \/ \E i \in 1..n : /\ NamedAt(argv, i) /\ scan.command = argv[i].text
                                 /\ RestFrom(scan.rest, argv, i, n)
<1>1. PICK S, line : line = argv /\ line \in Seq(S)
  BY LineAssumption
<1>2. PICK n \in Nat : Len(line) = n /\ DOMAIN line = 1..n
  BY <1>1
<1>3. PICK scan : scan = PreScan(argv) /\ ScannedTo(scan, line, n)
  BY <1>1, <1>2, PreScanScans
<1>4. ASSUME AsksForHelp PROVE scan.help
  <2>1. PICK i \in 1..n : line[i] \in HelpTokens /\ ~Contains(SubSeq(line, 1, i), Separator)
    BY <1>1, <1>2, <1>4 DEF AsksForHelp
  <2>2. Len(SubSeq(line, 1, i)) = i /\ \A k \in 1..i : SubSeq(line, 1, i)[k] = line[k]
    BY <1>1, <1>2
  <2>3. \A k \in 1..i : line[k] # Separator
    BY <2>1, <2>2 DEF Contains
  <2> QED BY <1>3, <2>1, <2>3 DEF ScannedTo
<1>5. \E m \in Nat : DOMAIN scan.rest = 1..m
  <2>1. PICK T, rest : rest = scan.rest /\ rest \in Seq(T)
    BY <1>3 DEF ScannedTo
  <2> QED BY <2>1
<1>6. \/ scan.command = NoName /\ \A i \in 1..n : ~NamedAt(line, i)
      \/ \E i \in 1..n : /\ NamedAt(line, i) /\ scan.command = line[i].text
                         /\ RestFrom(scan.rest, line, i, n)
  BY <1>3 DEF ScannedTo
<1> QED BY <1>1, <1>2, <1>3, <1>4, <1>5, <1>6

\* A line names one command, and asks about one topic.
LEMMA NamesOne ==
  ASSUME NEW tokens, NEW n \in Nat, NEW i \in 1..n, NamedAt(tokens, i)
  PROVE  /\ \A k \in 1..n : NamedAt(tokens, k) => k = i
         /\ \A j, k \in 1..n : TopicAt(tokens, i, j) /\ TopicAt(tokens, i, k) => j = k
<1>1. ASSUME NEW k \in 1..n, NamedAt(tokens, k) PROVE k = i
  <2>1. ~(k < i) /\ ~(i < k)
    BY <1>1 DEF NamedAt
  <2> QED BY <2>1
<1>2. ASSUME NEW j \in 1..n, NEW k \in 1..n, TopicAt(tokens, i, j), TopicAt(tokens, i, k) PROVE j = k
  <2>1. ~(j < k) /\ ~(k < j)
    BY <1>2 DEF TopicAt
  <2> QED BY <2>1
<1> QED BY <1>1, <1>2

\* run() keeps it: a line that asks for help, or for no command, goes no further.
LEMMA ScanHelps ==
  ASSUME HelpInv, Scan
  PROVE  HelpInv'
<1>0. \A n \in Nat : 1..n \subseteq Nat
  OBVIOUS
<1> USE DEF HelpInv
<1>1. UNCHANGED argv
  BY DEF Scan
<1>2. SUFFICES ASSUME AsksForHelp \/ AsksForNothing
               PROVE  /\ UNCHANGED executed /\ phase' = "done"
                      /\ code' = IF UnknownNamed THEN "1" ELSE "0"
  BY <1>1 DEF AsksForHelp, AsksForNothing, UnknownNamed
<1> DEFINE seen(scan, n) ==
             /\ scan = PreScan(argv) /\ DOMAIN argv = 1..n
             /\ AsksForHelp => scan.help
             /\ \E m \in Nat : DOMAIN scan.rest = 1..m
             /\ \/ scan.command = NoName /\ \A i \in 1..n : ~NamedAt(argv, i)
                \/ \E i \in 1..n : /\ NamedAt(argv, i) /\ scan.command = argv[i].text
                                   /\ RestFrom(scan.rest, argv, i, n)
<1>9. PICK scan : \E n \in Nat : seen(scan, n)
  BY HelpIsSeen
<1>3. PICK n \in Nat : seen(scan, n)
  BY <1>9
<1>8. NoName # "help" /\ NoName # "list"
  BY Zenon DEF NoName
<1>4. CASE \A i \in 1..n : ~NamedAt(argv, i)
  <2>1. scan.command = NoName /\ ~UnknownNamed
    BY <1>3, <1>4 DEF UnknownNamed
  <2> QED BY Zenon, <1>3, <1>8, <2>1 DEF Scan, Exit
<1>5. ASSUME NEW i \in 1..n, NamedAt(argv, i), scan.command = argv[i].text,
             RestFrom(scan.rest, argv, i, n)
      PROVE  UNCHANGED executed /\ phase' = "done" /\ code' = IF UnknownNamed THEN "1" ELSE "0"
  <2>1. UnknownNamed <=>
          \/ scan.command \notin DOMAIN Commands \cup {NoName, "list", "help"}
          \/ /\ scan.command = "help"
             /\ \E j \in 1..n : TopicAt(argv, i, j) /\ argv[j].text \notin DOMAIN Commands \cup {NoName}
    BY <1>3, <1>5, NamesOne DEF UnknownNamed
  <2>2. CASE scan.command \in {NoName, "list"}
    <3>1. UNCHANGED executed /\ Exit("0", {"stdout"})
      BY Zenon, <1>3, <1>8, <2>2 DEF Scan
    <3>2. ~UnknownNamed
      BY <1>8, <2>1, <2>2
    <3> QED BY <3>1, <3>2 DEF Exit
  <2>3. CASE scan.command = "help"
    <3> DEFINE words == {k \in DOMAIN scan.rest : ~StartsWithDash(scan.rest[k])}
               first == CHOOSE k \in words : \A j \in words : k <= j
    <3>1. UNCHANGED executed /\ IF words # {} /\ scan.rest[first].text \notin DOMAIN Commands \cup {NoName}
                                THEN Exit("1", {"stderr"}) ELSE Exit("0", {"stdout"})
      BY Zenon, <1>3, <1>8, <2>3 DEF Scan
    <3>2. PICK length \in Nat : DOMAIN scan.rest = 1..length
      BY <1>3
    <3>3. \A k : k \in words <=> k \in 1..length /\ IsWord(scan.rest[k])
      BY Zenon, <3>2 DEF StartsWithDash, IsWord
    <3>4. words # {} => first \in words /\ \A j \in words : first <= j
      <4>1. words \subseteq Nat
        BY Zenon, <1>0, <3>3
      <4> HIDE DEF words
      <4> QED BY <4>1, LeastOf
    <3> HIDE DEF words, first
    <3>5. CASE /\ \A m \in DOMAIN scan.rest : ~IsWord(scan.rest[m])
               /\ \A k \in (i + 1)..n : ~IsWord(argv[k])
      <4>1. words = {}
        BY <3>2, <3>3, <3>5
      <4>2. \A j \in 1..n : ~TopicAt(argv, i, j)
        BY <3>5 DEF TopicAt
      <4> QED BY <2>1, <2>3, <3>1, <4>1, <4>2 DEF Exit
    <3>6. ASSUME NEW j \in (i + 1)..n, NEW m \in DOMAIN scan.rest, TopicAt(argv, i, j),
                 scan.rest[m] = argv[j], \A k \in 1..(m - 1) : ~IsWord(scan.rest[k])
          PROVE  phase' = "done" /\ code' = IF UnknownNamed THEN "1" ELSE "0"
      <4>1. m \in words /\ j \in 1..n
        BY <3>2, <3>3, <3>6 DEF TopicAt
      <4>2. first = m
        <5>1. first \in 1..length /\ first <= m /\ m \in 1..length /\ IsWord(scan.rest[first])
          BY <3>2, <3>3, <3>4, <4>1
        <5>2. first \notin 1..(m - 1)
          BY <3>6, <5>1
        <5> QED BY <5>1, <5>2
      <4>3. \A k \in 1..n : TopicAt(argv, i, k) => k = j
        BY <1>5, <3>6, <4>1, NamesOne
      <4>4. UnknownNamed <=> argv[j].text \notin DOMAIN Commands \cup {NoName}
        BY <2>1, <2>3, <3>6, <4>1, <4>3
      <4> QED BY <3>1, <3>6, <4>1, <4>2, <4>4 DEF Exit
    <3> QED BY <1>5, <3>1, <3>5, <3>6 DEF RestFrom
  <2>4. CASE scan.command \notin DOMAIN Commands \cup {NoName, "list", "help"}
    <3>1. UNCHANGED executed /\ Exit("1", {"stderr"})
      BY <1>3, <2>4 DEF Scan
    <3> QED BY <2>1, <2>4, <3>1 DEF Exit
  <2>5. CASE scan.command \in DOMAIN Commands \ {NoName, "list", "help"}
    <3>1. scan.help
      BY <1>2, <1>3, <1>5, <2>5 DEF AsksForNothing
    <3> QED BY <1>3, <2>1, <2>5, <3>1 DEF Scan, HelpAsked, Exit
  <2> QED BY <2>2, <2>3, <2>4, <2>5
<1> QED BY <1>3, <1>4, <1>5

\* Asking for help, or for no command, executes nothing, whatever else is on the line, for any
\* commands with any options; and it fails exactly for a command that does not exist.
THEOREM HelpHarmless == Spec => []HelpIsHarmless
<1>1. Init => HelpInv
  BY DEF Init, HelpInv
<1>2. HelpInv /\ [Next]_vars => HelpInv'
  <2>1. ASSUME HelpInv, Resolve \/ Execute \/ UNCHANGED vars PROVE HelpInv'
    <3>1. UNCHANGED argv
      BY <2>1 DEF Resolve, Execute, vars
    <3>2. phase \in {"scan", "done"} => UNCHANGED <<executed, phase, code>>
      BY <2>1 DEF Resolve, Execute, vars
    <3> QED BY <2>1, <3>1, <3>2 DEF HelpInv, AsksForHelp, AsksForNothing, UnknownNamed
  <2> QED BY <2>1, ScanHelps DEF Next
<1>3. HelpInv => HelpIsHarmless
  BY DEF HelpInv, HelpIsHarmless
<1> QED BY <1>1, <1>2, <1>3, PTL DEF Spec

-----------------------------------------------------------------------------
(* Classes and their ancestors.                                            *)

\* The definition of Ancestors, and that it is one of the sets it is the least of.
LEMMA AncestorsAre ==
  ASSUME NEW c \in Definitions
  PROVE  /\ c \in Ancestors[c] /\ Ancestors[c] \subseteq Definitions /\ WithParents(Ancestors[c])
         /\ \A S \in SUBSET Definitions : c \in S /\ WithParents(S) => Ancestors[c] \subseteq S
<1>1. \A d : d \in Ancestors[c] <=>
               d \in Definitions /\ \A S \in SUBSET Definitions : c \in S /\ WithParents(S) => d \in S
  BY DEF Ancestors
<1>2. ASSUME NEW d \in Ancestors[c], Parent[d] # 0 PROVE Parent[d] \in Ancestors[c]
  <2>1. d \in Definitions /\ Parent[d] \in Definitions
    BY <1>1, <1>2, ProgramAssumption
  <2>2. ASSUME NEW S \in SUBSET Definitions, c \in S, WithParents(S) PROVE Parent[d] \in S
    BY <1>1, <1>2, <2>2 DEF WithParents
  <2> QED BY <1>1, <2>1, <2>2
<1>3. WithParents(Ancestors[c])
  BY <1>2 DEF WithParents
<1>4. Ancestors[c] \subseteq Definitions
  BY <1>1
<1>5. ASSUME NEW S \in SUBSET Definitions, c \in S, WithParents(S) PROVE Ancestors[c] \subseteq S
  BY <1>1, <1>5
<1>6. c \in Ancestors[c]
  BY <1>1
<1> QED BY <1>3, <1>4, <1>5, <1>6

\* A class was defined after its ancestors.
LEMMA AncestorsBefore ==
  ASSUME NEW c \in Definitions
  PROVE  Ancestors[c] \subseteq {d \in Definitions : d <= c}
<1> DEFINE S == {d \in Definitions : d <= c}
<1>1. c \in S
  BY ProgramAssumption
<1>2. WithParents(S)
  <2>1. ASSUME NEW e \in S, Parent[e] # 0 PROVE Parent[e] \in S
    <3>1. /\ e \in Definitions /\ e <= c /\ Parent[e] \in Definitions /\ Parent[e] < e
          /\ Definitions \subseteq Nat
      BY <2>1, ProgramAssumption
    <3>2. c \in Nat /\ e \in Nat /\ Parent[e] \in Nat
      BY <3>1
    <3>3. Parent[e] <= c
      BY <3>1, <3>2
    <3> QED BY <3>1, <3>3
  <2> HIDE DEF S
  <2> QED BY <2>1 DEF WithParents
<1>3. S \in SUBSET Definitions
  OBVIOUS
<1> HIDE DEF S
<1>4. Ancestors[c] \subseteq S
  BY <1>1, <1>2, <1>3, AncestorsAre
<1> QED BY <1>4 DEF S

\* The ancestors of a class are a chain: those of one of them are the earlier ones.
LEMMA AncestorsChain ==
  ASSUME NEW c \in Definitions, NEW d \in Ancestors[c]
  PROVE  Ancestors[d] = {e \in Ancestors[c] : e <= d}
<1>1. d \in Definitions
  BY AncestorsAre
<1>2. Ancestors[d] \subseteq Ancestors[c]
  BY <1>1, AncestorsAre
<1>3. ASSUME NEW x \in Definitions, NEW y \in Ancestors[x], y # x
      PROVE  Parent[x] \in Definitions /\ y \in Ancestors[Parent[x]]
  <2>1. CASE Parent[x] = 0
    <3>1. {x} \in SUBSET Definitions /\ x \in {x} /\ WithParents({x})
      BY <2>1 DEF WithParents
    <3>2. Ancestors[x] \subseteq {x}
      BY <3>1, AncestorsAre
    <3> QED BY <1>3, <3>2
  <2>2. CASE Parent[x] # 0
    <3> DEFINE S == {x} \cup Ancestors[Parent[x]]
    <3>1. Parent[x] \in Definitions
      BY <2>2, ProgramAssumption
    <3>2. /\ Parent[x] \in Ancestors[Parent[x]] /\ Ancestors[Parent[x]] \subseteq Definitions
          /\ WithParents(Ancestors[Parent[x]])
      BY <3>1, AncestorsAre
    <3>3. S \in SUBSET Definitions /\ x \in S /\ WithParents(S)
      BY <3>2 DEF WithParents
    <3>4. Ancestors[x] \subseteq S
      BY <3>3, AncestorsAre
    <3> QED BY <1>3, <3>1, <3>4
  <2> QED BY <2>1, <2>2
<1>4. \A e \in Ancestors[c] : e \in Ancestors[d] \/ d \in Ancestors[e]
  <2> DEFINE S == Ancestors[d] \cup {e \in Definitions : d \in Ancestors[e]}
  <2>1. c \in S /\ S \in SUBSET Definitions
    BY <1>1, AncestorsAre
  <2>2. ASSUME NEW e \in S, Parent[e] # 0 PROVE Parent[e] \in S
    <3>1. CASE e \in Ancestors[d]
      <4>1. WithParents(Ancestors[d])
        BY <1>1, AncestorsAre
      <4> QED BY <2>2, <3>1, <4>1 DEF WithParents
    <3>2. CASE e \in Definitions /\ d \in Ancestors[e] /\ e \notin Ancestors[d]
      <4>1. d # e
        BY <1>1, <3>2, AncestorsAre
      <4> QED BY <1>3, <3>2, <4>1
    <3> QED BY <2>2, <3>1, <3>2
  <2>3. WithParents(S)
    <3> HIDE DEF S
    <3> QED BY <2>2 DEF WithParents
  <2>4. Ancestors[c] \subseteq S
    <3> HIDE DEF S
    <3> QED BY <2>1, <2>3, AncestorsAre
  <2> QED BY <2>4
<1>5. ASSUME NEW e \in Ancestors[c], e <= d PROVE e \in Ancestors[d]
  <2>1. e \in Definitions
    BY AncestorsAre
  <2>2. CASE d \in Ancestors[e]
    <3>1. d <= e
      BY <2>1, <2>2, AncestorsBefore
    <3>2. d \in Nat /\ e \in Nat
      BY <1>1, <2>1, ProgramAssumption
    <3>3. d = e
      BY <1>5, <3>1, <3>2
    <3> QED BY <1>1, <3>3, AncestorsAre
  <2> QED BY <1>4, <2>2
<1>6. \A e \in Ancestors[d] : e <= d
  BY <1>1, AncestorsBefore
<1> QED BY <1>2, <1>5, <1>6

-----------------------------------------------------------------------------
(* What a class reads when a list changes.                                 *)

\* The ancestors with a list.
Holders(o, c, key) == {d \in Ancestors[c] : o[d][key] # <<>>}

\* The holder is the last of them.
LEMMA HolderIs ==
  ASSUME NEW o, NEW c \in Definitions, NEW key
  PROVE  /\ Holders(o, c, key) = {} => Holder(o, c, key) = c
         /\ Holders(o, c, key) # {} => /\ Holder(o, c, key) \in Holders(o, c, key)
                                       /\ \A e \in Holders(o, c, key) : e <= Holder(o, c, key)
         /\ \A h \in Holders(o, c, key) :
              (\A e \in Holders(o, c, key) : e <= h) => Holder(o, c, key) = h
<1> DEFINE H == Holders(o, c, key)
<1>1. Holder(o, c, key) = IF H = {} THEN c ELSE CHOOSE d \in H : \A e \in H : e <= d
  BY DEF Holder, Holders
<1>2. \A d \in H : d \in Nat /\ d <= c
  <2>1. \A d \in H : d \in Ancestors[c]
    BY DEF Holders
  <2> QED BY <2>1, AncestorsBefore, ProgramAssumption
<1>3. c \in Nat
  BY ProgramAssumption
<1> HIDE DEF H
<1>4. ASSUME H # {} PROVE \E d \in H : \A e \in H : e <= d
  <2> DEFINE S == {c - d : d \in H}
  <2>1. S \subseteq Nat /\ S # {}
    BY <1>2, <1>3, <1>4
  <2>2. PICK s \in S : \A t \in S : s <= t
    <3> HIDE DEF S
    <3> QED BY <2>1, LeastOf
  <2>3. PICK d \in H : s = c - d
    BY <2>2
  <2>4. \A e \in H : c - d <= c - e
    BY <2>2, <2>3
  <2> QED BY <1>2, <1>3, <2>4
<1>5. \A h, g \in H : h <= g /\ g <= h => h = g
  BY <1>2
<1> QED BY <1>1, <1>4, <1>5 DEF H

\* It depends on nothing else.
LEMMA SameHolder ==
  ASSUME NEW o, NEW o2, NEW c \in Definitions, NEW d \in Definitions, NEW key,
         Holders(o2, d, key) = Holders(o, c, key), c = d \/ Holders(o, c, key) # {}
  PROVE  Holder(o2, d, key) = Holder(o, c, key)
<1>1. CASE Holders(o, c, key) = {}
  BY <1>1, HolderIs
<1>2. CASE Holders(o, c, key) # {}
  <2>1. /\ Holder(o, c, key) \in Holders(o2, d, key)
        /\ \A e \in Holders(o2, d, key) : e <= Holder(o, c, key)
    BY <1>2, HolderIs
  <2> QED BY <2>1, HolderIs
<1> QED BY <1>1, <1>2

\* Where two metadata objects have the same lists, the same is read.
LEMMA SameRead ==
  ASSUME NEW o, NEW o2, NEW c \in Definitions, NEW key,
         \A d \in Ancestors[c] : o2[d][key] = o[d][key]
  PROVE  Holder(o2, c, key) = Holder(o, c, key) /\ Read(o2, c, key) = Read(o, c, key)
<1>1. Holders(o2, c, key) = Holders(o, c, key)
  BY DEF Holders
<1>2. Holder(o2, c, key) = Holder(o, c, key)
  BY <1>1, SameHolder
<1>3. Holder(o, c, key) \in Ancestors[c]
  <2>1. c \in Ancestors[c]
    BY AncestorsAre
  <2> QED BY <2>1, HolderIs DEF Holders
<1> QED BY <1>2, <1>3 DEF Read

\* A list of the class that is defined, or the one that it finds, is replaced: it and those
\* that extend it read the new one; others that shared the list do, too, and nobody else.
LEMMA ReadChange ==
  ASSUME NEW o, NEW o2, NEW a \in Definitions, NEW key, NEW new,
         NEW h \in {a, Holder(o, a, key)},
         \A d \in Definitions : d > a => o[d][key] = <<>>,
         o2[h][key] = new, new # <<>>,
         \A d \in Definitions \ {h} : o2[d][key] = o[d][key]
  PROVE  \A c \in Definitions :
           IF a \in Ancestors[c]
           THEN Read(o, c, key) = Read(o, a, key) /\ Read(o2, c, key) = new
           ELSE \/ Read(o2, c, key) = Read(o, c, key)
                \/ h # a /\ Read(o, c, key) = Read(o, a, key) /\ Read(o2, c, key) = new
<1> SUFFICES ASSUME NEW c \in Definitions
             PROVE  IF a \in Ancestors[c]
                    THEN Read(o, c, key) = Read(o, a, key) /\ Read(o2, c, key) = new
                    ELSE \/ Read(o2, c, key) = Read(o, c, key)
                         \/ /\ h # a /\ Read(o, c, key) = Read(o, a, key)
                            /\ Read(o2, c, key) = new
  OBVIOUS
<1>1. a \in Ancestors[a] /\ c \in Ancestors[c]
  BY AncestorsAre
<1>2. Ancestors[a] \subseteq Definitions /\ Ancestors[c] \subseteq Definitions
  BY AncestorsAre
<1>3. Definitions \subseteq Nat
  BY ProgramAssumption
<1>4. h # a => h \in Holders(o, a, key) /\ \A e \in Holders(o, a, key) : e <= h
  BY HolderIs
<1>5. h \in Ancestors[a] /\ \A e \in Ancestors[a] : e <= a
  BY <1>1, <1>4, AncestorsBefore DEF Holders
<1>6. CASE a \in Ancestors[c]
  <2>1. Ancestors[a] = {e \in Ancestors[c] : e <= a}
    BY <1>6, AncestorsChain
  <2>2. \A e \in Ancestors[c] : e \in Ancestors[a] \/ o[e][key] = <<>>
    <3> TAKE e \in Ancestors[c]
    <3>1. e \in Definitions /\ e \in Nat /\ a \in Nat
      BY <1>2, <1>3
    <3> QED BY <2>1, <3>1
  <2>3. Holders(o, c, key) = Holders(o, a, key)
    BY <2>1, <2>2 DEF Holders
  <2>4. Read(o, c, key) = Read(o, a, key)
    <3>1. CASE Holders(o, a, key) = {}
      <4>1. Holder(o, c, key) = c /\ Holder(o, a, key) = a
        BY <2>3, <3>1, HolderIs
      <4>2. o[c][key] = <<>> /\ o[a][key] = <<>>
        BY <1>1, <2>3, <3>1 DEF Holders
      <4> QED BY <4>1, <4>2 DEF Read
    <3>2. CASE Holders(o, a, key) # {}
      <4>1. Holder(o, c, key) = Holder(o, a, key)
        BY <2>3, <3>2, SameHolder
      <4> QED BY <4>1 DEF Read
    <3> QED BY <3>1, <3>2
  <2>5. h \in Holders(o2, c, key)
    BY <1>5, <2>1 DEF Holders
  <2>6. ASSUME NEW e \in Holders(o2, c, key) PROVE e <= h
    <3>1. e \in Ancestors[c] /\ o2[e][key] # <<>>
      BY DEF Holders
    <3>2. CASE e = h
      BY <1>2, <1>3, <1>5, <3>2
    <3>3. CASE e # h
      <4>1. o[e][key] # <<>>
        BY <1>2, <3>1, <3>3
      <4>2. e \in Holders(o, a, key) /\ e \in Ancestors[a]
        BY <2>2, <3>1, <4>1 DEF Holders
      <4> QED BY <1>4, <1>5, <4>2
    <3> QED BY <3>2, <3>3
  <2>7. Holder(o2, c, key) = h
    BY <2>5, <2>6, HolderIs
  <2> QED BY <1>6, <2>4, <2>7 DEF Read
<1>7. CASE a \notin Ancestors[c]
  <2>1. CASE h \notin Ancestors[c]
    <3>1. \A d \in Ancestors[c] : o2[d][key] = o[d][key]
      BY <1>2, <2>1
    <3>2. Read(o2, c, key) = Read(o, c, key)
      BY <3>1, SameRead
    <3> QED BY <1>7, <3>2
  <2>2. CASE h \in Ancestors[c]
    <3>1. h # a /\ o[h][key] # <<>> /\ h = Holder(o, a, key)
      BY <1>4, <1>7, <2>2 DEF Holders
    <3>2. \A d \in Ancestors[c] : o2[d][key] # <<>> <=> o[d][key] # <<>>
      BY <1>2, <3>1
    <3>3. Holders(o2, c, key) = Holders(o, c, key) /\ h \in Holders(o, c, key)
      BY <2>2, <3>1, <3>2 DEF Holders
    <3>4. Holder(o2, c, key) = Holder(o, c, key)
      BY <3>3, SameHolder
    <3>5. Holder(o, c, key) \in Definitions
      BY <1>2, <3>3, HolderIs DEF Holders
    <3>6. CASE Holder(o, c, key) = h
      BY <1>7, <3>1, <3>4, <3>6 DEF Read
    <3>7. CASE Holder(o, c, key) # h
      BY <1>7, <3>4, <3>5, <3>7 DEF Read
    <3> QED BY <3>6, <3>7
  <2> QED BY <2>1, <2>2
<1> QED BY <1>6, <1>7

-----------------------------------------------------------------------------
(* The decorators.  Each kind of mark has a place: a key of the metadata.  *)

EntryKeys == {"dependencies", "queued", "crons", "bindings"}
ReadKeys == EntryKeys \cup {"requestMapping", "patterns", "guards", "options", "tags"}

Goes(kind, key) ==
  \/ kind = "inject" /\ key = "dependencies"
  \/ kind = "queued" /\ key = "queued"
  \/ kind = "cron" /\ key = "crons"
  \/ kind = "binding" /\ key = "bindings"
  \/ kind \in {"route", "guard"} /\ key = "requestMapping"
  \/ kind \in {"message", "event"} /\ key = "patterns"
  \/ kind = "guards" /\ key = "guards"
  \/ kind \in {"option", "command"} /\ key = "options"
  \/ kind \in Tagging /\ key = "tags"

\* The type of a list of a key after n marks; a member has one entry of its own in the two
\* lists that are changed in place.
Fits(key, list, n) ==
  /\ key \in EntryKeys => list \in Seq([member : Members, id : 1..n])
  /\ key = "requestMapping" =>
       list \in Seq([member : Members, route : 0..n, guards : SUBSET (1..n)])
  /\ key = "patterns" =>
       list \in Seq([member : Members, type : {"message", "event"}, pattern : 0..n])
  /\ key \in {"requestMapping", "patterns"} =>
       \A i, j \in DOMAIN list : list[i].member = list[j].member => i = j
  /\ key \in {"guards", "options"} => list \in Seq(1..n)
  /\ key = "tags" => list \in Seq(Tagging)

\* A list of a key has what the i-th mark put there, once where ReadBy says so.
Finds(key, list, mark, i) ==
  /\ key \in EntryKeys =>
       \E j \in DOMAIN list : /\ list[j] = [member |-> mark.member, id |-> i]
                              /\ \A k \in DOMAIN list :
                                   list[k] = [member |-> mark.member, id |-> i] => k = j
  /\ key = "requestMapping" =>
       \E j \in DOMAIN list :
         /\ list[j].member = mark.member
         /\ IF mark.kind = "guard" THEN i \in list[j].guards ELSE list[j].route >= i
  /\ key = "patterns" =>
       \E j \in DOMAIN list : list[j].member = mark.member /\ list[j].pattern >= i
  /\ key = "guards" => \E j \in DOMAIN list : list[j] = i
  /\ key = "options" =>
       \E j \in DOMAIN list : list[j] = i /\ \A k \in DOMAIN list : list[k] = i => k = j
  /\ key = "tags" => \E j \in DOMAIN list : list[j] = mark.kind

\* The list with an entry in the place of the one of its member, or after the others.
WithEntry(list, entry) ==
  IF \E i \in DOMAIN list : list[i].member = entry.member
  THEN [list EXCEPT ![CHOOSE i \in DOMAIN list : list[i].member = entry.member] = entry]
  ELSE Append(list, entry)

WithTag(list, tag) == IF Contains(list, tag) THEN list ELSE Append(list, tag)

\* What the id-th mark makes of a list of its key.
Grows(key, old, new, mark, id) ==
  /\ key \in EntryKeys => /\ mark.member \in Members
                          /\ new = Append(old, [member |-> mark.member, id |-> id])
  /\ key = "requestMapping" =>
       /\ mark.member \in Members
       /\ \E e \in [member : {mark.member}, route : 0..id, guards : SUBSET (1..id)] :
            /\ new = WithEntry(old, e)
            /\ \A j \in DOMAIN old : old[j].member = mark.member =>
                 e.route >= old[j].route /\ old[j].guards \subseteq e.guards
            /\ IF mark.kind = "guard" THEN id \in e.guards ELSE e.route = id
  /\ key = "patterns" =>
       /\ mark.member \in Members
       /\ \E e \in [member : {mark.member}, type : {"message", "event"}, pattern : {id}] :
            new = WithEntry(old, e)
  /\ key = "guards" => new = Append(old, id)
  /\ key = "options" => new = <<id>> \o old
  /\ key = "tags" => mark.kind \in Tagging /\ new = WithTag(old, mark.kind)

\* A list that keeps its type, loses nothing it has, and has the mark.
GrowsWell(key, old, new, mark, id) ==
  /\ new # <<>> /\ Fits(key, new, id) /\ Finds(key, new, mark, id)
  /\ \A other : \A i \in 1..(id - 1) : Finds(key, old, other, i) => Finds(key, new, other, i)

\* A list that fits goes on fitting as marks are made.
LEMMA FitsLater ==
  ASSUME NEW key, NEW list, NEW n \in Nat, Fits(key, list, n)
  PROVE  Fits(key, list, n + 1)
<1>1. 1..n \subseteq 1..(n + 1) /\ 0..n \subseteq 0..(n + 1)
  OBVIOUS
<1>2. /\ [member : Members, id : 1..n] \subseteq [member : Members, id : 1..(n + 1)]
      /\ [member : Members, route : 0..n, guards : SUBSET (1..n)]
           \subseteq [member : Members, route : 0..(n + 1), guards : SUBSET (1..(n + 1))]
      /\ [member : Members, type : {"message", "event"}, pattern : 0..n]
           \subseteq [member : Members, type : {"message", "event"}, pattern : 0..(n + 1)]
  BY <1>1
<1>3. ASSUME NEW S, NEW T, S \subseteq T PROVE Seq(S) \subseteq Seq(T)
  BY <1>3
<1>4. /\ Seq(1..n) \subseteq Seq(1..(n + 1))
      /\ Seq([member : Members, id : 1..n]) \subseteq Seq([member : Members, id : 1..(n + 1)])
      /\ Seq([member : Members, route : 0..n, guards : SUBSET (1..n)])
           \subseteq Seq([member : Members, route : 0..(n + 1), guards : SUBSET (1..(n + 1))])
      /\ Seq([member : Members, type : {"message", "event"}, pattern : 0..n])
           \subseteq Seq([member : Members, type : {"message", "event"}, pattern : 0..(n + 1)])
  BY <1>1, <1>2, <1>3
<1> QED BY <1>4 DEF Fits

\* What a sequence has is of its type.
LEMMA EntryOf ==
  ASSUME NEW S, NEW list \in Seq(S)
  PROVE  \A j \in DOMAIN list : list[j] \in S
OBVIOUS

\* An entry that is pushed.
LEMMA EntriesGrow ==
  ASSUME NEW key \in EntryKeys, NEW old, NEW new, NEW mark, NEW n \in Nat, Fits(key, old, n),
         Grows(key, old, new, mark, n + 1)
  PROVE  GrowsWell(key, old, new, mark, n + 1)
<1> DEFINE entry == [member |-> mark.member, id |-> n + 1]
<1>1. old \in Seq([member : Members, id : 1..n]) /\ new = Append(old, entry)
      /\ mark.member \in Members
  BY DEF Fits, Grows
<1>2. Fits(key, old, n + 1)
  BY FitsLater
<1>3. old \in Seq([member : Members, id : 1..(n + 1)])
  BY <1>2 DEF Fits
<1>4. entry \in [member : Members, id : 1..(n + 1)]
  BY <1>1
<1>5. \A j \in DOMAIN old : old[j].id \in 1..n
  <2>1. PICK S : S = [member : Members, id : 1..n] /\ old \in Seq(S)
    BY <1>1
  <2>2. \A j \in DOMAIN old : old[j] \in S
    BY <2>1, EntryOf
  <2> QED BY <2>1, <2>2
<1>6. /\ DOMAIN old = 1..Len(old) /\ Len(old) \in Nat /\ DOMAIN new = 1..(Len(old) + 1)
      /\ new[Len(old) + 1] = entry
      /\ \A j \in DOMAIN old : new[j] = old[j]
  BY <1>1, <1>4
<1>7. new \in Seq([member : Members, id : 1..(n + 1)]) /\ new # <<>>
  BY <1>1, <1>3, <1>4
<1>8. entry.id = n + 1
  OBVIOUS
<1> HIDE DEF entry
<1>9. key \notin {"requestMapping", "patterns", "guards", "options", "tags"}
  BY DEF EntryKeys
<1>10. Fits(key, new, n + 1)
  BY <1>7, <1>9 DEF Fits
<1>11. \A j \in DOMAIN old : new[j] # entry
  BY <1>5, <1>6, <1>8
<1>12. Finds(key, new, mark, n + 1)
  <2>1. Len(old) + 1 \in DOMAIN new /\ \A k \in DOMAIN new : k \in DOMAIN old \/ k = Len(old) + 1
    BY <1>6
  <2>2. \E j \in DOMAIN new : new[j] = entry /\ \A k \in DOMAIN new : new[k] = entry => k = j
    BY <2>1, <1>6, <1>11
  <2> QED BY <2>2, <1>9 DEF Finds, entry
<1>13. ASSUME NEW other, NEW i \in 1..((n + 1) - 1), Finds(key, old, other, i)
       PROVE  Finds(key, new, other, i)
  <2>1. PICK e : e = [member |-> other.member, id |-> i]
    OBVIOUS
  <2>2. PICK j \in DOMAIN old : old[j] = e /\ \A k \in DOMAIN old : old[k] = e => k = j
    BY <1>13, <2>1 DEF Finds
  <2>3. i # n + 1 /\ e.id = i
    BY <2>1
  <2>4. entry # e
    BY <1>8, <2>3
  <2>5. j \in DOMAIN new /\ new[j] = e /\ \A k \in DOMAIN new : new[k] = e => k = j
    BY <1>6, <2>2, <2>4
  <2> QED BY <2>1, <2>5, <1>9 DEF Finds
<1> QED BY <1>7, <1>10, <1>12, <1>13 DEF GrowsWell

\* A guard of a class, or an option of a command.
LEMMA IdsGrow ==
  ASSUME NEW key \in {"guards", "options"}, NEW old, NEW new, NEW mark, NEW n \in Nat,
         Fits(key, old, n), Grows(key, old, new, mark, n + 1)
  PROVE  GrowsWell(key, old, new, mark, n + 1)
<1>1. old \in Seq(1..n)
  BY DEF Fits
<1>2. Fits(key, old, n + 1)
  BY FitsLater
<1>3. old \in Seq(1..(n + 1)) /\ n + 1 \in 1..(n + 1)
  BY <1>2 DEF Fits
<1>4. /\ DOMAIN old = 1..Len(old) /\ Len(old) \in Nat
      /\ \A j \in DOMAIN old : old[j] \in 1..n
  BY <1>1
<1>5. key \notin EntryKeys \cup {"requestMapping", "patterns", "tags"}
  BY DEF EntryKeys
<1>6. CASE key = "guards"
  <2>1. new = Append(old, n + 1)
    BY <1>6 DEF Grows
  <2>2. /\ new \in Seq(1..(n + 1)) /\ new # <<>> /\ DOMAIN new = 1..(Len(old) + 1)
        /\ new[Len(old) + 1] = n + 1 /\ \A j \in DOMAIN old : new[j] = old[j]
    BY <1>1, <1>3, <2>1
  <2>3. Len(old) + 1 \in DOMAIN new /\ DOMAIN old \subseteq DOMAIN new
    BY <1>4, <2>2
  <2>4. Fits(key, new, n + 1)
    BY <1>5, <1>6, <2>2 DEF Fits
  <2>5. Finds(key, new, mark, n + 1)
    BY <1>5, <1>6, <2>2, <2>3 DEF Finds
  <2>6. \A other : \A i \in 1..((n + 1) - 1) :
          Finds(key, old, other, i) => Finds(key, new, other, i)
    BY <1>5, <1>6, <2>2, <2>3 DEF Finds
  <2> QED BY <2>2, <2>4, <2>5, <2>6 DEF GrowsWell
<1>7. CASE key = "options"
  <2>1. new = <<n + 1>> \o old
    BY <1>7 DEF Grows
  <2>2. <<n + 1>> \in Seq(1..(n + 1)) /\ Len(<<n + 1>>) = 1 /\ <<n + 1>>[1] = n + 1
    BY <1>3
  <2>3. PICK one : one = <<n + 1>> /\ one \in Seq(1..(n + 1)) /\ Len(one) = 1 /\ one[1] = n + 1
    BY <2>2
  <2>4. new = one \o old
    BY <2>1, <2>3
  <2>5. new \in Seq(1..(n + 1)) /\ Len(new) = Len(old) + 1
    BY <1>3, <2>3, <2>4
  <2>6. new[1] = n + 1 /\ \A j \in DOMAIN old : new[j + 1] = old[j]
    BY <1>3, <1>4, <2>3, <2>4
  <2>7. DOMAIN new = 1..(Len(old) + 1)
    BY <2>5
  <2>8. \A k \in DOMAIN new : k # 1 => k - 1 \in DOMAIN old /\ new[k] = old[k - 1]
    <3> SUFFICES ASSUME NEW k \in DOMAIN new, k # 1
                 PROVE  k - 1 \in DOMAIN old /\ new[k] = old[k - 1]
      OBVIOUS
    <3>1. k - 1 \in DOMAIN old /\ (k - 1) + 1 = k
      BY <1>4, <2>7
    <3> QED BY <2>6, <3>1
  <2>9. 1 \in DOMAIN new /\ new # <<>>
    BY <1>4, <2>7
  <2>10. Fits(key, new, n + 1)
    BY <1>5, <1>7, <2>5 DEF Fits
  <2>11. \A k \in DOMAIN new : new[k] = n + 1 => k = 1
    BY <1>4, <2>8
  <2>12. Finds(key, new, mark, n + 1)
    BY <1>5, <1>7, <2>6, <2>9, <2>11 DEF Finds
  <2>13. ASSUME NEW other, NEW i \in 1..((n + 1) - 1), Finds(key, old, other, i)
         PROVE  Finds(key, new, other, i)
    <3>1. PICK j \in DOMAIN old : old[j] = i /\ \A k \in DOMAIN old : old[k] = i => k = j
      BY <1>7, <2>13 DEF Finds
    <3>2. j + 1 \in DOMAIN new /\ new[j + 1] = i
      BY <1>4, <2>6, <2>7, <3>1
    <3>3. ASSUME NEW k \in DOMAIN new, new[k] = i PROVE k = j + 1
      <4>1. k # 1
        BY <2>6, <3>3
      <4>2. k - 1 = j
        BY <2>8, <3>1, <3>3, <4>1
      <4> QED BY <1>4, <2>7, <4>2
    <3> QED BY <1>5, <1>7, <3>2, <3>3 DEF Finds
  <2> QED BY <2>9, <2>10, <2>12, <2>13 DEF GrowsWell
<1> QED BY <1>6, <1>7

\* A tag, added or there already.
LEMMA TagsGrow ==
  ASSUME NEW old, NEW new, NEW mark, NEW n \in Nat, Fits("tags", old, n),
         Grows("tags", old, new, mark, n + 1)
  PROVE  /\ GrowsWell("tags", old, new, mark, n + 1)
         /\ Range(new) \subseteq Range(old) \cup {mark.kind}
<1>1. PICK tag : tag = mark.kind
  OBVIOUS
<1>2. old \in Seq(Tagging) /\ tag \in Tagging /\ new = WithTag(old, tag)
  BY <1>1 DEF Fits, Grows, EntryKeys
<1>3. DOMAIN old = 1..Len(old) /\ Len(old) \in Nat
  BY <1>2
<1>4. CASE Contains(old, tag)
  <2>1. new = old
    BY <1>2, <1>4 DEF WithTag
  <2>2. PICK j \in DOMAIN old : old[j] = tag
    BY <1>3, <1>4 DEF Contains
  <2>3. old # <<>>
    BY <2>2
  <2>4. Finds("tags", new, mark, n + 1)
    BY <1>1, <2>1, <2>2 DEF Finds, EntryKeys
  <2> QED BY <2>1, <2>3, <2>4, FitsLater DEF GrowsWell
<1>5. CASE ~Contains(old, tag)
  <2>1. new = Append(old, tag)
    BY <1>2, <1>5 DEF WithTag
  <2>2. /\ new \in Seq(Tagging) /\ new # <<>> /\ DOMAIN new = 1..(Len(old) + 1)
        /\ new[Len(old) + 1] = tag /\ \A j \in DOMAIN old : new[j] = old[j]
    BY <1>2, <2>1
  <2>3. Len(old) + 1 \in DOMAIN new /\ DOMAIN old \subseteq DOMAIN new
    BY <1>3, <2>2
  <2>4. \A k \in DOMAIN new : k \in DOMAIN old \/ k = Len(old) + 1
    BY <1>3, <2>2
  <2>5. Fits("tags", new, n + 1)
    BY <2>2 DEF Fits, EntryKeys
  <2>6. Finds("tags", new, mark, n + 1)
    BY <1>1, <2>2, <2>3 DEF Finds, EntryKeys
  <2>7. ASSUME NEW other, NEW i, Finds("tags", old, other, i) PROVE Finds("tags", new, other, i)
    <3>1. PICK j \in DOMAIN old : old[j] = other.kind
      BY <2>7 DEF Finds
    <3>2. j \in DOMAIN new /\ new[j] = other.kind
      BY <2>2, <2>3, <3>1
    <3> QED BY <3>2 DEF Finds, EntryKeys
  <2>8. Range(new) \subseteq Range(old) \cup {mark.kind}
    BY <1>1, <2>2, <2>4 DEF Range
  <2> QED BY <2>2, <2>5, <2>6, <2>7, <2>8 DEF GrowsWell
<1> QED BY <1>4, <1>5

\* Members have one entry each.
OneEach(list) == \A i, j \in DOMAIN list : list[i].member = list[j].member => i = j

\* An entry is put in a list at a place j, where there was none or that of its member.
PutAt(list, new, entry, j) ==
  /\ j \in DOMAIN new /\ new[j] = entry
  /\ DOMAIN list \subseteq DOMAIN new /\ DOMAIN new \subseteq DOMAIN list \cup {j}
  /\ \A k \in DOMAIN list : k # j => new[k] = list[k]
  /\ j \in DOMAIN list => list[j].member = entry.member
  /\ \A k \in DOMAIN list : list[k].member = entry.member => k = j

\* An entry replaces the one of its member, or comes last.
LEMMA WithEntryPuts ==
  ASSUME NEW S, NEW list \in Seq(S), NEW entry \in S, OneEach(list)
  PROVE  /\ WithEntry(list, entry) \in Seq(S) /\ WithEntry(list, entry) # <<>>
         /\ OneEach(WithEntry(list, entry))
         /\ \E j : PutAt(list, WithEntry(list, entry), entry, j)
<1>1. DOMAIN list = 1..Len(list) /\ Len(list) \in Nat
  OBVIOUS
<1>2. PICK new : new = WithEntry(list, entry)
  OBVIOUS
<1>3. CASE \E i \in DOMAIN list : list[i].member = entry.member
  <2>1. PICK j \in DOMAIN list : /\ list[j].member = entry.member
                                 /\ j = CHOOSE i \in DOMAIN list : list[i].member = entry.member
    BY <1>3
  <2>2. new = [list EXCEPT ![j] = entry]
    BY <1>2, <1>3, <2>1 DEF WithEntry
  <2>3. /\ DOMAIN new = DOMAIN list /\ new[j] = entry /\ new \in Seq(S)
        /\ \A k \in DOMAIN list : k # j => new[k] = list[k]
    BY <2>1, <2>2
  <2>4. \A k \in DOMAIN list : list[k].member = entry.member => k = j
    BY <2>1 DEF OneEach
  <2>5. PutAt(list, new, entry, j)
    BY <2>1, <2>3, <2>4 DEF PutAt
  <2>6. \A k \in DOMAIN list : new[k].member = list[k].member
    BY <2>1, <2>3
  <2>7. OneEach(new)
    BY <2>3, <2>6 DEF OneEach
  <2>8. new # <<>>
    BY <2>1, <2>3
  <2> QED BY <1>2, <2>3, <2>5, <2>7, <2>8
<1>4. CASE ~\E i \in DOMAIN list : list[i].member = entry.member
  <2>1. new = Append(list, entry)
    BY <1>2, <1>4 DEF WithEntry
  <2>2. PICK j : j = Len(list) + 1
    OBVIOUS
  <2>3. /\ new \in Seq(S) /\ new # <<>> /\ DOMAIN new = 1..j /\ new[j] = entry
        /\ \A k \in DOMAIN list : new[k] = list[k]
    BY <1>1, <2>1, <2>2
  <2>4. j \in DOMAIN new /\ DOMAIN list \subseteq DOMAIN new
        /\ DOMAIN new \subseteq DOMAIN list \cup {j} /\ j \notin DOMAIN list
    BY <1>1, <2>2, <2>3
  <2>5. PutAt(list, new, entry, j)
    BY <1>4, <2>3, <2>4 DEF PutAt
  <2>6. OneEach(new)
    BY <1>4, <2>3, <2>4 DEF OneEach
  <2> QED BY <1>2, <2>3, <2>5, <2>6
<1> QED BY <1>3, <1>4

\* A route or a guard of a method, and a pattern.
LEMMA RoutesGrow ==
  ASSUME NEW old, NEW new, NEW mark, NEW n \in Nat, Fits("requestMapping", old, n),
         Grows("requestMapping", old, new, mark, n + 1)
  PROVE  GrowsWell("requestMapping", old, new, mark, n + 1)
<1>1. PICK S : S = [member : Members, route : 0..(n + 1), guards : SUBSET (1..(n + 1))]
  OBVIOUS
<1>2. Fits("requestMapping", old, n + 1)
  BY FitsLater
<1>3. old \in Seq(S) /\ OneEach(old)
  BY <1>1, <1>2 DEF Fits, OneEach
<1>4. PICK e \in [member : {mark.member}, route : 0..(n + 1), guards : SUBSET (1..(n + 1))] :
        /\ new = WithEntry(old, e)
        /\ \A j \in DOMAIN old : old[j].member = mark.member =>
             e.route >= old[j].route /\ old[j].guards \subseteq e.guards
        /\ IF mark.kind = "guard" THEN n + 1 \in e.guards ELSE e.route = n + 1
  BY DEF Grows
<1>5. mark.member \in Members /\ e.member = mark.member /\ e \in S
  <2>1. mark.member \in Members
    BY DEF Grows
  <2> QED BY <1>1, <1>4, <2>1
<1>6. new \in Seq(S) /\ new # <<>> /\ OneEach(new) /\ \E j : PutAt(old, new, e, j)
  BY <1>3, <1>4, <1>5, WithEntryPuts
<1>7. PICK j : PutAt(old, new, e, j)
  BY <1>6
<1>8. Fits("requestMapping", new, n + 1)
  BY <1>1, <1>6 DEF Fits, OneEach, EntryKeys
<1>9. e.route \in Nat
  BY <1>4
<1>10. IF mark.kind = "guard" THEN n + 1 \in e.guards ELSE e.route >= n + 1
  BY <1>4, <1>9
<1>11. Finds("requestMapping", new, mark, n + 1)
  BY <1>5, <1>7, <1>10 DEF Finds, PutAt, EntryKeys
<1>12. \A k \in DOMAIN old : old[k].route \in Nat
  <2>1. \A k \in DOMAIN old : old[k] \in S
    BY <1>3, EntryOf
  <2> QED BY <1>1, <2>1
<1>13. ASSUME NEW other, NEW i \in 1..((n + 1) - 1), Finds("requestMapping", old, other, i)
       PROVE  Finds("requestMapping", new, other, i)
  <2>1. PICK k \in DOMAIN old :
          /\ old[k].member = other.member
          /\ IF other.kind = "guard" THEN i \in old[k].guards ELSE old[k].route >= i
    BY <1>13 DEF Finds
  <2>2. CASE k = j
    <3>1. old[k].member = mark.member
      BY <1>5, <1>7, <2>2 DEF PutAt
    <3>2. e.route >= old[k].route /\ old[k].guards \subseteq e.guards
      BY <1>4, <3>1
    <3>3. IF other.kind = "guard" THEN i \in e.guards ELSE e.route >= i
      BY <1>9, <1>12, <2>1, <3>2
    <3>4. j \in DOMAIN new /\ new[j] = e /\ e.member = other.member
      BY <1>5, <1>7, <2>1, <3>1 DEF PutAt
    <3> QED BY <3>3, <3>4 DEF Finds, EntryKeys
  <2>3. CASE k # j
    <3>1. k \in DOMAIN new /\ new[k] = old[k]
      BY <1>7, <2>3 DEF PutAt
    <3> QED BY <2>1, <3>1 DEF Finds, EntryKeys
  <2> QED BY <2>2, <2>3
<1> QED BY <1>6, <1>8, <1>11, <1>13 DEF GrowsWell

\* A pattern of a method, or a second one, goes into the one entry of its member.
LEMMA PatternsGrow ==
  ASSUME NEW old, NEW new, NEW mark, NEW n \in Nat, Fits("patterns", old, n),
         Grows("patterns", old, new, mark, n + 1)
  PROVE  GrowsWell("patterns", old, new, mark, n + 1)
<1>1. PICK S : S = [member : Members, type : {"message", "event"}, pattern : 0..(n + 1)]
  OBVIOUS
<1>2. Fits("patterns", old, n + 1)
  BY FitsLater
<1>3. old \in Seq(S) /\ OneEach(old)
  BY <1>1, <1>2 DEF Fits, OneEach
<1>4. PICK e \in [member : {mark.member}, type : {"message", "event"}, pattern : {n + 1}] :
        new = WithEntry(old, e)
  BY DEF Grows
<1>5. mark.member \in Members /\ e.member = mark.member /\ e \in S /\ e.pattern = n + 1
  <2>1. mark.member \in Members
    BY DEF Grows
  <2> QED BY <1>1, <1>4, <2>1
<1>6. new \in Seq(S) /\ new # <<>> /\ OneEach(new) /\ \E j : PutAt(old, new, e, j)
  BY <1>3, <1>4, <1>5, WithEntryPuts
<1>7. PICK j : PutAt(old, new, e, j)
  BY <1>6
<1>8. Fits("patterns", new, n + 1)
  BY <1>1, <1>6 DEF Fits, OneEach, EntryKeys
<1>9. e.pattern >= n + 1 /\ \A i \in 1..((n + 1) - 1) : e.pattern >= i
  BY <1>5
<1>10. Finds("patterns", new, mark, n + 1)
  BY <1>5, <1>7, <1>9 DEF Finds, PutAt, EntryKeys
<1>11. ASSUME NEW other, NEW i \in 1..((n + 1) - 1), Finds("patterns", old, other, i)
       PROVE  Finds("patterns", new, other, i)
  <2>1. PICK k \in DOMAIN old : old[k].member = other.member /\ old[k].pattern >= i
    BY <1>11 DEF Finds
  <2>2. CASE k = j
    <3>1. j \in DOMAIN new /\ new[j] = e /\ e.member = other.member
      BY <1>7, <2>1, <2>2 DEF PutAt
    <3> QED BY <1>9, <3>1 DEF Finds, EntryKeys
  <2>3. CASE k # j
    <3>1. k \in DOMAIN new /\ new[k] = old[k]
      BY <1>7, <2>3 DEF PutAt
    <3> QED BY <2>1, <3>1 DEF Finds, EntryKeys
  <2> QED BY <2>2, <2>3
<1> QED BY <1>6, <1>8, <1>10, <1>11 DEF GrowsWell

\* Whatever the key.
LEMMA ListGrows ==
  ASSUME NEW key \in ReadKeys, NEW old, NEW new, NEW mark, NEW n \in Nat, Fits(key, old, n),
         Grows(key, old, new, mark, n + 1)
  PROVE  GrowsWell(key, old, new, mark, n + 1)
<1>1. \/ key \in EntryKeys \/ key \in {"guards", "options"} \/ key = "tags"
      \/ key = "requestMapping" \/ key = "patterns"
  BY DEF ReadKeys
<1> QED BY <1>1, EntriesGrow, IdsGrow, TagsGrow, RoutesGrow, PatternsGrow

-----------------------------------------------------------------------------
(* What one mark does to the metadata.                                     *)

\* A key keeps its lists: they have their type, classes that are not defined yet have none,
\* and a class reads there what marked it or an ancestor.
KeyInv(key) ==
  /\ \A d \in Definitions : /\ Fits(key, own[d][key], Len(marks))
                            /\ d > current => own[d][key] = <<>>
  /\ \A c \in Definitions, i \in DOMAIN marks :
       marks[i].class \in Ancestors[c] /\ Goes(marks[i].kind, key) =>
         Finds(key, Read(own, c, key), marks[i], i)

\* A tag that is read is that of a mark.
TagsSound ==
  \A c \in Definitions : \A tag \in Range(Read(own, c, "tags")) : \E i \in DOMAIN marks :
    marks[i].class \in Ancestors[c] /\ marks[i].kind = tag

AllKeys(o) == DOMAIN o = Definitions /\ \A d \in Definitions : DOMAIN o[d] = Keys

\* Strengthening MarksAreRead to an inductive invariant, for all classes at once.
DecoratorsInv ==
  /\ current \in Definitions
  /\ \E S : marks \in Seq(S)
  /\ AllKeys(own)
  /\ \A key \in ReadKeys : KeyInv(key)
  /\ TagsSound

\* One list of a key is replaced, of class h.
Replaced(o, o2, h, key, new) ==
  /\ h \in Definitions /\ o2[h][key] = new
  /\ \A d \in Definitions \ {h} : o2[d][key] = o[d][key]

\* What a mark does to a key: the list that the class finds grows, where it is (tags and the
\* options of ConsoleCommand: in a list of the class's own); a key that is not the mark's is
\* left alone.
Follows(o, o2, a, key, mark, id) ==
  IF Goes(mark.kind, key)
  THEN \E h \in {a, Holder(o, a, key)} : \E new :
         /\ Replaced(o, o2, h, key, new) /\ Grows(key, Read(o, a, key), new, mark, id)
         /\ key = "tags" => h = a
  ELSE \A d \in Definitions : o2[d][key] = o[d][key]

\* What a mark does to all keys.
Marks(o, o2, a, mark, id) ==
  AllKeys(o2) /\ \A key \in ReadKeys : Follows(o, o2, a, key, mark, id)

\* The class that is defined gets a mark.
MarkStep(mark) ==
  /\ mark.class = current /\ marks' = Append(marks, mark) /\ UNCHANGED current
  /\ Marks(own, own', current, mark, Len(marks) + 1)

\* The marks after it.
LEMMA MarksAfter ==
  ASSUME DecoratorsInv, NEW mark, MarkStep(mark)
  PROVE  /\ \E n \in Nat : /\ Len(marks) = n /\ DOMAIN marks = 1..n /\ DOMAIN marks' = 1..(n + 1)
                           /\ Len(marks') = n + 1 /\ marks'[n + 1] = mark
                           /\ \A i \in 1..n : marks'[i] = marks[i]
         /\ \E S : marks' \in Seq(S)
<1>1. PICK S : marks \in Seq(S)
  BY DEF DecoratorsInv
<1>2. marks' = Append(marks, mark) /\ marks \in Seq(S \cup {mark}) /\ mark \in S \cup {mark}
  BY <1>1 DEF MarkStep
<1>3. PICK T : marks \in Seq(T) /\ mark \in T
  BY <1>2
<1>4. marks' \in Seq(T)
  BY <1>2, <1>3
<1>5. /\ Len(marks) \in Nat /\ DOMAIN marks = 1..Len(marks) /\ DOMAIN marks' = 1..(Len(marks) + 1)
      /\ Len(marks') = Len(marks) + 1 /\ marks'[Len(marks) + 1] = mark
      /\ \A i \in 1..Len(marks) : marks'[i] = marks[i]
  BY <1>2, <1>3
<1> QED BY <1>4, <1>5

\* The class finds a list of the right type.
LEMMA ReadFits ==
  ASSUME DecoratorsInv, NEW key \in ReadKeys
  PROVE  Fits(key, Read(own, current, key), Len(marks))
<1>1. current \in Definitions /\ KeyInv(key)
  BY DEF DecoratorsInv
<1>2. Holder(own, current, key) \in Ancestors[current] \/ Holder(own, current, key) = current
  BY <1>1, HolderIs DEF Holders
<1>3. Holder(own, current, key) \in Definitions
  BY <1>1, <1>2, AncestorsAre
<1> QED BY <1>1, <1>3 DEF KeyInv, Read

\* What every key keeps.
LEMMA KeyKept ==
  ASSUME DecoratorsInv, NEW mark, MarkStep(mark), NEW key \in ReadKeys
  PROVE  KeyInv(key)'
<1>1. PICK n \in Nat : /\ Len(marks) = n /\ DOMAIN marks = 1..n /\ DOMAIN marks' = 1..(n + 1)
                       /\ Len(marks') = n + 1 /\ marks'[n + 1] = mark
                       /\ \A i \in 1..n : marks'[i] = marks[i]
  BY MarksAfter
<1>2. current \in Definitions /\ current' = current /\ KeyInv(key) /\ mark.class = current
  BY DEF DecoratorsInv, MarkStep
<1>3. PICK o : o = own
  OBVIOUS
<1>4. PICK o2 : o2 = own'
  OBVIOUS
<1>5. PICK a \in Definitions : a = current
  BY <1>2
<1>6. Follows(o, o2, a, key, mark, n + 1)
  BY <1>1, <1>3, <1>4, <1>5 DEF MarkStep, Marks
<1>7. \A d \in Definitions : Fits(key, o[d][key], n) /\ (d > a => o[d][key] = <<>>)
  BY <1>1, <1>2, <1>3, <1>5 DEF KeyInv
<1>8. \A c \in Definitions, i \in 1..n :
        marks[i].class \in Ancestors[c] /\ Goes(marks[i].kind, key) =>
          Finds(key, Read(o, c, key), marks[i], i)
  BY <1>1, <1>2, <1>3 DEF KeyInv
<1>9. SUFFICES /\ \A d \in Definitions : /\ Fits(key, o2[d][key], n + 1)
                                         /\ d > a => o2[d][key] = <<>>
               /\ \A c \in Definitions, i \in 1..(n + 1) :
                    marks'[i].class \in Ancestors[c] /\ Goes(marks'[i].kind, key) =>
                      Finds(key, Read(o2, c, key), marks'[i], i)
  BY <1>1, <1>2, <1>4, <1>5 DEF KeyInv
<1>10. \A d \in Definitions : Fits(key, o[d][key], n + 1)
  BY <1>7, FitsLater
<1>11. ASSUME NEW i \in 1..(n + 1) PROVE i \in 1..n \/ i = n + 1
  OBVIOUS
<1>12. CASE ~Goes(mark.kind, key)
  <2>1. \A d \in Definitions : o2[d][key] = o[d][key]
    BY <1>6, <1>12 DEF Follows
  <2>2. \A c \in Definitions : Read(o2, c, key) = Read(o, c, key)
    <3> SUFFICES ASSUME NEW c \in Definitions PROVE Read(o2, c, key) = Read(o, c, key)
      OBVIOUS
    <3>1. \A d \in Ancestors[c] : o2[d][key] = o[d][key]
      BY <2>1, AncestorsAre
    <3> QED BY <3>1, SameRead
  <2>3. \A d \in Definitions : Fits(key, o2[d][key], n + 1) /\ (d > a => o2[d][key] = <<>>)
    BY <1>7, <1>10, <2>1
  <2>4. ASSUME NEW c \in Definitions, NEW i \in 1..(n + 1),
               marks'[i].class \in Ancestors[c], Goes(marks'[i].kind, key)
        PROVE  Finds(key, Read(o2, c, key), marks'[i], i)
    <3>1. i \in 1..n /\ marks'[i] = marks[i]
      BY <1>1, <1>11, <1>12, <2>4
    <3> QED BY <1>8, <2>2, <2>4, <3>1
  <2> QED BY <2>3, <2>4
<1>13. CASE Goes(mark.kind, key)
  <2>0. PICK h \in {a, Holder(o, a, key)} : \E new :
          Replaced(o, o2, h, key, new) /\ Grows(key, Read(o, a, key), new, mark, n + 1)
    BY <1>6, <1>13 DEF Follows
  <2>1. PICK new :
          Replaced(o, o2, h, key, new) /\ Grows(key, Read(o, a, key), new, mark, n + 1)
    BY <2>0
  <2>2. Fits(key, Read(o, a, key), n)
    BY <1>1, <1>3, <1>5, ReadFits
  <2>3. GrowsWell(key, Read(o, a, key), new, mark, n + 1)
    BY <2>1, <2>2, ListGrows
  <2>4. new # <<>> /\ Fits(key, new, n + 1) /\ Finds(key, new, mark, n + 1)
    BY <2>3 DEF GrowsWell
  <2>5. \A other : \A i \in 1..n :
          Finds(key, Read(o, a, key), other, i) => Finds(key, new, other, i)
    <3>1. (n + 1) - 1 = n
      OBVIOUS
    <3> QED BY <2>3, <3>1 DEF GrowsWell
  <2>6. h \in Definitions /\ o2[h][key] = new /\ \A d \in Definitions \ {h} : o2[d][key] = o[d][key]
    BY <2>1 DEF Replaced
  <2>7. \A d \in Definitions : d > a => o[d][key] = <<>>
    BY <1>7
  <2>8. \A c \in Definitions :
          IF a \in Ancestors[c]
          THEN Read(o, c, key) = Read(o, a, key) /\ Read(o2, c, key) = new
          ELSE \/ Read(o2, c, key) = Read(o, c, key)
               \/ h # a /\ Read(o, c, key) = Read(o, a, key) /\ Read(o2, c, key) = new
    BY <2>4, <2>6, <2>7, ReadChange
  <2>9. ~(h > a)
    <3>1. h = a \/ h \in Ancestors[a]
      <4>1. Holder(o, a, key) = a \/ Holder(o, a, key) \in Holders(o, a, key)
        BY HolderIs
      <4> QED BY <2>1, <4>1 DEF Holders
    <3>2. h <= a
      BY <3>1, AncestorsBefore, AncestorsAre
    <3>3. h \in Nat /\ a \in Nat
      BY <2>6, ProgramAssumption
    <3> QED BY <3>2, <3>3
  <2>10. \A d \in Definitions : Fits(key, o2[d][key], n + 1) /\ (d > a => o2[d][key] = <<>>)
    BY <1>10, <2>4, <2>6, <2>7, <2>9
  <2>11. ASSUME NEW c \in Definitions, NEW i \in 1..(n + 1),
                marks'[i].class \in Ancestors[c], Goes(marks'[i].kind, key)
         PROVE  Finds(key, Read(o2, c, key), marks'[i], i)
    <3>1. CASE i = n + 1
      <4>1. marks'[i] = mark /\ a \in Ancestors[c]
        BY <1>1, <1>2, <1>5, <2>11, <3>1
      <4>2. Read(o2, c, key) = new
        BY <2>8, <4>1
      <4> QED BY <2>4, <3>1, <4>1, <4>2
    <3>2. CASE i \in 1..n
      <4>1. marks'[i] = marks[i] /\ Finds(key, Read(o, c, key), marks[i], i)
        BY <1>1, <1>8, <2>11, <3>2
      <4>2. \/ Read(o2, c, key) = Read(o, c, key)
            \/ Read(o, c, key) = Read(o, a, key) /\ Read(o2, c, key) = new
        BY <2>8
      <4> QED BY <2>5, <3>2, <4>1, <4>2
    <3> QED BY <1>11, <3>1, <3>2
  <2> QED BY <2>10, <2>11
<1> QED BY <1>12, <1>13

\* A tag that is read is still that of a mark.
LEMMA TagsKept ==
  ASSUME DecoratorsInv, NEW mark, MarkStep(mark)
  PROVE  TagsSound'
<1>1. PICK n \in Nat : /\ Len(marks) = n /\ DOMAIN marks = 1..n /\ DOMAIN marks' = 1..(n + 1)
                       /\ Len(marks') = n + 1 /\ marks'[n + 1] = mark
                       /\ \A i \in 1..n : marks'[i] = marks[i]
  BY MarksAfter
<1>2. /\ current \in Definitions /\ KeyInv("tags") /\ mark.class = current
      /\ \A c \in Definitions : \A tag \in Range(Read(own, c, "tags")) : \E i \in 1..n :
           marks[i].class \in Ancestors[c] /\ marks[i].kind = tag
  BY <1>1 DEF DecoratorsInv, MarkStep, TagsSound, ReadKeys
<1>3. PICK o : o = own
  OBVIOUS
<1>4. PICK o2 : o2 = own'
  OBVIOUS
<1>5. PICK a \in Definitions : a = current
  BY <1>2
<1>6. Follows(o, o2, a, "tags", mark, n + 1)
  BY <1>1, <1>3, <1>4, <1>5 DEF MarkStep, Marks, ReadKeys
<1>7. SUFFICES ASSUME NEW c \in Definitions, NEW tag \in Range(Read(o2, c, "tags"))
               PROVE  \E i \in 1..(n + 1) :
                        marks'[i].class \in Ancestors[c] /\ marks'[i].kind = tag
  BY <1>1, <1>4 DEF TagsSound
<1>8. n + 1 \in 1..(n + 1) /\ 1..n \subseteq 1..(n + 1)
  OBVIOUS
<1>9. CASE tag \in Range(Read(o, c, "tags"))
  <2>1. PICK i \in 1..n : marks[i].class \in Ancestors[c] /\ marks[i].kind = tag
    BY <1>2, <1>3, <1>9
  <2> QED BY <1>1, <1>8, <2>1
<1>10. CASE ~Goes(mark.kind, "tags")
  <2>1. \A d \in Definitions : o2[d]["tags"] = o[d]["tags"]
    BY <1>6, <1>10 DEF Follows
  <2>2. \A d \in Ancestors[c] : o2[d]["tags"] = o[d]["tags"]
    BY <2>1, AncestorsAre
  <2>3. Read(o2, c, "tags") = Read(o, c, "tags")
    BY <2>2, SameRead
  <2> QED BY <1>9, <2>3
<1>11. CASE Goes(mark.kind, "tags")
  <2>1. PICK new : /\ Replaced(o, o2, a, "tags", new)
                   /\ Grows("tags", Read(o, a, "tags"), new, mark, n + 1)
    BY <1>6, <1>11 DEF Follows
  <2>2. Fits("tags", Read(o, a, "tags"), n)
    BY <1>1, <1>3, <1>5, ReadFits DEF ReadKeys
  <2>3. new # <<>> /\ Range(new) \subseteq Range(Read(o, a, "tags")) \cup {mark.kind}
    BY <2>1, <2>2, TagsGrow DEF GrowsWell
  <2>4. /\ o2[a]["tags"] = new /\ \A d \in Definitions \ {a} : o2[d]["tags"] = o[d]["tags"]
        /\ \A d \in Definitions : d > a => o[d]["tags"] = <<>>
    BY <1>2, <1>3, <1>5, <2>1 DEF Replaced, KeyInv
  <2>5. IF a \in Ancestors[c]
        THEN Read(o, c, "tags") = Read(o, a, "tags") /\ Read(o2, c, "tags") = new
        ELSE \/ Read(o2, c, "tags") = Read(o, c, "tags")
             \/ a # a /\ Read(o, c, "tags") = Read(o, a, "tags") /\ Read(o2, c, "tags") = new
    BY <2>3, <2>4, ReadChange
  <2>6. CASE a \in Ancestors[c] /\ tag = mark.kind
    BY <1>1, <1>2, <1>5, <1>8, <2>6
  <2>7. CASE a \notin Ancestors[c] \/ tag # mark.kind
    <3>1. tag \in Range(Read(o, c, "tags"))
      BY <2>3, <2>5, <2>7
    <3> QED BY <1>9, <3>1
  <2> QED BY <2>6, <2>7
<1> QED BY <1>10, <1>11

\* A mark keeps the invariant.
LEMMA MarkKeeps ==
  ASSUME DecoratorsInv, NEW mark, MarkStep(mark)
  PROVE  DecoratorsInv'
<1>1. current' \in Definitions /\ AllKeys(own')
  BY DEF DecoratorsInv, MarkStep, Marks
<1> QED BY <1>1, MarksAfter, KeyKept, TagsKept DEF DecoratorsInv

\* The holder of a list is a class.
LEMMA HolderDefined ==
  ASSUME NEW o, NEW c \in Definitions, NEW key
  PROVE  Holder(o, c, key) \in Definitions
<1>1. Holder(o, c, key) = c \/ Holder(o, c, key) \in Holders(o, c, key)
  BY HolderIs
<1> QED BY <1>1, AncestorsAre DEF Holders

\* One list is written, and nothing else.
Writes(o, o2, h, key, new) ==
  /\ AllKeys(o2) /\ h \in Definitions /\ o2[h][key] = new
  /\ \A d \in Definitions, k \in Keys : d # h \/ k # key => o2[d][k] = o[d][k]

\* push() writes to the list that is read, wherever its holder keeps it.
LEMMA PushWrites ==
  ASSUME NEW o, AllKeys(o), NEW c \in Definitions, NEW key \in Keys, NEW x
  PROVE  Writes(o, Push(o, c, key, x), Holder(o, c, key), key, Append(Read(o, c, key), x))
<1>1. PICK h \in Definitions : h = Holder(o, c, key)
  BY HolderDefined
<1>2. PICK new : new = Append(o[h][key], x)
  OBVIOUS
<1>3. Push(o, c, key, x) = [o EXCEPT ![h][key] = new]
  BY <1>1, <1>2 DEF Push
<1> QED BY <1>1, <1>2, <1>3 DEF Writes, AllKeys, Read

\* And so does unshift().
LEMMA UnshiftWrites ==
  ASSUME NEW o, AllKeys(o), NEW c \in Definitions, NEW key \in Keys, NEW x
  PROVE  Writes(o, Unshift(o, c, key, x), Holder(o, c, key), key, <<x>> \o Read(o, c, key))
<1>1. PICK h \in Definitions : h = Holder(o, c, key)
  BY HolderDefined
<1>2. PICK new : new = <<x>> \o o[h][key]
  OBVIOUS
<1>3. Unshift(o, c, key, x) = [o EXCEPT ![h][key] = new]
  BY <1>1, <1>2 DEF Unshift
<1> QED BY <1>1, <1>2, <1>3 DEF Writes, AllKeys, Read

\* Metadata that is set replaces the class's own.
LEMMA PutWrites ==
  ASSUME NEW o, AllKeys(o), NEW c \in Definitions, NEW key \in Keys, NEW x
  PROVE  Writes(o, Put(o, c, key, x), c, key, <<x>>)
<1>1. PICK new : new = <<x>>
  OBVIOUS
<1>2. Put(o, c, key, x) = [o EXCEPT ![c][key] = new]
  BY <1>1 DEF Put
<1> QED BY <1>1, <1>2 DEF Writes, AllKeys

\* A tag is written to the class itself, after what it inherits.
LEMMA TaggedWrites ==
  ASSUME NEW o, AllKeys(o), NEW c \in Definitions, NEW tag
  PROVE  Writes(o, Tagged(o, c, tag), c, "tags", WithTag(Read(o, c, "tags"), tag))
<1>1. PICK new : new = WithTag(Read(o, c, "tags"), tag)
  OBVIOUS
<1>2. Tagged(o, c, tag) = [o EXCEPT ![c]["tags"] = new]
  BY <1>1 DEF Tagged, WithTag
<1>3. "tags" \in Keys
  BY DEF Keys
<1> QED BY <1>1, <1>2, <1>3 DEF Writes, AllKeys

\* Two metadata objects with the same lists of the keys that are looked at.
Alike(o, o2, keys) ==
  AllKeys(o2) /\ \A d \in Definitions, k \in keys : o2[d][k] = o[d][k]

\* What Put and Keep leave alone.
LEMMA OthersAlike ==
  ASSUME NEW o, AllKeys(o), NEW c \in Definitions, NEW key \in Keys, NEW x
  PROVE  Alike(o, Put(o, c, key, x), Keys \ {key}) /\ Alike(o, Keep(o, c, key, x), Keys \ {key})
<1>1. Alike(o, Put(o, c, key, x), Keys \ {key})
  BY PutWrites DEF Alike, Writes
<1>2. Alike(o, o, Keys \ {key})
  BY DEF Alike
<1> QED BY <1>1, <1>2 DEF Keep

\* One list is written.
LEMMA OneWrite ==
  ASSUME NEW o, NEW o2, NEW a \in Definitions, NEW key \in ReadKeys,
         NEW h \in {a, Holder(o, a, key)}, NEW new, NEW mark, NEW id,
         Writes(o, o2, h, key, new), Grows(key, Read(o, a, key), new, mark, id),
         key = "tags" => h = a, \A k \in ReadKeys : Goes(mark.kind, k) <=> k = key
  PROVE  Marks(o, o2, a, mark, id)
<1>1. ReadKeys \subseteq Keys
  BY DEF ReadKeys, EntryKeys, Keys
<1>2. AllKeys(o2) /\ Replaced(o, o2, h, key, new)
  BY <1>1 DEF Writes, Replaced
<1>3. ASSUME NEW k \in ReadKeys PROVE Follows(o, o2, a, k, mark, id)
  <2>1. CASE k = key
    BY <1>2, <2>1 DEF Follows
  <2>2. CASE k # key
    <3>1. \A d \in Definitions : o2[d][k] = o[d][k]
      BY <1>1, <2>2 DEF Writes
    <3> QED BY <2>2, <3>1 DEF Follows
  <2> QED BY <2>1, <2>2
<1> QED BY <1>2, <1>3 DEF Marks

\* A tag is written, and another list; in between, nothing that is looked at.
LEMMA TwoWrites ==
  ASSUME NEW o, NEW o1, NEW o2, NEW o3, NEW a \in Definitions, NEW key \in ReadKeys \ {"tags"},
         NEW h \in {a, Holder(o2, a, key)}, NEW new, NEW mark, NEW id,
         mark.kind \in Tagging, Writes(o, o1, a, "tags", WithTag(Read(o, a, "tags"), mark.kind)),
         Alike(o1, o2, ReadKeys), Writes(o2, o3, h, key, new),
         Grows(key, Read(o2, a, key), new, mark, id),
         \A k \in ReadKeys : Goes(mark.kind, k) <=> k \in {"tags", key}
  PROVE  Marks(o, o3, a, mark, id)
<1>1. ReadKeys \subseteq Keys /\ "tags" \in ReadKeys
  BY DEF ReadKeys, EntryKeys, Keys
<1>2. AllKeys(o3) /\ h \in Definitions /\ o3[h][key] = new
  BY DEF Writes
<1>3. \A d \in Definitions, k \in ReadKeys \ {"tags"} : o2[d][k] = o[d][k]
  BY <1>1 DEF Alike, Writes
<1>4. \A d \in Definitions, k \in ReadKeys : (d # h \/ k # key) => o3[d][k] = o2[d][k]
  BY <1>1 DEF Writes
<1>5. Follows(o, o3, a, "tags", mark, id)
  <2>1. PICK list : list = WithTag(Read(o, a, "tags"), mark.kind)
    OBVIOUS
  <2>2. o1[a]["tags"] = list /\ \A d \in Definitions \ {a} : o1[d]["tags"] = o[d]["tags"]
    BY <1>1, <2>1 DEF Writes
  <2>3. \A d \in Definitions : o3[d]["tags"] = o1[d]["tags"]
    BY <1>1, <1>4 DEF Alike
  <2>4. Replaced(o, o3, a, "tags", list)
    BY <2>2, <2>3 DEF Replaced
  <2>5. Grows("tags", Read(o, a, "tags"), list, mark, id)
    BY <2>1 DEF Grows, EntryKeys
  <2> QED BY <1>1, <2>4, <2>5 DEF Follows
<1>6. Follows(o, o3, a, key, mark, id)
  <2>1. \A d \in Ancestors[a] : o2[d][key] = o[d][key]
    BY <1>3, AncestorsAre
  <2>2. Holder(o2, a, key) = Holder(o, a, key) /\ Read(o2, a, key) = Read(o, a, key)
    BY <2>1, SameRead
  <2>3. h \in {a, Holder(o, a, key)} /\ Grows(key, Read(o, a, key), new, mark, id)
    BY <2>2
  <2>4. Replaced(o, o3, h, key, new)
    BY <1>2, <1>3, <1>4 DEF Replaced
  <2> QED BY <2>3, <2>4 DEF Follows
<1>7. ASSUME NEW k \in ReadKeys, k \notin {"tags", key} PROVE Follows(o, o3, a, k, mark, id)
  <2>1. \A d \in Definitions : o3[d][k] = o[d][k]
    BY <1>3, <1>4, <1>7
  <2> QED BY <1>7, <2>1 DEF Follows
<1> QED BY <1>2, <1>5, <1>6, <1>7 DEF Marks

\* What is not looked at is written before or after.
LEMMA AlikeMarks ==
  ASSUME NEW o, NEW o1, NEW o2, NEW o3, NEW a \in Definitions, NEW mark, NEW id,
         Alike(o, o1, ReadKeys), Marks(o1, o2, a, mark, id), Alike(o2, o3, ReadKeys)
  PROVE  Marks(o, o3, a, mark, id)
<1>1. ASSUME NEW key \in ReadKeys PROVE Follows(o, o3, a, key, mark, id)
  <2>1. \A d \in Definitions : o1[d][key] = o[d][key] /\ o3[d][key] = o2[d][key]
    BY DEF Alike
  <2>2. \A d \in Ancestors[a] : o1[d][key] = o[d][key]
    BY <2>1, AncestorsAre
  <2>3. Holder(o1, a, key) = Holder(o, a, key) /\ Read(o1, a, key) = Read(o, a, key)
    BY <2>2, SameRead
  <2>4. Follows(o1, o2, a, key, mark, id)
    BY DEF Marks
  <2>5. CASE Goes(mark.kind, key)
    <3>0. PICK h \in {a, Holder(o, a, key)} : \E new :
            /\ Replaced(o1, o2, h, key, new) /\ Grows(key, Read(o, a, key), new, mark, id)
            /\ key = "tags" => h = a
      BY <2>3, <2>4, <2>5 DEF Follows
    <3>1. PICK new :
            /\ Replaced(o1, o2, h, key, new) /\ Grows(key, Read(o, a, key), new, mark, id)
            /\ key = "tags" => h = a
      BY <3>0
    <3>2. Replaced(o, o3, h, key, new)
      BY <2>1, <3>1 DEF Replaced
    <3> QED BY <2>5, <3>1, <3>2 DEF Follows
  <2>6. CASE ~Goes(mark.kind, key)
    BY <2>1, <2>4, <2>6 DEF Follows
  <2> QED BY <2>5, <2>6
<1> QED BY <1>1 DEF Marks, Alike

\* An entry is written to the list that is read.
LEMMA EnteredWrites ==
  ASSUME NEW o, AllKeys(o), NEW c \in Definitions, NEW key \in Keys, NEW entry
  PROVE  Writes(o, Entered(o, c, key, entry), Holder(o, c, key), key,
                WithEntry(Read(o, c, key), entry))
<1>1. PICK h \in Definitions : h = Holder(o, c, key)
  BY HolderDefined
<1>2. PICK list : list = o[h][key]
  OBVIOUS
<1>3. list = Read(o, c, key)
  BY <1>1, <1>2 DEF Read
<1>4. CASE \E i \in DOMAIN list : list[i].member = entry.member
  <2>1. PICK i : i = CHOOSE j \in DOMAIN list : list[j].member = entry.member
    OBVIOUS
  <2>2. PICK new : new = [list EXCEPT ![i] = entry]
    OBVIOUS
  <2>3. Entered(o, c, key, entry) = [o EXCEPT ![h][key] = new]
    <3>1. Entered(o, c, key, entry) = [o EXCEPT ![h][key][i] = entry]
      BY <1>1, <1>3, <1>4, <2>1 DEF Entered
    <3> QED BY <1>2, <2>2, <3>1
  <2>4. WithEntry(Read(o, c, key), entry) = new
    BY <1>3, <1>4, <2>1, <2>2 DEF WithEntry
  <2> QED BY <1>1, <2>3, <2>4 DEF Writes, AllKeys
<1>5. CASE ~\E i \in DOMAIN list : list[i].member = entry.member
  <2>1. Entered(o, c, key, entry) = Push(o, c, key, entry)
    BY <1>3, <1>5 DEF Entered
  <2>2. WithEntry(Read(o, c, key), entry) = Append(Read(o, c, key), entry)
    BY <1>3, <1>5 DEF WithEntry
  <2> QED BY <2>1, <2>2, PushWrites
<1> QED BY <1>4, <1>5

\* The entry that is found is that of the member.
LEMMA EntryIs ==
  ASSUME NEW o, NEW c \in Definitions, NEW key, NEW m, NEW blank, OneEach(Read(o, c, key))
  PROVE  /\ \A j \in DOMAIN Read(o, c, key) :
              Read(o, c, key)[j].member = m => Entry(o, c, key, m, blank) = Read(o, c, key)[j]
         /\ (\A j \in DOMAIN Read(o, c, key) : Read(o, c, key)[j].member # m) =>
              Entry(o, c, key, m, blank) = blank
<1>1. PICK list : list = Read(o, c, key)
  OBVIOUS
<1> DEFINE entries == {e \in Range(list) : e.member = m}
<1>2. Entry(o, c, key, m, blank) = IF entries = {} THEN blank ELSE CHOOSE e \in entries : TRUE
  BY <1>1 DEF Entry
<1>3. \A e : e \in entries <=> \E j \in DOMAIN list : e = list[j] /\ list[j].member = m
  BY DEF Range
<1> HIDE DEF entries
<1>4. ASSUME NEW j \in DOMAIN list, list[j].member = m
      PROVE  Entry(o, c, key, m, blank) = list[j]
  <2>1. PICK e : e = CHOOSE f \in entries : TRUE
    OBVIOUS
  <2>2. list[j] \in entries
    BY <1>3, <1>4
  <2>3. e \in entries
    BY <2>1, <2>2
  <2>4. \A k \in DOMAIN list : list[k].member = m => k = j
    BY <1>1, <1>4 DEF OneEach
  <2>5. e = list[j]
    BY <1>3, <2>3, <2>4
  <2> QED BY <1>2, <2>1, <2>2, <2>5
<1>5. ASSUME \A j \in DOMAIN list : list[j].member # m
      PROVE  Entry(o, c, key, m, blank) = blank
  BY <1>2, <1>3, <1>5
<1> QED BY <1>1, <1>4, <1>5

-----------------------------------------------------------------------------
(* The decorators, one by one.                                             *)

\* A decorator keeps the invariant if it follows the rules for its mark.
LEMMA MarkedKeeps ==
  ASSUME DecoratorsInv, NEW kind, NEW m, NEW after, Marked(kind, m, after),
         \A mark : mark.kind = kind /\ mark.member = m => Marks(own, after, current, mark, Id)
  PROVE  DecoratorsInv'
<1>1. PICK mark : mark = [class |-> current, kind |-> kind, member |-> m]
  OBVIOUS
<1>2. mark.class = current /\ mark.kind = kind /\ mark.member = m
  BY <1>1
<1>3. Marks(own, after, current, mark, Id)
  BY <1>2
<1>4. own' = after /\ marks' = Append(marks, mark) /\ UNCHANGED current
  BY <1>1 DEF Marked
<1>5. MarkStep(mark)
  BY <1>2, <1>3, <1>4 DEF MarkStep, Id
<1> QED BY <1>5, MarkKeeps

\* Inject, Queued and the bindings.
LEMMA EntryKeeps ==
  ASSUME DecoratorsInv, NEW m \in Members, NEW kind, NEW key \in EntryKeys,
         \A k \in ReadKeys : Goes(kind, k) <=> k = key,
         Marked(kind, m, Push(own, current, key, [member |-> m, id |-> Id]))
  PROVE  DecoratorsInv'
<1>1. /\ key \in ReadKeys /\ key \in Keys
      /\ key \notin {"requestMapping", "patterns", "guards", "options", "tags"}
  BY DEF ReadKeys, EntryKeys, Keys
<1>2. current \in Definitions /\ AllKeys(own)
  BY DEF DecoratorsInv
<1>3. PICK after : after = Push(own, current, key, [member |-> m, id |-> Id])
  OBVIOUS
<1>4. PICK new : new = Append(Read(own, current, key), [member |-> m, id |-> Id])
  OBVIOUS
<1>5. Writes(own, after, Holder(own, current, key), key, new)
  BY <1>1, <1>2, <1>3, <1>4, PushWrites
<1>6. ASSUME NEW mark, mark.kind = kind, mark.member = m
      PROVE  Marks(own, after, current, mark, Id)
  <2>1. Grows(key, Read(own, current, key), new, mark, Id)
    BY <1>1, <1>4, <1>6 DEF Grows
  <2> QED BY <1>1, <1>2, <1>5, <1>6, <2>1, OneWrite
<1> QED BY <1>3, <1>6, MarkedKeeps

\* Cron(): the tag and the entry.
LEMMA CronKeeps ==
  ASSUME DecoratorsInv, NEW m \in Members, Cron(m)
  PROVE  DecoratorsInv'
<1>1. /\ "tags" \in Keys /\ "crons" \in Keys /\ "crons" \in ReadKeys \ {"tags"} /\ "cron" \in Tagging
      /\ \A k \in ReadKeys : Goes("cron", k) <=> k \in {"tags", "crons"}
  BY DEF Keys, ReadKeys, EntryKeys, Tagging, Goes
<1>2. current \in Definitions /\ AllKeys(own)
  BY DEF DecoratorsInv
<1>3. PICK o1 : o1 = Tagged(own, current, "cron")
  OBVIOUS
<1>4. Writes(own, o1, current, "tags", WithTag(Read(own, current, "tags"), "cron"))
  BY <1>2, <1>3, TaggedWrites
<1>5. AllKeys(o1) /\ Alike(o1, o1, ReadKeys)
  BY <1>4 DEF Writes, Alike
<1>6. PICK after : after = Push(o1, current, "crons", [member |-> m, id |-> Id])
  OBVIOUS
<1>7. PICK new : new = Append(Read(o1, current, "crons"), [member |-> m, id |-> Id])
  OBVIOUS
<1>8. Writes(o1, after, Holder(o1, current, "crons"), "crons", new)
  BY <1>1, <1>2, <1>5, <1>6, <1>7, PushWrites
<1>9. ASSUME NEW mark, mark.kind = "cron", mark.member = m
      PROVE  Marks(own, after, current, mark, Id)
  <2>1. Grows("crons", Read(o1, current, "crons"), new, mark, Id)
    BY <1>7, <1>9 DEF Grows
  <2> QED BY <1>1, <1>2, <1>4, <1>5, <1>8, <1>9, <2>1, TwoWrites
<1>10. Marked("cron", m, after)
  BY <1>3, <1>6 DEF Cron, MarkMember
<1> QED BY <1>9, <1>10, MarkedKeeps

\* The methods of HTTP and UseGuards of a method.
LEMMA RouteKeeps ==
  ASSUME DecoratorsInv, NEW m \in Members, Route(m) \/ GuardMethod(m)
  PROVE  DecoratorsInv'
<1>1. /\ "requestMapping" \in Keys /\ "requestMapping" \in ReadKeys
      /\ \A kind \in {"route", "guard"} :
           \A k \in ReadKeys : Goes(kind, k) <=> k = "requestMapping"
  BY DEF Keys, ReadKeys, EntryKeys, Tagging, Goes
<1>2. current \in Definitions /\ AllKeys(own)
  BY DEF DecoratorsInv
<1>3. PICK n \in Nat : n = Len(marks) /\ Id = n + 1
  BY DEF DecoratorsInv, Id
<1>4. PICK old : old = Read(own, current, "requestMapping")
  OBVIOUS
<1>5. /\ old \in Seq([member : Members, route : 0..n, guards : SUBSET (1..n)]) /\ OneEach(old)
  BY <1>1, <1>3, <1>4, ReadFits DEF Fits, OneEach
<1>6. PICK found : found = RouteEntry(m)
  OBVIOUS
<1>7. PICK blank : blank = [member |-> m, route |-> 0, guards |-> {}]
  OBVIOUS
<1>8. /\ \A j \in DOMAIN old : old[j].member = m => found = old[j]
      /\ (\A j \in DOMAIN old : old[j].member # m) => found = blank
  BY <1>2, <1>4, <1>5, <1>6, <1>7, EntryIs DEF RouteEntry
<1>9. found \in [member : {m}, route : 0..n, guards : SUBSET (1..n)]
  <2>1. CASE \E j \in DOMAIN old : old[j].member = m
    <3>1. PICK j \in DOMAIN old : old[j].member = m
      BY <2>1
    <3>2. old[j] \in [member : Members, route : 0..n, guards : SUBSET (1..n)]
      BY <1>5, EntryOf
    <3>3. found \in [member : Members, route : 0..n, guards : SUBSET (1..n)] /\ found.member = m
      BY <1>8, <3>1, <3>2
    <3> QED BY <3>3
  <2>2. CASE ~\E j \in DOMAIN old : old[j].member = m
    BY <1>7, <1>8, <2>2
  <2> QED BY <2>1, <2>2
<1>10. PICK kind \in {"route", "guard"} : \E e :
         /\ Marked(kind, m, Entered(own, current, "requestMapping", e))
         /\ e = IF kind = "route" THEN [found EXCEPT !.route = n + 1]
                                  ELSE [found EXCEPT !.guards = @ \cup {n + 1}]
  BY <1>3, <1>6 DEF Route, GuardMethod, MarkMember, RouteEntered
<1>10a. PICK e :
         /\ Marked(kind, m, Entered(own, current, "requestMapping", e))
         /\ e = IF kind = "route" THEN [found EXCEPT !.route = n + 1]
                                  ELSE [found EXCEPT !.guards = @ \cup {n + 1}]
  BY <1>10
<1>11. /\ e \in [member : {m}, route : 0..(n + 1), guards : SUBSET (1..(n + 1))]
       /\ e.route >= found.route /\ found.guards \subseteq e.guards
       /\ IF kind = "guard" THEN n + 1 \in e.guards ELSE e.route = n + 1
  <2>1. /\ 0..n \subseteq 0..(n + 1) /\ 1..n \subseteq 1..(n + 1) /\ n + 1 \in 0..(n + 1)
        /\ n + 1 \in 1..(n + 1)
    OBVIOUS
  <2>2. found.route \in Nat /\ found.route <= n + 1
    BY <1>9
  <2>3. CASE kind = "route"
    BY <1>9, <1>10a, <2>1, <2>2, <2>3
  <2>4. CASE kind = "guard"
    BY <1>9, <1>10a, <2>1, <2>2, <2>4
  <2> QED BY <1>10a, <2>3, <2>4
<1>12. PICK after : after = Entered(own, current, "requestMapping", e)
  OBVIOUS
<1>13. Writes(own, after, Holder(own, current, "requestMapping"), "requestMapping",
              WithEntry(old, e))
  BY <1>1, <1>2, <1>4, <1>12, EnteredWrites
<1>14. ASSUME NEW mark, mark.kind = kind, mark.member = m
       PROVE  Marks(own, after, current, mark, Id)
  <2>1. Grows("requestMapping", old, WithEntry(old, e), mark, n + 1)
    BY <1>8, <1>11, <1>14 DEF Grows, EntryKeys
  <2> QED BY <1>1, <1>2, <1>3, <1>4, <1>13, <1>14, <2>1, OneWrite
<1> QED BY <1>10a, <1>12, <1>14, MarkedKeeps

\* MessagePattern() and EventPattern().
LEMMA PatternKeeps ==
  ASSUME DecoratorsInv, NEW m \in Members, NEW kind \in {"message", "event"}, Pattern(kind, m)
  PROVE  DecoratorsInv'
<1>1. /\ "patterns" \in Keys /\ "patterns" \in ReadKeys
      /\ \A k \in ReadKeys : Goes(kind, k) <=> k = "patterns"
  BY DEF Keys, ReadKeys, EntryKeys, Tagging, Goes
<1>2. current \in Definitions /\ AllKeys(own)
  BY DEF DecoratorsInv
<1>3. PICK n \in Nat : n = Len(marks) /\ Id = n + 1
  BY DEF DecoratorsInv, Id
<1>4. PICK old : old = Read(own, current, "patterns")
  OBVIOUS
<1>5. /\ old \in Seq([member : Members, type : {"message", "event"}, pattern : 0..n])
      /\ OneEach(old)
  BY <1>1, <1>3, <1>4, ReadFits DEF Fits, OneEach
<1>6. PICK found, blank : /\ found = Entry(own, current, "patterns", m, blank)
                          /\ blank = BlankPattern(m)
  OBVIOUS
<1>7. /\ \A j \in DOMAIN old : old[j].member = m => found = old[j]
      /\ (\A j \in DOMAIN old : old[j].member # m) => found = blank
  <2>1. OneEach(Read(own, current, "patterns"))
    BY <1>4, <1>5
  <2>2. /\ \A j \in DOMAIN Read(own, current, "patterns") :
             Read(own, current, "patterns")[j].member = m =>
               Entry(own, current, "patterns", m, blank) = Read(own, current, "patterns")[j]
        /\ (\A j \in DOMAIN Read(own, current, "patterns") :
             Read(own, current, "patterns")[j].member # m) =>
               Entry(own, current, "patterns", m, blank) = blank
    BY <1>2, <2>1, EntryIs
  <2> QED BY <1>4, <1>6, <2>2
<1>8. found \in [member : {m}, type : {"message", "event"}, pattern : 0..n]
  <2>1. CASE \E j \in DOMAIN old : old[j].member = m
    <3>1. PICK j \in DOMAIN old : old[j].member = m
      BY <2>1
    <3>2. old[j] \in [member : Members, type : {"message", "event"}, pattern : 0..n]
      BY <1>5, EntryOf
    <3>3. found \in [member : Members, type : {"message", "event"}, pattern : 0..n]
          /\ found.member = m
      BY <1>7, <3>1, <3>2
    <3> QED BY <3>3
  <2>2. CASE ~\E j \in DOMAIN old : old[j].member = m
    BY <1>6, <1>7, <2>2 DEF BlankPattern
  <2> QED BY <2>1, <2>2
<1>9. PICK e : e = [found EXCEPT !.type = kind, !.pattern = n + 1]
  OBVIOUS
<1>10. e \in [member : {m}, type : {"message", "event"}, pattern : {n + 1}]
  BY <1>8, <1>9
<1>11. PICK after : after = Entered(own, current, "patterns", e)
  OBVIOUS
<1>12. Writes(own, after, Holder(own, current, "patterns"), "patterns", WithEntry(old, e))
  BY <1>1, <1>2, <1>4, <1>11, EnteredWrites
<1>13. ASSUME NEW mark, mark.kind = kind, mark.member = m
       PROVE  Marks(own, after, current, mark, Id)
  <2>1. Grows("patterns", old, WithEntry(old, e), mark, n + 1)
    BY <1>10, <1>13 DEF Grows, EntryKeys
  <2> QED BY <1>1, <1>2, <1>3, <1>4, <1>12, <1>13, <2>1, OneWrite
<1>14. Marked(kind, m, after)
  BY <1>3, <1>6, <1>9, <1>11 DEF Pattern, MarkMember
<1> QED BY <1>13, <1>14, MarkedKeeps

\* Injectable, Module and Global: nothing that is looked at.
LEMMA QuietKeeps ==
  ASSUME DecoratorsInv, NEW kind \in {"injectable", "module", "global"}, NEW after,
         Alike(own, after, ReadKeys), Marked(kind, "", after)
  PROVE  DecoratorsInv'
<1>1. \A k \in ReadKeys : ~Goes(kind, k)
  BY DEF Goes, Tagging
<1>2. ASSUME NEW mark, mark.kind = kind, mark.member = ""
      PROVE  Marks(own, after, current, mark, Id)
  BY <1>1, <1>2 DEF Marks, Follows, Alike
<1> QED BY <1>2, MarkedKeeps

\* The keys that nothing of the above is in.
OtherKeys == {"injectable", "module", "global", "controller", "queue", "filter", "command"}

\* What these keys hold is read by none of the collectors.
LEMMA OtherKeysAlike ==
  ASSUME NEW o, AllKeys(o), NEW c \in Definitions, NEW key \in OtherKeys, NEW x
  PROVE  Alike(o, Put(o, c, key, x), ReadKeys) /\ Alike(o, Keep(o, c, key, x), ReadKeys)
<1>1. key \in Keys /\ ReadKeys \subseteq Keys \ {key}
  BY DEF OtherKeys, Keys, ReadKeys, EntryKeys
<1> QED BY <1>1, OthersAlike DEF Alike

\* Nothing has changed in what has not.
LEMMA AlikeItself ==
  ASSUME NEW o, AllKeys(o)
  PROVE  Alike(o, o, ReadKeys)
BY DEF Alike

\* Nor in two steps that each change nothing of it.
LEMMA AlikeTwice ==
  ASSUME NEW o, NEW o1, NEW o2, Alike(o, o1, ReadKeys), Alike(o1, o2, ReadKeys)
  PROVE  Alike(o, o2, ReadKeys)
BY DEF Alike

\* The tags of the packages.
Roles == {"controller", "messages", "queue", "consumer", "filter"}

\* A component is marked by its tag alone.
LEMMA ComponentMarks ==
  ASSUME NEW o, AllKeys(o), NEW c \in Definitions, NEW x, NEW tag \in Roles,
         NEW mark, mark.kind = tag, NEW id
  PROVE  Marks(o, Component(o, c, x, tag), c, mark, id)
<1>1. PICK o1 : o1 = Keep(o, c, "injectable", x)
  OBVIOUS
<1>2. Alike(o, o1, ReadKeys) /\ AllKeys(o1)
  BY <1>1, OtherKeysAlike DEF OtherKeys, Alike
<1>3. PICK o2 : o2 = Tagged(o1, c, tag)
  OBVIOUS
<1>4. PICK new : new = WithTag(Read(o1, c, "tags"), tag)
  OBVIOUS
<1>5. Writes(o1, o2, c, "tags", new)
  BY <1>2, <1>3, <1>4, TaggedWrites
<1>6. tag \in Tagging /\ "tags" \in ReadKeys /\ \A k \in ReadKeys : Goes(tag, k) <=> k = "tags"
  BY DEF Roles, Tagging, ReadKeys, EntryKeys, Goes
<1>7. Grows("tags", Read(o1, c, "tags"), new, mark, id)
  BY <1>4, <1>6 DEF Grows, EntryKeys
<1>8. Marks(o1, o2, c, mark, id)
  BY <1>5, <1>6, <1>7, OneWrite
<1>9. AllKeys(o2)
  BY <1>5 DEF Writes
<1>10. Marks(o, o2, c, mark, id)
  BY <1>2, <1>8, <1>9, AlikeItself, AlikeMarks
<1> QED BY <1>1, <1>3, <1>10 DEF Component

\* Controller, MessageController, QueueHandler, AmqpConsumer and Catch.
LEMMA RoleKeeps ==
  ASSUME DecoratorsInv, Controller \/ MessageController \/ QueueHandler \/ AmqpConsumer \/ Catch
  PROVE  DecoratorsInv'
<1>1. current \in Definitions /\ AllKeys(own)
  BY DEF DecoratorsInv
<1>2. ASSUME NEW o, AllKeys(o), NEW tag \in Roles, NEW key \in OtherKeys,
             NEW mark, mark.kind = tag
      PROVE  /\ Marks(o, Component(o, current, Id, tag), current, mark, Id)
             /\ Marks(o, Put(Component(o, current, Id, tag), current, key, Id), current, mark, Id)
  <2>1. PICK o2 : o2 = Component(o, current, Id, tag)
    OBVIOUS
  <2>2. Marks(o, o2, current, mark, Id)
    BY <1>1, <1>2, <2>1, ComponentMarks
  <2>3. AllKeys(o2)
    BY <2>2 DEF Marks
  <2>4. Alike(o, o, ReadKeys) /\ Alike(o2, Put(o2, current, key, Id), ReadKeys)
    BY <1>1, <1>2, <2>3, AlikeItself, OtherKeysAlike
  <2>5. Marks(o, Put(o2, current, key, Id), current, mark, Id)
    BY <1>1, <2>2, <2>4, AlikeMarks
  <2> QED BY <2>1, <2>2, <2>5
<1>3. CASE Controller
  <2>1. PICK after : /\ after = Put(Component(own, current, Id, "controller"), current,
                                   "controller", Id)
                     /\ Marked("controller", "", after)
    BY <1>3 DEF Controller, MarkClass
  <2>2. ASSUME NEW mark, mark.kind = "controller", mark.member = ""
        PROVE  Marks(own, after, current, mark, Id)
    BY <1>1, <1>2, <2>1, <2>2 DEF Roles, OtherKeys
  <2> QED BY <2>1, <2>2, MarkedKeeps
<1>4. CASE MessageController
  <2>1. PICK after : /\ after = Component(own, current, Id, "messages")
                     /\ Marked("messages", "", after)
    BY <1>4 DEF MessageController, MarkClass
  <2>2. ASSUME NEW mark, mark.kind = "messages", mark.member = ""
        PROVE  Marks(own, after, current, mark, Id)
    BY <1>1, <1>2, <2>1, <2>2 DEF Roles, OtherKeys
  <2> QED BY <2>1, <2>2, MarkedKeeps
<1>5. CASE QueueHandler
  <2>1. PICK after : /\ after = Put(Component(own, current, Id, "queue"), current, "queue", Id)
                     /\ Marked("queue", "", after)
    BY <1>5 DEF QueueHandler, MarkClass
  <2>2. ASSUME NEW mark, mark.kind = "queue", mark.member = ""
        PROVE  Marks(own, after, current, mark, Id)
    BY <1>1, <1>2, <2>1, <2>2 DEF Roles, OtherKeys
  <2> QED BY <2>1, <2>2, MarkedKeeps
<1>6. CASE AmqpConsumer
  <2>1. PICK after : /\ after = Component(own, current, Id, "consumer")
                     /\ Marked("consumer", "", after)
    BY <1>6 DEF AmqpConsumer, MarkClass
  <2>2. ASSUME NEW mark, mark.kind = "consumer", mark.member = ""
        PROVE  Marks(own, after, current, mark, Id)
    BY <1>1, <1>2, <2>1, <2>2 DEF Roles, OtherKeys
  <2> QED BY <2>1, <2>2, MarkedKeeps
<1>7. CASE Catch
  <2>1. PICK o1, after : /\ o1 = Put(own, current, "filter", Id)
                         /\ after = Component(o1, current, Id, "filter")
                         /\ Marked("filter", "", after)
    BY <1>7 DEF Catch, MarkClass
  <2>2. Alike(own, o1, ReadKeys) /\ AllKeys(o1)
    <3>1. "filter" \in OtherKeys
      BY DEF OtherKeys
    <3>2. Alike(own, o1, ReadKeys)
      BY <1>1, <2>1, <3>1, OtherKeysAlike
    <3> QED BY <3>2 DEF Alike
  <2>3. ASSUME NEW mark, mark.kind = "filter", mark.member = ""
        PROVE  Marks(own, after, current, mark, Id)
    <3>1. Marks(o1, after, current, mark, Id)
      BY <1>2, <2>1, <2>2, <2>3 DEF Roles, OtherKeys
    <3>2. AllKeys(after)
      BY <3>1 DEF Marks
    <3> QED BY <1>1, <2>2, <3>1, <3>2, AlikeItself, AlikeMarks
  <2> QED BY <2>1, <2>3, MarkedKeeps
<1> QED BY <1>3, <1>4, <1>5, <1>6, <1>7

\* Command(): the tag, and an option of its own in front of the others.
LEMMA CommandKeeps ==
  ASSUME DecoratorsInv, ConsoleCommand
  PROVE  DecoratorsInv'
<1>1. current \in Definitions /\ AllKeys(own)
  BY DEF DecoratorsInv
<1>2. PICK o1 : o1 = Keep(own, current, "injectable", Id)
  OBVIOUS
<1>3. PICK o2 : o2 = Tagged(o1, current, "command")
  OBVIOUS
<1>4. PICK o3 : o3 = Put(o2, current, "command", Id)
  OBVIOUS
<1>5. PICK new : new = <<Id>> \o Read(o3, current, "options")
  OBVIOUS
<1>6. PICK o4 : o4 = [o3 EXCEPT ![current]["options"] = new]
  OBVIOUS
<1>7. Marked("command", "", o4)
  BY <1>2, <1>3, <1>4, <1>5, <1>6 DEF ConsoleCommand, MarkClass, Component
<1>8. Alike(own, o1, ReadKeys) /\ AllKeys(o1)
  BY <1>1, <1>2, OtherKeysAlike DEF OtherKeys, Alike
<1>9. PICK tags : tags = WithTag(Read(o1, current, "tags"), "command")
  OBVIOUS
<1>10. Writes(o1, o2, current, "tags", tags)
  BY <1>1, <1>3, <1>8, <1>9, TaggedWrites
<1>11. AllKeys(o2)
  BY <1>10 DEF Writes
<1>12. Alike(o2, o3, ReadKeys) /\ AllKeys(o3)
  BY <1>1, <1>4, <1>11, OtherKeysAlike DEF OtherKeys, Alike
<1>13. "options" \in Keys /\ "options" \in ReadKeys \ {"tags"} /\ "command" \in Tagging
       /\ \A k \in ReadKeys : Goes("command", k) <=> k \in {"tags", "options"}
  BY DEF Keys, ReadKeys, EntryKeys, Tagging, Goes
<1>14. Writes(o3, o4, current, "options", new)
  BY <1>1, <1>6, <1>12, <1>13 DEF Writes, AllKeys
<1>15. ASSUME NEW mark, mark.kind = "command", mark.member = ""
       PROVE  Marks(own, o4, current, mark, Id)
  <2>1. Grows("options", Read(o3, current, "options"), new, mark, Id)
    BY <1>5 DEF Grows, EntryKeys
  <2>2. Marks(o1, o4, current, mark, Id)
    BY <1>1, <1>9, <1>10, <1>12, <1>13, <1>14, <1>15, <2>1, TwoWrites
  <2>3. AllKeys(o4)
    BY <2>2 DEF Marks
  <2> QED BY <1>1, <1>8, <2>2, <2>3, AlikeItself, AlikeMarks
<1> QED BY <1>7, <1>15, MarkedKeeps

\* UseGuards of a class, and Option.
LEMMA ListKeeps ==
  ASSUME DecoratorsInv, GuardClass \/ Option
  PROVE  DecoratorsInv'
<1>1. current \in Definitions /\ AllKeys(own)
  BY DEF DecoratorsInv
<1>2. CASE GuardClass
  <2>1. /\ "guards" \in Keys /\ "guards" \in ReadKeys
        /\ \A k \in ReadKeys : Goes("guards", k) <=> k = "guards"
    BY DEF Keys, ReadKeys, EntryKeys, Tagging, Goes
  <2>2. PICK after : after = Push(own, current, "guards", Id) /\ Marked("guards", "", after)
    BY <1>2 DEF GuardClass, MarkClass
  <2>3. PICK new : new = Append(Read(own, current, "guards"), Id)
    OBVIOUS
  <2>4. Writes(own, after, Holder(own, current, "guards"), "guards", new)
    BY <1>1, <2>1, <2>2, <2>3, PushWrites
  <2>5. ASSUME NEW mark, mark.kind = "guards", mark.member = ""
        PROVE  Marks(own, after, current, mark, Id)
    <3>1. Grows("guards", Read(own, current, "guards"), new, mark, Id)
      BY <2>3 DEF Grows, EntryKeys
    <3> QED BY <1>1, <2>1, <2>4, <2>5, <3>1, OneWrite
  <2> QED BY <2>2, <2>5, MarkedKeeps
<1>3. CASE Option
  <2>1. /\ "options" \in Keys /\ "options" \in ReadKeys
        /\ \A k \in ReadKeys : Goes("option", k) <=> k = "options"
    BY DEF Keys, ReadKeys, EntryKeys, Tagging, Goes
  <2>2. PICK after : after = Unshift(own, current, "options", Id) /\ Marked("option", "", after)
    BY <1>3 DEF Option, MarkClass
  <2>3. PICK new : new = <<Id>> \o Read(own, current, "options")
    OBVIOUS
  <2>4. Writes(own, after, Holder(own, current, "options"), "options", new)
    BY <1>1, <2>1, <2>2, <2>3, UnshiftWrites
  <2>5. ASSUME NEW mark, mark.kind = "option", mark.member = ""
        PROVE  Marks(own, after, current, mark, Id)
    <3>1. Grows("options", Read(own, current, "options"), new, mark, Id)
      BY <2>3 DEF Grows, EntryKeys
    <3> QED BY <1>1, <2>1, <2>4, <2>5, <3>1, OneWrite
  <2> QED BY <2>2, <2>5, MarkedKeeps
<1> QED BY <1>2, <1>3

\* Steps that mark nothing.
LEMMA UnmarkedKeeps ==
  ASSUME DecoratorsInv, own' = own, marks' = marks,
         current' = current \/ (current' = current + 1 /\ current' \in Definitions)
  PROVE  DecoratorsInv'
<1>1. current \in Nat /\ Definitions \subseteq Nat
  BY ProgramAssumption DEF DecoratorsInv
<1>2. \A d \in Definitions : d > current' => d > current
  BY <1>1
<1>3. \A key \in ReadKeys : KeyInv(key)'
  BY <1>2 DEF DecoratorsInv, KeyInv
<1>4. current' \in Definitions /\ AllKeys(own)' /\ TagsSound' /\ \E S : marks' \in Seq(S)
  BY DEF DecoratorsInv, TagsSound
<1> QED BY <1>3, <1>4 DEF DecoratorsInv

\* Every step keeps the invariant.
LEMMA DecoratorsStep ==
  ASSUME DecoratorsInv, [DecoratorsNext]_decoratorVars
  PROVE  DecoratorsInv'
<1>1. current \in Definitions /\ AllKeys(own)
  BY DEF DecoratorsInv
<1>2. CASE DecorateMember
  <2>1. CASE RefuseStatic
    <3>1. own' = own /\ marks' = marks /\ current' = current
      BY <2>1 DEF RefuseStatic, Refuse
    <3> QED BY <3>1, UnmarkedKeeps
  <2>2. ASSUME NEW m \in Members, Inject(m) PROVE DecoratorsInv'
    <3>1. CASE Refuse
      <4>1. own' = own /\ marks' = marks /\ current' = current
        BY <3>1 DEF Refuse
      <4> QED BY <4>1, UnmarkedKeeps
    <3>2. CASE Marked("inject", m, Push(own, current, "dependencies", [member |-> m, id |-> Id]))
      <4>1. /\ "dependencies" \in EntryKeys
            /\ \A k \in ReadKeys : Goes("inject", k) <=> k = "dependencies"
        BY DEF ReadKeys, EntryKeys, Tagging, Goes
      <4> QED BY <3>2, <4>1, EntryKeeps
    <3> QED BY <2>2, <3>1, <3>2 DEF Inject, MarkMember
  <2>3. ASSUME NEW m \in Members, Queued(m) PROVE DecoratorsInv'
    <3>1. "queued" \in EntryKeys /\ \A k \in ReadKeys : Goes("queued", k) <=> k = "queued"
      BY DEF ReadKeys, EntryKeys, Tagging, Goes
    <3>2. Marked("queued", m, Push(own, current, "queued", [member |-> m, id |-> Id]))
      BY <2>3 DEF Queued, MarkMember
    <3> QED BY <3>1, <3>2, EntryKeeps
  <2>4. ASSUME NEW m \in Members, Binding(m) PROVE DecoratorsInv'
    <3>1. "bindings" \in EntryKeys /\ \A k \in ReadKeys : Goes("binding", k) <=> k = "bindings"
      BY DEF ReadKeys, EntryKeys, Tagging, Goes
    <3>2. Marked("binding", m, Push(own, current, "bindings", [member |-> m, id |-> Id]))
      BY <2>4 DEF Binding, Bound, MarkMember
    <3> QED BY <3>1, <3>2, EntryKeeps
  <2> QED BY <1>2, <2>1, <2>2, <2>3, <2>4, CronKeeps, RouteKeeps, PatternKeeps DEF DecorateMember
<1>3. CASE EndMembers
  <2>1. own' = own /\ marks' = marks /\ current' = current
    BY <1>3 DEF EndMembers
  <2> QED BY <2>1, UnmarkedKeeps
<1>4. CASE DecorateClass
  <2>1. CASE Injectable
    BY <1>1, <2>1, OtherKeysAlike, QuietKeeps DEF Injectable, MarkClass, OtherKeys
  <2>2. CASE Module
    <3>1. PICK o1, after : /\ o1 = Keep(own, current, "injectable", Id)
                           /\ after = Keep(o1, current, "module", Id)
                           /\ Marked("module", "", after)
      BY <2>2 DEF Module, MarkClass
    <3>2. Alike(own, o1, ReadKeys) /\ AllKeys(o1)
      <4>1. "injectable" \in OtherKeys
        BY DEF OtherKeys
      <4>2. Alike(own, o1, ReadKeys)
        BY <1>1, <3>1, <4>1, OtherKeysAlike
      <4> QED BY <4>2 DEF Alike
    <3>3. Alike(o1, after, ReadKeys)
      BY <1>1, <3>1, <3>2, OtherKeysAlike DEF OtherKeys
    <3> QED BY <3>1, <3>2, <3>3, AlikeTwice, QuietKeeps
  <2>3. CASE Global
    BY <1>1, <2>3, OtherKeysAlike, QuietKeeps DEF Global, MarkClass, OtherKeys
  <2> QED BY <1>4, <2>1, <2>2, <2>3, RoleKeeps, CommandKeeps, ListKeeps DEF DecorateClass
<1>5. CASE EndClass
  <2>1. /\ own' = own /\ marks' = marks
        /\ current' = current \/ (current' = current + 1 /\ current' \in Definitions)
    BY <1>5 DEF EndClass
  <2> QED BY <2>1, UnmarkedKeeps
<1>6. CASE UNCHANGED decoratorVars
  <2>1. own' = own /\ marks' = marks /\ current' = current
    BY <1>6 DEF decoratorVars
  <2> QED BY <2>1, UnmarkedKeeps
<1> QED BY <1>2, <1>3, <1>4, <1>5, <1>6 DEF DecoratorsNext

\* A program without any mark satisfies it.
LEMMA DecoratorsStart ==
  ASSUME DecoratorsInit
  PROVE  DecoratorsInv
<1>1. current \in Definitions /\ marks = <<>> /\ Len(marks) = 0
  BY ProgramAssumption DEF DecoratorsInit
<1>2. AllKeys(own) /\ \A d \in Definitions, key \in Keys : own[d][key] = <<>>
  BY DEF DecoratorsInit, AllKeys
<1>3. ReadKeys \subseteq Keys
  BY DEF ReadKeys, EntryKeys, Keys
<1>4. \A S : <<>> \in Seq(S)
  OBVIOUS
<1>5. ASSUME NEW key \in ReadKeys PROVE KeyInv(key)
  <2>1. Fits(key, <<>>, 0)
    BY <1>4 DEF Fits
  <2>2. \A d \in Definitions : own[d][key] = <<>>
    BY <1>2, <1>3
  <2>3. DOMAIN marks = {}
    BY <1>1
  <2> QED BY <1>1, <2>1, <2>2, <2>3 DEF KeyInv
<1>6. TagsSound
  <2>1. \A c \in Definitions : Read(own, c, "tags") = <<>>
    BY <1>2, <1>3, HolderDefined DEF Read, ReadKeys
  <2> QED BY <2>1 DEF TagsSound, Range
<1> QED BY <1>1, <1>2, <1>4, <1>5, <1>6 DEF DecoratorsInv

-----------------------------------------------------------------------------
(* What the invariant says.                                                *)

\* A list with one place for what is looked for.
LEMMA OnePlace ==
  ASSUME NEW S, NEW j, S = {j}
  PROVE  Cardinality(S) = 1
BY FS_Singleton

\* What a mark of an ancestor left is found by its collector.
LEMMA FoundOnce ==
  ASSUME DecoratorsInv, NEW c \in Definitions, NEW i \in DOMAIN marks,
         marks[i].class \in Ancestors[c]
  PROVE  ReadBy(c, i)
<1> DEFINE kind == marks[i].kind
<1> DEFINE m == marks[i].member
<1>1. kind = marks[i].kind
  OBVIOUS
<1>2. m = marks[i].member
  OBVIOUS
<1> HIDE DEF kind, m
<1>3. ASSUME NEW key \in ReadKeys, Goes(kind, key)
      PROVE  Finds(key, Read(own, c, key), marks[i], i) /\ Fits(key, Read(own, c, key), Len(marks))
  <2>1. KeyInv(key)
    BY DEF DecoratorsInv
  <2>2. Fits(key, Read(own, c, key), Len(marks))
    BY <2>1, HolderDefined DEF KeyInv, Read
  <2> QED BY <1>1, <1>3, <2>1, <2>2 DEF KeyInv
<1>4. ASSUME kind \in {"inject", "queued", "cron", "binding"}
      PROVE  Once(Read(own, c, ListOf(kind)), LAMBDA e : e = [member |-> m, id |-> i])
  <2>1. ListOf(kind) \in EntryKeys /\ Goes(kind, ListOf(kind))
    BY <1>4 DEF ListOf, EntryKeys, Goes
  <2>2. PICK key \in EntryKeys : key = ListOf(kind) /\ Goes(kind, key)
    BY <2>1
  <2>3. PICK list : list = Read(own, c, key)
    OBVIOUS
  <2>4. Finds(key, list, marks[i], i)
    BY <1>3, <2>2, <2>3 DEF ReadKeys
  <2>5. PICK j \in DOMAIN list :
          /\ list[j] = [member |-> m, id |-> i]
          /\ \A k \in DOMAIN list : list[k] = [member |-> m, id |-> i] => k = j
    BY <1>2, <2>4 DEF Finds
  <2>6. {k \in DOMAIN list : list[k] = [member |-> m, id |-> i]} = {j}
    BY <2>5
  <2>7. Cardinality({k \in DOMAIN list : list[k] = [member |-> m, id |-> i]}) = 1
    BY <2>6, OnePlace
  <2> QED BY <2>2, <2>3, <2>7 DEF Once
<1>5. ASSUME kind \in {"route", "guard"}
      PROVE  Once(Read(own, c, "requestMapping"), LAMBDA e :
               e.member = m /\ (IF kind = "guard" THEN i \in e.guards ELSE e.route >= i))
  <2>1. "requestMapping" \in ReadKeys /\ Goes(kind, "requestMapping")
    BY <1>5 DEF ReadKeys, Goes
  <2>2. PICK list : list = Read(own, c, "requestMapping")
    OBVIOUS
  <2>3. /\ Finds("requestMapping", list, marks[i], i)
        /\ \A j, k \in DOMAIN list : list[j].member = list[k].member => j = k
    BY <1>3, <2>1, <2>2 DEF Fits
  <2>4. PICK j \in DOMAIN list :
          list[j].member = m /\ (IF kind = "guard" THEN i \in list[j].guards ELSE list[j].route >= i)
    BY <1>1, <1>2, <2>3 DEF Finds
  <2>5. {k \in DOMAIN list :
           /\ list[k].member = m
           /\ IF kind = "guard" THEN i \in list[k].guards ELSE list[k].route >= i} = {j}
    BY <2>3, <2>4
  <2>6. Cardinality({k \in DOMAIN list :
           /\ list[k].member = m
           /\ IF kind = "guard" THEN i \in list[k].guards ELSE list[k].route >= i}) = 1
    BY <2>5, OnePlace
  <2> QED BY <2>2, <2>6 DEF Once
<1>6. ASSUME kind \in {"message", "event"}
      PROVE  Once(Read(own, c, "patterns"), LAMBDA e : e.member = m /\ e.pattern >= i)
  <2>1. "patterns" \in ReadKeys /\ Goes(kind, "patterns")
    BY <1>6 DEF ReadKeys, Goes
  <2>2. PICK list : list = Read(own, c, "patterns")
    OBVIOUS
  <2>3. /\ Finds("patterns", list, marks[i], i)
        /\ \A j, k \in DOMAIN list : list[j].member = list[k].member => j = k
    BY <1>3, <2>1, <2>2 DEF Fits
  <2>4. PICK j \in DOMAIN list : list[j].member = m /\ list[j].pattern >= i
    BY <1>2, <2>3 DEF Finds
  <2>5. {k \in DOMAIN list : list[k].member = m /\ list[k].pattern >= i} = {j}
    BY <2>3, <2>4
  <2>6. Cardinality({k \in DOMAIN list : list[k].member = m /\ list[k].pattern >= i}) = 1
    BY <2>5, OnePlace
  <2> QED BY <2>2, <2>6 DEF Once
<1>7. \A key \in {"guards", "options", "tags"} : \E n \in Nat : Goes(kind, key) =>
        DOMAIN Read(own, c, key) = 1..n /\ Len(Read(own, c, key)) = n
  <2> SUFFICES ASSUME NEW key \in {"guards", "options", "tags"}, Goes(kind, key)
               PROVE  \E n \in Nat : /\ DOMAIN Read(own, c, key) = 1..n
                                     /\ Len(Read(own, c, key)) = n
    OBVIOUS
  <2>1. Fits(key, Read(own, c, key), Len(marks))
    BY <1>3 DEF ReadKeys
  <2>2. PICK list, S : list = Read(own, c, key) /\ list \in Seq(S)
    BY <2>1 DEF Fits
  <2>3. DOMAIN list = 1..Len(list) /\ Len(list) \in Nat
    BY <2>2
  <2> QED BY <2>2, <2>3
<1>8. ASSUME kind = "guards" PROVE Contains(Read(own, c, "guards"), i)
  <2>1. "guards" \in ReadKeys /\ Goes(kind, "guards")
    BY <1>8 DEF ReadKeys, Goes
  <2>2. PICK list : list = Read(own, c, "guards")
    OBVIOUS
  <2>3. DOMAIN list = 1..Len(list)
    BY <1>7, <2>1, <2>2
  <2>4. \E j \in DOMAIN list : list[j] = i
    BY <1>3, <2>1, <2>2 DEF Finds
  <2> QED BY <2>2, <2>3, <2>4 DEF Contains
<1>9. ASSUME kind \in {"option", "command"}
      PROVE  Once(Read(own, c, "options"), LAMBDA id : id = i)
  <2>1. "options" \in ReadKeys /\ Goes(kind, "options")
    BY <1>9 DEF ReadKeys, Goes
  <2>2. PICK list : list = Read(own, c, "options")
    OBVIOUS
  <2>3. PICK j \in DOMAIN list : list[j] = i /\ \A k \in DOMAIN list : list[k] = i => k = j
    BY <1>3, <2>1, <2>2 DEF Finds
  <2>4. {k \in DOMAIN list : list[k] = i} = {j}
    BY <2>3
  <2>5. Cardinality({k \in DOMAIN list : list[k] = i}) = 1
    BY <2>4, OnePlace
  <2> QED BY <2>2, <2>5 DEF Once
<1>10. ASSUME kind \in Tagging PROVE Contains(Read(own, c, "tags"), kind)
  <2>1. "tags" \in ReadKeys /\ Goes(kind, "tags")
    BY <1>10 DEF ReadKeys, Goes
  <2>2. PICK list : list = Read(own, c, "tags")
    OBVIOUS
  <2>3. DOMAIN list = 1..Len(list)
    BY <1>7, <2>1, <2>2
  <2>4. \E j \in DOMAIN list : list[j] = kind
    BY <1>1, <1>3, <2>1, <2>2 DEF Finds
  <2> QED BY <2>2, <2>3, <2>4 DEF Contains
<1> QED BY <1>4, <1>5, <1>6, <1>8, <1>9, <1>10 DEF ReadBy, kind, m

\* The invariant says of every mark that it is read.
LEMMA DecoratorsSafe ==
  ASSUME DecoratorsInv
  PROVE  MarksAreRead
<1>1. 1..current \subseteq Definitions
  BY ProgramAssumption DEF DecoratorsInv
<1>2. ASSUME NEW c \in 1..current, NEW i \in DOMAIN marks, marks[i].class \in Ancestors[c]
      PROVE  ReadBy(c, i)
  BY <1>1, <1>2, FoundOnce
<1>3. TagsSound
  BY DEF DecoratorsInv
<1> QED BY <1>1, <1>2, <1>3 DEF MarksAreRead, TagsSound

\* For any classes, whatever they extend, and any order of their decorators: a class reads
\* each of its marks and of its ancestors', once, and no tag of another.
THEOREM EveryMarkIsRead == DecoratorsSpec => []MarksAreRead
<1>1. DecoratorsInit => DecoratorsInv
  BY DecoratorsStart
<1>2. DecoratorsInv /\ [DecoratorsNext]_decoratorVars => DecoratorsInv'
  BY DecoratorsStep
<1>3. DecoratorsInv => MarksAreRead
  BY DecoratorsSafe
<1> QED BY <1>1, <1>2, <1>3, PTL DEF DecoratorsSpec
=============================================================================
