------------------------------ MODULE Services ------------------------------
(***************************************************************************)
(* The service modules in an application: the hooks of Connections and     *)
(* Scheduler in the order in which InjectorContext calls them, each        *)
(* awaited before the next, and the application's calls in between.        *)
(***************************************************************************)
EXTENDS Connections, Scheduler

VARIABLE
  stage    \* what comes next: "databases", "storage", "cache", "bootstrap", "serve",
           \* "destroy cache", "destroy storage" and "down"

serviceVars == <<stage, connectionVars, schedulerVars>>

Goto(next) == stage' = next
Stay == UNCHANGED stage

\* A module's own tokens are resolved and initialised one after the other.
InitHooks ==
  /\ UNCHANGED schedulerVars
  /\ \/ stage = "databases" /\ EstablishConnection /\ Stay
     \/ /\ stage = "databases" /\ (databaseAt > Len(Databases) \/ thrown)
        /\ Goto("storage") /\ UNCHANGED connectionVars
     \/ stage = "storage" /\ CreateConnectionMap("own") /\ Goto("cache")
     \/ /\ stage = "storage" /\ Duplicates
        /\ Goto("cache") /\ UNCHANGED connectionVars
     \/ stage = "cache" /\ CreateCache("own") /\ Goto("bootstrap")

\* The crons are discovered, and the application serves however that ends.
BootstrapHooks ==
  /\ UNCHANGED connectionVars
  /\ \/ stage = "bootstrap" /\ Discover /\ Stay
     \/ /\ stage = "bootstrap" /\ discovery \in {"done", "failed"}
        /\ Goto("serve") /\ UNCHANGED schedulerVars

\* A consumer that sees them as global only is resolved: the global container has instances
\* of its own.
UseGlobals ==
  /\ UsedGlobally /\ stage \in {"bootstrap", "serve"}
  /\ CreateConnectionMap("global") \/ CreateCache("global")
  /\ Stay /\ UNCHANGED schedulerVars

\* Bound: a connection is asked for until the crons are discovered; later asks differ in
\* nothing.
UseServices ==
  /\ Stay
  /\ \/ /\ stage \in {"databases", "storage"}
        /\ \E d \in {Databases[i] : i \in DOMAIN Databases} : GetConnection(d.type, d.name)
        /\ UNCHANGED schedulerVars
     \/ stage \in {"bootstrap", "serve"} /\ UseScheduler /\ UNCHANGED connectionVars

\* onModuleDestroy() of the instances, the last one that was made first; the error of one
\* does not keep the next from being called.
DestroyHooks ==
  /\ UNCHANGED schedulerVars
  /\ \/ stage = "serve" /\ Goto("destroy cache") /\ UNCHANGED connectionVars
     \/ stage = "destroy cache" /\ DisconnectCache /\ Goto("destroy storage")
     \/ stage = "destroy storage" /\ DestroyStorage /\ Goto("down")

ServicesInit == stage = "databases" /\ ConnectionsInit /\ SchedulerInit

ServicesNext == InitHooks \/ BootstrapHooks \/ UseGlobals \/ UseServices \/ DestroyHooks

ServicesSpec == ServicesInit /\ [][ServicesNext]_serviceVars
=============================================================================
