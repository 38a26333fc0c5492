----------------------------- MODULE Scheduler -----------------------------
(***************************************************************************)
(* The scheduler: the discovery of cron methods at onApplicationBootstrap  *)
(* (schedule/_explorer.ts) and the registry of jobs and timers that the    *)
(* application changes meanwhile (schedule/registry.ts).                   *)
(***************************************************************************)
EXTENDS Naturals, Sequences, FiniteSets, SequencesExt

CONSTANTS
  CronProviders,  \* sequence of sequences: the names of each provider's cron methods
  CronNames,      \* names of cron jobs
  TimerNames,     \* names of intervals and timeouts
  MaxJobs         \* bound: jobs and timers that are ever started

ASSUME CronAssumption ==
  /\ \A p \in DOMAIN CronProviders : CronProviders[p] \in Seq(Range(CronProviders[p]))
  /\ MaxJobs \in Nat

VARIABLES
  providerAt,     \* provider that discovery is at
  discovery,      \* "idle", "running", "done" or "failed"
  cronJobs,       \* name -> job in the registry
  running,        \* jobs that Deno runs: [name, id, own]; own jobs are the application's
  timers,         \* <<kind, name>> -> timer in the registry
  ticking,        \* timers that are set: [kind, name, id, added]
  started         \* jobs and timers that were started

schedulerVars == <<providerAt, discovery, cronJobs, running, timers, ticking, started>>

With(f, k, v) == [x \in DOMAIN f \cup {k} |-> IF x = k THEN v ELSE f[x]]
Without(f, k) == [x \in DOMAIN f \ {k} |-> f[x]]

\* onApplicationBootstrap().
Bootstrap ==
  /\ discovery = "idle" /\ discovery' = "running"
  /\ UNCHANGED <<providerAt, cronJobs, running, timers, ticking, started>>

\* Deno.cron() refuses the name of a running job, and of an earlier method of the provider;
\* the registry refuses a name that it has.
DenoRefuses(names, i) == \/ \E j \in running : j.name = names[i]
                         \/ \E k \in 1..(i - 1) : names[k] = names[i]
RegistryRefuses(names, i) == names[i] \in DOMAIN cronJobs

\* What is refused throws: the methods after it are not scheduled.
Stops(names) == {i \in DOMAIN names : DenoRefuses(names, i) \/ RegistryRefuses(names, i)}

\* The methods whose job starts, also when the registry refuses it then, and of them those
\* that the registry takes.
Begun(names) == {i \in DOMAIN names : ~DenoRefuses(names, i) /\ \A s \in Stops(names) : i <= s}
Kept(names) == Begun(names) \ Stops(names)

\* One provider's methods, after its instance was resolved.
DiscoverProvider ==
  LET names == CronProviders[providerAt]
      Job(i) == [name |-> names[i], id |-> started + i, own |-> FALSE]
      kept == Kept(names) IN
  /\ discovery = "running" /\ providerAt \in DOMAIN CronProviders
  /\ started' = started + Cardinality(Begun(names))
  /\ started' <= MaxJobs
  /\ running' = running \cup {Job(i) : i \in Begun(names)}
  /\ cronJobs' = [name \in DOMAIN cronJobs \cup {names[i] : i \in kept} |->
                    IF name \in DOMAIN cronJobs THEN cronJobs[name]
                    ELSE Job(CHOOSE i \in kept : names[i] = name)]
  /\ discovery' = IF Stops(names) = {} THEN "running" ELSE "failed"
  /\ providerAt' = providerAt + 1
  /\ UNCHANGED <<timers, ticking>>

\* The instance of a provider cannot be resolved, or Deno.cron() refuses a schedule.
DiscoveryFails ==
  /\ discovery = "running" /\ discovery' = "failed"
  /\ UNCHANGED <<providerAt, cronJobs, running, timers, ticking, started>>

DiscoveryEnds ==
  /\ discovery = "running" /\ providerAt > Len(CronProviders) /\ discovery' = "done"
  /\ UNCHANGED <<providerAt, cronJobs, running, timers, ticking, started>>

-----------------------------------------------------------------------------
(* The application's own calls.                                            *)

\* Deno.cron() and addCronJob(); the job runs on when the registry refuses it.
AddCronJob(name) ==
  LET job == [name |-> name, id |-> started + 1, own |-> TRUE] IN
  /\ started < MaxJobs /\ \A j \in running : j.name # name
  /\ started' = started + 1 /\ running' = running \cup {job}
  /\ cronJobs' = IF name \in DOMAIN cronJobs THEN cronJobs ELSE With(cronJobs, name, job)
  /\ UNCHANGED <<providerAt, discovery, timers, ticking>>

\* Faulty variant: the job is taken out of the registry only.
MutAborted(name) == running

\* CronJobRef.deleteCronJob() aborts the job.
Aborted(name) == running \ {cronJobs[name]}

\* SchedulerRegistry.deleteCronJob(), or deleteCronJob() of the reference, which stays.
DeleteCronJob(name) ==
  /\ name \in DOMAIN cronJobs
  /\ running' = Aborted(name)
  /\ cronJobs' \in {cronJobs, Without(cronJobs, name)}
  /\ UNCHANGED <<providerAt, discovery, timers, ticking, started>>

\* addInterval() and addTimeout() of a timer that the application has set.
AddTimer(kind, name) ==
  LET added == <<kind, name>> \notin DOMAIN timers
      timer == [kind |-> kind, name |-> name, id |-> started + 1, added |-> added] IN
  /\ started < MaxJobs /\ started' = started + 1
  /\ ticking' = ticking \cup {timer}
  /\ timers' = IF added THEN With(timers, <<kind, name>>, timer) ELSE timers
  /\ UNCHANGED <<providerAt, discovery, cronJobs, running>>

\* deleteInterval() and deleteTimeout().
DeleteTimer(kind, name) ==
  /\ <<kind, name>> \in DOMAIN timers
  /\ ticking' = ticking \ {timers[<<kind, name>>]}
  /\ timers' = Without(timers, <<kind, name>>)
  /\ UNCHANGED <<providerAt, discovery, cronJobs, running, started>>

\* A timeout fires: the registry keeps it.
Fire(timer) ==
  /\ timer.kind = "timeout" /\ ticking' = ticking \ {timer}
  /\ UNCHANGED <<providerAt, discovery, cronJobs, running, timers, started>>

SchedulerInit ==
  /\ providerAt = 1 /\ discovery = "idle" /\ cronJobs = <<>> /\ running = {}
  /\ timers = <<>> /\ ticking = {} /\ started = 0

Discover == Bootstrap \/ DiscoverProvider \/ DiscoveryFails \/ DiscoveryEnds

UseScheduler ==
  \/ \E name \in CronNames : AddCronJob(name) \/ DeleteCronJob(name)
  \/ \E kind \in {"interval", "timeout"}, name \in TimerNames :
       AddTimer(kind, name) \/ DeleteTimer(kind, name)
  \/ \E timer \in ticking : Fire(timer)

-----------------------------------------------------------------------------
\* Safety.  What the framework started, or accepted, can be stopped by its name: a job
\* of a cron method that runs is in the registry, except for one when discovery failed on
\* its name, and a timer that was added and still ticks is there until it is deleted.
Stoppable ==
  LET lost == {j \in running : ~j.own /\ (j.name \in DOMAIN cronJobs => cronJobs[j.name] # j)} IN
  /\ Cardinality(lost) <= (IF discovery = "failed" THEN 1 ELSE 0)
  /\ \A t \in ticking : t.added =>
       <<t.kind, t.name>> \in DOMAIN timers /\ timers[<<t.kind, t.name>>] = t
=============================================================================
