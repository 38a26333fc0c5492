--------------------------- MODULE MCModuleGraph ---------------------------
(***************************************************************************)
(* An instance of ModuleGraph for TLC: every graph of four modules whose   *)
(* imports go downwards, with or without an edge back up; the last two may *)
(* be one class configured twice, the last one may be global, and the      *)
(* third may export again what it imports.  Further graphs configure the   *)
(* modules of the packages, in the ways that their documents show.         *)
(***************************************************************************)
EXTENDS ModuleGraph, Integrations

Sorted(ds) == SetToSortSeq(ds, LAMBDA a, b : a < b)

Family ==
  {[d \in 1..4 |->
     CASE d = 1 -> Plain("App", <<Provider("use", <<"db">>)>>, Sorted(i1), <<"use">>, FALSE)
       [] d = 2 -> [Plain("Web", <<Provider("page", <<"log">>)>>, Sorted(i2), <<>>, FALSE)
                     EXCEPT !.needs["Web"] = <<"page">>]
       [] d = 3 -> Plain("Db", <<Provider("db", <<>>)>>, Sorted(i3), <<"db">> \o again, FALSE)
       [] d = 4 -> Plain(last, IF last = "Db" THEN <<Provider("db", <<>>)>>
                               ELSE <<Alias("journal", "log"), Provider("log", <<"id">>), Provider("id", <<>>),
                                    Provider("req", <<>>)>>,
                         Sorted(i4), <<"db", "log", "journal">>, all)] :
    i1 \in SUBSET {2, 3, 4}, i2 \in SUBSET {3, 4}, i3 \in SUBSET {4}, i4 \in {{}, {2}},
    last \in {"Db", "Log"}, all \in BOOLEAN, again \in {<<>>, <<"log">>}}

Form(inject, imports, global, clients, serializer, extra) ==
  [inject |-> inject, imports |-> imports, global |-> global, clients |-> clients,
   serializer |-> serializer, extra |-> extra]

\* `module` is configured and `offers` is used by the application and, when it is global,
\* by another module; but not when it is global and imports what it needs, which the
\* global container does not see (GlobalIsEverywhere is about that).
Using(module, offers, config) ==
  [d \in 1..4 |->
     CASE d = 1 -> Plain("App", <<Provider("use", <<offers>>)>>, <<4, 3, 2>>, <<>>, FALSE)
       [] d = 2 -> module
       [] d = 3 -> Plain("Config", <<Provider("config", <<>>)>>, <<>>, <<"config">>, config)
       [] d = 4 -> Plain("Web", <<Provider("page", IF module.global /\ module.imports = <<>> THEN <<offers>> ELSE <<>>)>>,
                         <<>>, <<>>, FALSE)]

\* By value, or by a factory that a module configures, which is imported or global.
Injections == {<< <<>>, <<>>, FALSE>>, << <<"config">>, <<3>>, FALSE>>, << <<"config">>, <<>>, TRUE>>}

Packages ==
  {Using(AmqpModule(Form(i[1], i[2], global, <<"orders">>, s, <<>>)), offers, i[3]) :
     i \in Injections, global \in BOOLEAN, s \in {""}, offers \in {"AmqpConnection", "orders"}}
  \cup {Using(AmqpModule(Form(<<>>, <<>>, global, <<"orders">>, "text",
                              <<Provider("text", <<>>)>> \o extra)), "orders", FALSE) :
          global \in BOOLEAN, extra \in {<<>>, <<Provider("AMQP_SERIALIZER", <<>>)>>}}
  \cup {Using(KvModule(Form(i[1], i[2], FALSE, <<>>, "", <<>>)), offers, i[3]) :
          i \in Injections, offers \in {"KvConnections", "KvQueue"}}
  \cup {Using(S3Module(Form(i[1], i[2], global, <<>>, "", <<>>)), "StorageConnections", i[3]) :
          i \in Injections, global \in BOOLEAN}
  \cup {Using(JwtModule(Form(i[1], i[2], global, <<>>, "", <<>>)), offers, i[3]) :
          i \in Injections, global \in BOOLEAN, offers \in {"JwkService", "JwtService"}}
  \cup {Using(CachingModule(Form(i[1], i[2], global, <<>>, "", <<>>)), "CACHE_MANAGER", i[3]) :
          i \in Injections, global \in BOOLEAN}
  \cup {Using(DrizzleOrmModule(Form(i[1], <<>>, FALSE, <<>>, "", <<>>)), "DrizzleService", i[3]) :
          i \in {j \in Injections : j[2] = <<>>}}
  \cup {Using(ClientsModule(Form(<<>>, <<>>, FALSE, <<"orders", "mails">>, "", <<>>)), c, FALSE) :
          c \in {"orders", "mails"}}
  \cup {Using(ScheduleModule, "SchedulerRegistry", FALSE)}

\* Used without options, which are asked for in vain or not at all, a class that is no
\* module, and two modules that export one token, the first without what it needs, which
\* the second one has.
Others ==
  {[d \in 1..4 |->
      CASE d = 1 -> Plain("App", <<Provider("use", <<"db">>)>>, <<2, 3>>, <<"use">>, FALSE)
        [] d = 2 -> Plain("Store", <<Provider("db", <<"log">>)>>, <<>>, <<"db">>, FALSE)
        [] d = 3 -> Plain("Db", <<Provider("db", <<"log">>)>>, <<4>>, <<"db">>, FALSE)
        [] d = 4 -> Plain("Log", <<Provider("log", <<"id">>), Provider("id", <<>>)>>, <<>>, <<"log">>, FALSE)],
   Using(Plain("JwtModule", <<Provider("JwtService", <<"JWT_MODULE_OPTIONS">>)>>, <<>>,
               <<"JwtService">>, FALSE), "JwtService", FALSE),
   Using(KvModule(Form(<<"config">>, <<>>, FALSE, <<>>, "", <<>>)), "KvQueue", FALSE),
   Using([ScheduleModule EXCEPT !.decorated = FALSE], "SchedulerRegistry", FALSE)}

MCGraphs == Family \cup Packages \cup Others
MCTokens == {"App", "Web", "use", "page", "db", "log", "id", "journal", "req", "config", "ExceptionHandler"}
MCBroken == {{}, {"db"}, {"Log"}}
=============================================================================
