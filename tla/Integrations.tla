---------------------------- MODULE Integrations ----------------------------
(***************************************************************************)
(* The modules that the packages offer, as what ModuleCompiler makes of    *)
(* them (resolveModule() joins the metadata of @Module() with that of the  *)
(* dynamic module that forRoot() or register() returns).  ModuleGraph      *)
(* starts from graphs that hold them.                                      *)
(*                                                                         *)
(* A form is what such a method is called with: [inject, imports, global,  *)
(* clients, serializer, extra].  With forRoot() its `inject` is empty, as  *)
(* the options are a value.                                                *)
(***************************************************************************)
EXTENDS Naturals, Sequences, SequencesExt, Functions

\* A provider, and the tokens of its factory or of its class's fields.
Provider(token, needs) == [token |-> token, needs |-> needs, alias |-> FALSE]

\* useExisting: another name of what the target yields.
Alias(token, target) == [token |-> token, needs |-> <<target>>, alias |-> TRUE]

Distinct(tokens) == FoldLeft(LAMBDA acc, t : IF Contains(acc, t) THEN acc ELSE Append(acc, t),
                             <<>>, tokens)

\* The last provider of a token is the one that is registered.
LastOf(providers, token) ==
  providers[CHOOSE i \in DOMAIN providers :
              providers[i].token = token /\ \A j \in i + 1..Len(providers) : providers[j].token # token]

\* A module of `static` providers with those of the options.  Without a static `exports`
\* in the metadata, and no @Global() on any of these classes.
Merged(class, static, added, imports, exports, global) ==
  LET providers == static \o added
      tokens == Distinct([i \in DOMAIN providers |-> providers[i].token]) IN
  [class |-> class, imports |-> imports, providers |-> tokens, exports |-> Range(exports),
   global |-> global, decorated |-> TRUE,
   needs |-> [t \in Range(tokens) \cup {class} |->
                IF t = class THEN <<>> ELSE LastOf(providers, t).needs],
   aliases |-> {t \in Range(tokens) : LastOf(providers, t).alias}]

\* A module class without options.
Plain(class, providers, imports, exports, global) ==
  Merged(class, providers, <<>>, imports, exports, global)

-----------------------------------------------------------------------------
\* createSerializerProvider() and createClientProvider(): a class serializer is an alias
\* of a provider of its own, anything else comes with the options.
SerializerProvider(form) ==
  IF form.serializer = "" THEN Provider("AMQP_SERIALIZER", <<"AMQP_MODULE_OPTIONS">>)
                          ELSE Alias("AMQP_SERIALIZER", form.serializer)

AmqpModule(form) ==
  Merged("AmqpModule",
         <<Provider("AmqpConnection", <<"AMQP_MODULE_OPTIONS", "AMQP_SERIALIZER">>),
           Provider("AmqpExplorer", <<"ExceptionHandler", "AMQP_MODULE_OPTIONS", "AMQP_SERIALIZER">>)>>,
         <<Provider("AMQP_MODULE_OPTIONS", form.inject), SerializerProvider(form)>>
           \o [i \in DOMAIN form.clients |-> Provider(form.clients[i], <<"AmqpConnection">>)]
           \o form.extra,
         form.imports, <<"AmqpConnection">> \o form.clients, form.global)

KvModule(form) ==
  Merged("KvModule",
         <<Provider("KvConnections", <<"KV_MODULE_OPTIONS", "ExceptionHandler">>),
           Provider("KvQueueListener", <<"ExceptionHandler">>),
           Provider("KvQueue", <<"KvConnections">>)>>,
         <<Provider("KV_MODULE_OPTIONS", form.inject)>>,
         form.imports, <<"KvConnections", "KvQueue">>, FALSE)

S3Module(form) ==
  Merged("S3Module", <<Provider("StorageConnections", <<"S3_MODULE_OPTIONS">>)>>,
         <<Provider("S3_MODULE_OPTIONS", form.inject)>> \o form.extra,
         form.imports, <<"StorageConnections">>, form.global)

JwtModule(form) ==
  Merged("JwtModule",
         <<Provider("JwkService", <<>>), Provider("JwtService", <<"JWT_MODULE_OPTIONS">>)>>,
         <<Provider("JWT_MODULE_OPTIONS", form.inject)>> \o form.extra,
         form.imports, <<"JwkService", "JwtService">>, form.global)

\* The field of JwtService that may stay empty.
OptionalNeeds == {<<"JwtService", "JWT_MODULE_OPTIONS">>}

CachingModule(form) ==
  Merged("CachingModule", <<>>,
         <<Provider("CACHING_MODULE_OPTIONS", form.inject),
           Provider("CACHE_MANAGER", <<"CACHING_MODULE_OPTIONS">>)>> \o form.extra,
         form.imports, <<"CACHE_MANAGER">>, form.global)

\* registerAsync() hands no imports on.
DrizzleOrmModule(form) ==
  Merged("DrizzleOrmModule", <<>>,
         <<Provider("DRIZZLE_CONNECTION_OPTIONS", form.inject), Provider("DrizzleGenerateCommand", <<>>),
           Provider("DrizzleMigrateCommand", <<>>),
           Provider("DrizzleService", <<"DRIZZLE_CONNECTION_OPTIONS">>)>>,
         <<>>, <<"DrizzleService", "DrizzleGenerateCommand", "DrizzleMigrateCommand">>, FALSE)

ClientsModule(form) ==
  Merged("ClientsModule", <<>>, [i \in DOMAIN form.clients |-> Provider(form.clients[i], <<>>)],
         <<>>, form.clients, FALSE)

ScheduleModule ==
  Plain("ScheduleModule",
        <<Provider("SchedulerRegistry", <<>>), Provider("ScheduleExplorer", <<"SchedulerRegistry">>)>>,
        <<>>, <<"SchedulerRegistry">>, FALSE)
=============================================================================
