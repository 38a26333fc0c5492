---------------------------- MODULE Connections ----------------------------
(***************************************************************************)
(* What the service modules hold open for the application: the database    *)
(* connections of drizzle/drizzle_service.ts, the storage clients of       *)
(* s3/connections.ts and the cache of caching/module.ts, from their        *)
(* onModuleInit() to their onModuleDestroy().  The errors of onModuleInit  *)
(* are dropped by InjectorContext.create(), which goes on.                 *)
(***************************************************************************)
EXTENDS Naturals, Sequences

CONSTANTS
  Databases,     \* options of DrizzleOrmModule: [type, name, pool : BOOLEAN]
  StorageOptions,\* the sequences of names that S3Module may be given connections of
  UsedGlobally,  \* S3Module and CachingModule are global, and used where they are not imported
  Packages       \* packages that may or may not be installed: the types, and "pg"

ASSUME DatabaseAssumption == Databases \in Seq({Databases[i] : i \in DOMAIN Databases})

VARIABLES
  installed,     \* packages that can be imported
  databaseAt,    \* the option that onModuleInit() is at
  thrown,        \* it has thrown
  factories,     \* type -> the package whose drizzle() was kept
  connections,   \* [type, name] -> [driver, option]
  handed,        \* what was handed out last: [type, name, connection], in a set
  storageNames,  \* the names of S3Module's connections
  storage,       \* container of an instance -> names of its clients, not destroyed yet
  cache          \* container of an instance -> "open" or "closed"

connectionVars == <<installed, databaseAt, thrown, factories, connections, handed,
                    storageNames, storage, cache>>

-----------------------------------------------------------------------------
(* DrizzleService.                                                         *)

\* Faulty variant: the first driver that was imported is used for all types.
MutFactory(option) ==
  IF DOMAIN factories # {} THEN {factories[t] : t \in DOMAIN factories}
                           ELSE {option.type} \cap installed

\* getDrizzleFactory(): the package of the type, imported once; none if it cannot be.
Factory(option) ==
  IF option.type \in DOMAIN factories THEN {factories[option.type]}
                                      ELSE {option.type} \cap installed

\* One round of onModuleInit(): a package that is missing ends it, and so does a driver or
\* a pool that throws; what was established before stays.  The last connection of a name
\* takes the place of others.
EstablishConnection ==
  LET option == Databases[databaseAt] IN
  /\ databaseAt \in DOMAIN Databases /\ ~thrown
  /\ factories' = [t \in DOMAIN factories \cup {u \in {option.type} : Factory(option) # {}} |->
                     IF t = option.type THEN CHOOSE p \in Factory(option) : TRUE
                                        ELSE factories[t]]
  /\ \/ thrown' = TRUE /\ UNCHANGED <<databaseAt, connections>>
     \/ /\ Factory(option) # {} /\ (option.pool => "pg" \in installed)
        /\ databaseAt' = databaseAt + 1 /\ UNCHANGED thrown
        /\ connections' = [k \in DOMAIN connections \cup {<<option.type, option.name>>} |->
             IF k = <<option.type, option.name>>
             THEN [driver |-> factories'[option.type], option |-> databaseAt]
             ELSE connections[k]]
  /\ UNCHANGED <<installed, storageNames, handed, storage, cache>>

\* pg() and sqlite(): the connection of a name, or an error that changes nothing.
GetConnection(type, name) ==
  /\ <<type, name>> \in DOMAIN connections
  /\ handed' = {[type |-> type, name |-> name, connection |-> connections[<<type, name>>]]}
  /\ UNCHANGED <<installed, storageNames, databaseAt, thrown, factories, connections, storage, cache>>

-----------------------------------------------------------------------------
(* StorageConnections and CachingModule.                                   *)

NamesOf(names) == {names[i] : i \in DOMAIN names}

Duplicates == \E i, j \in DOMAIN storageNames : i # j /\ storageNames[i] = storageNames[j]

\* createConnectionMap() makes the clients in order, and throws at a name that it has:
\* no instance is made then, and the clients before it are out of reach.
CreateConnectionMap(container) ==
  /\ container \notin DOMAIN storage /\ ~Duplicates
  /\ storage' = [c \in DOMAIN storage \cup {container} |->
                   IF c = container THEN NamesOf(storageNames) ELSE storage[c]]
  /\ UNCHANGED <<installed, storageNames, databaseAt, thrown, factories, connections, handed, cache>>

\* StorageConnections.onModuleDestroy() destroys every client: that of the instance in the
\* module's own container, not of the one that a global module has in the global container.
DestroyStorage ==
  /\ storage' = [c \in DOMAIN storage |-> IF c = "own" THEN {} ELSE storage[c]]
  /\ UNCHANGED <<installed, storageNames, databaseAt, thrown, factories, connections, handed, cache>>

CacheBecomes(container, state) ==
  cache' = [c \in DOMAIN cache \cup {container} |-> IF c = container THEN state ELSE cache[c]]

\* CachingModule.onModuleInit() resolves the cache of its container; the factory may throw.
CreateCache(container) ==
  /\ container \notin DOMAIN cache
  /\ UNCHANGED cache \/ CacheBecomes(container, "open")
  /\ UNCHANGED <<installed, storageNames, databaseAt, thrown, factories, connections, handed, storage>>

\* CachingModule.onModuleDestroy() resolves it again, and makes it then if it failed
\* before, when it may fail again; disconnect() may reject, and leaves it open.
DisconnectCache ==
  /\ UNCHANGED cache \/ \E state \in {"open", "closed"} : CacheBecomes("own", state)
  /\ UNCHANGED <<installed, storageNames, databaseAt, thrown, factories, connections, handed, storage>>

ConnectionsInit ==
  /\ installed \in SUBSET Packages
  /\ databaseAt = 1 /\ thrown = FALSE /\ factories = <<>> /\ connections = <<>> /\ handed = {}
  /\ storageNames \in StorageOptions /\ storage = <<>> /\ cache = <<>>

-----------------------------------------------------------------------------
\* Safety.  A connection that is handed out belongs to an option of the type and the name
\* it was asked for, and was made by that type's driver, whichever packages are missing
\* and whatever throws; and the one that is handed out next is that of the last option
\* with the name that onModuleInit() has reached, also when it ended early.
OwnConnections ==
  /\ \A h \in handed :
       LET option == Databases[h.connection.option] IN
       <<option.type, option.name, h.connection.driver>> = <<h.type, h.name, h.type>>
  /\ \A k \in DOMAIN connections, i \in DOMAIN Databases :
       /\ i > connections[k].option
       /\ <<Databases[i].type, Databases[i].name>> = k
       => i >= databaseAt
=============================================================================
