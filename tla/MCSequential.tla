---------------------------- MODULE MCSequential ----------------------------
(***************************************************************************)
(* An instance for TLC of the components whose steps do not overlap:       *)
(* CommandLine, Logger, and the service modules of an application.  They   *)
(* share nothing, so each is run while the others stand still.  Of the     *)
(* databases two have one type and name, and the third has the name; a     *)
(* cron method has a name that the application uses too.                   *)
(***************************************************************************)
EXTENDS MCCommandLine, Logger, Services

MCLoggers == {"static", "json"}
MCLoggerOptions ==
  [l \in MCLoggers |-> [json |-> l = "json", timestamp |-> l = "static", label |-> "",
                        levels |-> {"log", "warn", "error", "fatal"}]]
MCLabels == {"a", "b"}
MCLevelLists == {{"debug", "error"}}
MCArguments == {[kind |-> "text", text |-> "x"],
                [kind |-> "stack", text |-> "s"], [kind |-> "object", text |-> "o"]}

Database(type, name, pool) == [type |-> type, name |-> name, pool |-> pool]
MCDatabases == <<Database("sqlite", "a", FALSE), Database("postgres", "a", TRUE),
                 Database("sqlite", "a", FALSE)>>
MCStorageNames == <<"default", "other">>
MCStorageOptions == {MCStorageNames, <<"default", "default">>}
MCCronProviders == << <<"x">>, <<>>, <<"z", "y">> >>

VARIABLE part   \* the one that is run

SequentialInit ==
  /\ part \in {"command line", "logger", "services"}
  /\ Init /\ LoggerInit /\ ServicesInit
  /\ part # "command line" => argv = <<>>
  /\ part # "services" => installed = {} /\ storageNames = MCStorageNames

SequentialNext ==
  /\ UNCHANGED part
  /\ \/ part = "command line" /\ Next /\ UNCHANGED <<loggerVars, serviceVars>>
     \/ part = "logger" /\ LoggerNext /\ UNCHANGED <<vars, serviceVars>>
     \/ part = "services" /\ ServicesNext /\ UNCHANGED <<vars, loggerVars>>

SequentialSpec ==
  SequentialInit /\ [][SequentialNext]_<<part, vars, loggerVars, serviceVars>>
=============================================================================
