---------------------------- MODULE MCLifecycle ----------------------------
(***************************************************************************)
(* Instances of Lifecycle for TLC: two providers, one of the root module   *)
(* and one it imports, and the calls that race.                            *)
(***************************************************************************)
EXTENDS Lifecycle, TLC

TwoProviders == <<"root", "imported">>
OneImported == <<"imported">>

\* Every hook may throw except the one that precedes the shutdown.
LateFaults == {"bootstrap", "destroy", "shutdown"} \X {"root", "imported"}
HttpFaults == {"bootstrap", "destroy"} \X {"root"}
ServerFaults ==
  {"bootstrap"} \X {"root", "imported"} \cup {<<"destroy", "imported">>, <<"shutdown", "root">>}
BeforeFaults == {<<"before", "root">>}

Scenario(kind, ops, servers, faults) ==
  [app |-> kind, op |-> ops, servers |-> servers, faulty |-> faults]

MCScenarios ==
  {Scenario("http", <<"listen", "listen", "close", "close">>, <<>>, HttpFaults),
   Scenario("http", <<"init", "listen", "start">>, <<"a", "b">>, LateFaults),
   Scenario("rmq", <<"init", "listen", "close", "run">>, <<>>, ServerFaults),
   Scenario("tcp", <<"listen", "listen", "close">>, <<>>, {}),
   Scenario("plain", <<"init", "close", "close">>, <<>>, BeforeFaults)}
=============================================================================
