----------------------------- MODULE MCAmqpRpc -----------------------------
(***************************************************************************)
(* Instances of AmqpRpc for TLC: two calls, and the consumers of an        *)
(* application, with one disturbance at most.                              *)
(***************************************************************************)
EXTENDS AmqpRpc, TLC

CONSTANTS c1, c2, x

App(first, second, raw, patterns, unnamed, limit, n) ==
  [client |-> c1 :> first @@ c2 :> second, bytes |-> raw, bindings |-> patterns,
   anonymous |-> unnamed, timeout |-> limit, disturbances |-> n]

MCScenarios ==
  { App("rpc", "rpc", {}, <<"rpc">>, {}, TRUE, 1),              \* one client, two requests
    App("rpc", "worker", {c2}, <<"rpc">>, {}, FALSE, 0),        \* two clients, no timeout
    App("pub-sub", "pub-sub", {c2}, <<"pub-sub">>, {}, TRUE, 1),
    App("topic", "topic", {c2}, <<"topic">>, {"topic"}, TRUE, 1),  \* an anonymous queue
    App("worker", "worker", {c2}, <<"worker", "worker">>, {}, TRUE, 1) }  \* two consumers
=============================================================================
