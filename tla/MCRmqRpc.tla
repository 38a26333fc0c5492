------------------------------ MODULE MCRmqRpc ------------------------------
(***************************************************************************)
(* An instance of RmqRpc for TLC: a request and an event, with a close()   *)
(* at either end; and beside two messages that nobody can read, which fill *)
(* a prefetch window of two.                                               *)
(***************************************************************************)
EXTENDS RmqRpc

CONSTANTS r1, e1, p1, p2

Scenario(unreadable, closes) ==
  [poison |-> unreadable, budget |-> [listen |-> 2, stop |-> 1, close |-> closes, loss |-> 1]]
MCScenarios == {Scenario({}, 1), Scenario({p1, p2}, 0)}
=============================================================================
