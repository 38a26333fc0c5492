----------------------------- MODULE MCKvQueue -----------------------------
(***************************************************************************)
(* An instance of KvQueue for TLC: two connections, one of them a queue;   *)
(* a method for one id, a pattern with the flag g and one without.         *)
(***************************************************************************)
EXTENDS KvQueue, TLC

CONSTANTS m1, m2, m3

MCNames == <<"main", "jobs">>
MCHandlers ==
  << [class |-> "jobs", name |-> "jobs", match |-> {"mail"}, global |-> TRUE],
     [class |-> "jobs", name |-> "jobs", match |-> {"log"}, global |-> FALSE],
     [class |-> "main", name |-> "main", match |-> {"log"}, global |-> FALSE],
     [class |-> "jobs", name |-> "main", match |-> {"mail"}, global |-> FALSE] >>
MCTo == [m \in Messages |-> "jobs"]
MCEvent == [m \in Messages |-> IF m = m2 THEN "log" ELSE "mail"]
=============================================================================
