----------------------------- MODULE Delivery ------------------------------
(***************************************************************************)
(* What the queues of the framework promise about a message, whoever keeps *)
(* it: RabbitMQ for RmqServer and for the AMQP patterns, Deno KV for       *)
(* KvQueueListener.  Delivery is at least once: a message that was         *)
(* accepted goes back to its queue as often as it takes, it goes for good  *)
(* only from the hands of its consumer and once the consumer has decided,  *)
(* and what is gone is never delivered again.  Nothing of the kind is      *)
(* promised for a queue that is deleted with the channel of its consumer.  *)
(***************************************************************************)
CONSTANTS
  Messages,
  Unwanted    \* messages that may go without a consumer, which have none

VARIABLES
  place,      \* message -> "new", "out" (never accepted), "waiting", "held" or "gone"
  consumer,   \* message -> "none", "running" or "over", for its latest run
  volatile    \* messages whose queue lasts no longer than its consumer's channel

deliveryVars == <<place, consumer, volatile>>

At(somewhere) == {m \in Messages : place[m] = somewhere}

\* Some messages wait from the start: somebody else has sent them.
DeliveryInit ==
  /\ place \in [Messages -> {"new", "waiting"}]
  /\ consumer = [m \in Messages |-> "none"]
  /\ volatile \subseteq Messages

Accept(m) ==
  /\ place[m] = "new"
  /\ place' = [place EXCEPT ![m] = "waiting"]
  /\ UNCHANGED consumer

\* A lost connection takes every message on its way.
Refuse(S) ==
  /\ place' = [m \in Messages |-> IF m \in S THEN "out" ELSE place[m]]
  /\ UNCHANGED consumer

Start(m) ==
  /\ place[m] = "waiting"
  /\ place' = [place EXCEPT ![m] = "held"]
  /\ consumer' = [consumer EXCEPT ![m] = "running"]

\* A message that cannot be read is held, and no consumer runs.
Keep(m) ==
  /\ place[m] = "waiting"
  /\ place' = [place EXCEPT ![m] = "held"]
  /\ UNCHANGED consumer

Drop(m) ==
  /\ m \in Unwanted
  /\ place[m] = "waiting"
  /\ place' = [place EXCEPT ![m] = "gone"]
  /\ consumer' = [consumer EXCEPT ![m] = "over"]

\* A run ends whose message was given back meanwhile, or that is not acknowledged yet.
Decide(m) ==
  /\ consumer[m] # "none"
  /\ consumer' = [consumer EXCEPT ![m] = "over"]
  /\ UNCHANGED place

Settle(m) ==
  /\ place[m] = "held"
  /\ consumer[m] # "none"
  /\ place' = [place EXCEPT ![m] = "gone"]
  /\ consumer' = [consumer EXCEPT ![m] = "over"]

\* A channel or a handle closes: everything on it goes back, but for what was in
\* queues that are deleted with it.
Release(S, deleted) ==
  /\ place' = [m \in Messages |-> IF m \in deleted THEN "out"
                                 ELSE IF m \in S THEN "waiting" ELSE place[m]]
  /\ UNCHANGED consumer

DeliveryNext ==
  /\ UNCHANGED volatile
  /\ \/ \E m \in Messages : Accept(m) \/ Start(m) \/ Keep(m) \/ Drop(m) \/ Decide(m) \/ Settle(m)
     \/ \E S \in SUBSET At("new") : Refuse(S)
     \/ \E S \in SUBSET At("held") :
          \E deleted \in SUBSET (volatile \cap (S \cup At("waiting"))) : Release(S, deleted)

DeliverySpec == DeliveryInit /\ [][DeliveryNext]_deliveryVars
=============================================================================
