-------------------------------- MODULE Rpc --------------------------------
(***************************************************************************)
(* What ClientProxy.send() promises to its caller, whatever the transport  *)
(* (packages/core/microservices/client_proxy.ts: "Sends a message and      *)
(* awaits a response"): the handler runs at most once for a request, the   *)
(* promise settles at most once, and it resolves only with what the        *)
(* handler returned for this very request.                                 *)
(***************************************************************************)
CONSTANT Requests

VARIABLES
  phase,     \* request -> what its caller sees of the promise
  outcome    \* request -> "none", or what the handler did with it

rpcVars == <<phase, outcome>>

RpcInit ==
  /\ phase = [r \in Requests |-> "idle"]
  /\ outcome = [r \in Requests |-> "none"]

Call(r) ==
  /\ phase[r] = "idle"
  /\ phase' = [phase EXCEPT ![r] = "asked"]
  /\ UNCHANGED outcome

\* The handler starts on a request its caller may already have given up.
Begin(r) ==
  /\ phase[r] # "idle"
  /\ outcome[r] = "none"
  /\ outcome' = [outcome EXCEPT ![r] = "running"]
  /\ UNCHANGED phase

Finish(r) ==
  /\ outcome[r] = "running"
  /\ \E how \in {"returned", "threw"} : outcome' = [outcome EXCEPT ![r] = how]
  /\ UNCHANGED phase

Resolve(r) ==
  /\ phase[r] = "asked"
  /\ outcome[r] = "returned"
  /\ phase' = [phase EXCEPT ![r] = "resolved"]
  /\ UNCHANGED outcome

\* A lost connection rejects every request in flight at once.
Reject(S) ==
  /\ \A r \in S : phase[r] = "asked"
  /\ phase' = [r \in Requests |-> IF r \in S THEN "rejected" ELSE phase[r]]
  /\ UNCHANGED outcome

RpcNext ==
  \/ \E r \in Requests : Call(r) \/ Begin(r) \/ Finish(r) \/ Resolve(r)
  \/ \E S \in SUBSET Requests : Reject(S)

RpcSpec == RpcInit /\ [][RpcNext]_rpcVars
=============================================================================
