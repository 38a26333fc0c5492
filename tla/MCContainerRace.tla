-------------------------- MODULE MCContainerRace --------------------------
(***************************************************************************)
(* The three graphs of MCContainer for TLC.  Bound: they do not meet, so   *)
(* each is asked for in runs of its own, a cycle by two callers outside    *)
(* any request, the other by two requests.                                 *)
(***************************************************************************)
EXTENDS MCContainer

VARIABLE asked  \* pairs of a client and a token that it may ask for

Races == {{k3, k4} \X CycleTokens, {k3, k4} \X FieldTokens, {k1, k2} \X PairTokens}

RaceInit == Init /\ asked \in Races

RaceNext ==
  /\ UNCHANGED asked
  /\ \/ \E p \in asked : Ask(p[1], p[2]) \/ EndRequest(p[1])
     \/ \E c \in Calls : Inject(c) \/ Complete(c) \/ Fail(c)
     \/ Clear

RaceSpec == RaceInit /\ [][RaceNext]_<<vars, asked>> /\ Fairness
=============================================================================
