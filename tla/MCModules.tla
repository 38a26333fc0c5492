----------------------------- MODULE MCModules -----------------------------
(***************************************************************************)
(* Decorators and ModuleGraph for TLC: a program whose classes are         *)
(* decorated, two of them extending the first, or one whose modules are    *)
(* compiled and initialised.                                               *)
(***************************************************************************)
EXTENDS MCModuleGraph, Decorators

MCParent == <<0, 1, 1>>

\* No application is created, or no class is decorated any more.
Idle == /\ graph \in Others /\ graph[2].class = "KvModule" /\ broken = {} /\ phase = "failed"
        /\ order = <<>> /\ built = NoContainers /\ position = <<1, 1>>
        /\ singletons = <<>> /\ made = <<>> /\ inits = <<>>
Decorated == /\ current = 1 /\ part = "over" /\ marks = <<>>
             /\ own = [c \in Definitions |-> [key \in Keys |-> <<>>]]

ModulesInit == \/ Init /\ Decorated
               \/ Idle /\ DecoratorsInit
ModulesNext == \/ Next /\ UNCHANGED decoratorVars
               \/ DecoratorsNext /\ UNCHANGED vars
ModulesSpec == ModulesInit /\ [][ModulesNext]_<<vars, decoratorVars>>
=============================================================================
