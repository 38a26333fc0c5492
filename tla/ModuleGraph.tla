---------------------------- MODULE ModuleGraph ----------------------------
(***************************************************************************)
(* From @Module() classes to an initialised application:                   *)
(* ModuleCompiler (packages/injector/_module_compiler.ts) orders what the  *)
(* root imports, InjectorContext.create() builds a container per module    *)
(* class, links it to those of its imports, and initialises the providers  *)
(* module by module.  Every graph of a family is an initial state.         *)
(*                                                                         *)
(* A declaration is what an `imports` list holds: a module class, or a     *)
(* dynamic module object.  Two dynamic modules may be of one class.        *)
(***************************************************************************)
EXTENDS Naturals, Sequences, FiniteSets, SequencesExt, TLC

CONSTANTS
  Declarations,  \* 1 is the root
  Graphs,        \* the graphs to start from: declaration -> [class, imports, providers, exports,
                 \* global, decorated, needs, aliases]; `needs` are the tokens that the class or
                 \* factory of an own token asks for, or the one that an alias stands for
  Complete,      \* the graphs whose modules are given all that their documents ask for
  Tokens,
  Optional,      \* the pairs <<token, need>> of fields that may stay empty
  Builtin,       \* tokens the factory of the application registers globally in beforeInit
  RequestScoped, \* tokens of request scope
  Transient,     \* tokens of which every resolution constructs an instance
  Controllers,   \* tokens tagged as HTTP controllers
  Broken         \* sets of tokens whose constructor throws

ASSUME DeclarationAssumption ==
  1 \in Declarations /\ Declarations \subseteq Nat \ {0} /\ Complete \subseteq Graphs

VARIABLES
  graph, broken,
  phase,      \* "compile", "init", "ready" or "failed"
  order,      \* modulesInOrder
  built,      \* [of: class -> the declaration whose container moduleContainers holds, or 0;
              \*  kids: declaration -> the children of its container]
  position,   \* <<module in order, token in it>>: where the initialisation is
  singletons, \* those of all containers: <<declaration, or 0 for global, token>> -> instance
  made,       \* the instances <<declaration or 0, token, number>>, and for each the class
              \* whose ModuleRef its constructor was given, or "none"; a singleton is number 0
  inits       \* the instances whose onModuleInit() was called, in order

vars == <<graph, broken, phase, order, built, position, singletons, made, inits>>

-----------------------------------------------------------------------------
(* ModuleCompiler.                                                         *)

Class(d) == graph[d].class
Imports(d) == graph[d].imports

\* ownTokens: the providers and the module's class.
OwnTokens(d) == Append(graph[d].providers, Class(d))

\* Faulty variant: a module comes before the ones it imports.
RECURSIVE MutVisit(_, _)
MutVisit(d, result) ==
  IF Contains(result, d) THEN result
  ELSE FoldLeft(LAMBDA acc, i : MutVisit(i, acc), Append(result, d), Imports(d))

\* The depth-first walk: `seen` are the visited modules, and `result` is in post-order.
RECURSIVE Visit(_, _)
Visit(d, walk) ==
  IF d \in walk.seen THEN walk
  ELSE LET after == FoldLeft(LAMBDA acc, i : Visit(i, acc),
                             [walk EXCEPT !.seen = @ \cup {d}], Imports(d)) IN
       [after EXCEPT !.result = Append(@, d)]

\* Faulty variant of the order below.
MutInitOrder == MutVisit(1, <<>>)

\* getModulesInInitOrder().
InitOrder == Visit(1, [seen |-> {}, result |-> <<>>]).result

\* The providers of global modules: those of the one compiled last win.
GlobalHome(t) ==
  LET homes == {i \in DOMAIN order : graph[order[i]].global
                                     /\ Contains(graph[order[i]].providers, t)} IN
  IF homes = {} THEN 0 ELSE order[CHOOSE i \in homes : \A j \in homes : j <= i]

-----------------------------------------------------------------------------
(* InjectorContext.create(): buildContainer().                             *)

\* What d imports, directly or not.
RECURSIVE Below(_, _)
Below(ds, seen) ==
  LET next == UNION {Range(Imports(d)) : d \in ds} \ seen IN
  IF next = {} THEN seen ELSE Below(next, seen \cup next)

Cyclic == \E d \in {1} \cup Below({1}, {}) : d \in Below({d}, {})

\* A class that has a container is not built again, and is recorded after its imports.
RECURSIVE BuildContainer(_, _)
BuildContainer(d, b) ==
  IF b.of[Class(d)] # 0 THEN b
  ELSE LET after == FoldLeft(LAMBDA acc, i : LET next == BuildContainer(i, acc.b) IN
                               [b |-> next, kids |-> Append(acc.kids, next.of[Class(i)])],
                             [b |-> b, kids |-> <<>>], Imports(d)) IN
       [after.b EXCEPT !.of[Class(d)] = d, !.kids[d] = after.kids]

Classes == {Class(d) : d \in Declarations}
NoContainers == [of |-> [c \in Classes |-> 0], kids |-> [d \in Declarations |-> <<>>]]

Compile ==
  /\ phase = "compile"
  /\ order' = InitOrder
  /\ IF Cyclic \/ \E d \in {1} \cup Below({1}, {}) : ~graph[d].decorated
     THEN phase' = "failed" /\ UNCHANGED built  \* the recursion has no end
     ELSE phase' = "init" /\ built' = BuildContainer(1, NoContainers)
  /\ UNCHANGED <<graph, broken, position, singletons, made, inits>>

-----------------------------------------------------------------------------
(* Looking up: own providers, the children that export the token, and the  *)
(* global container, which is container 0.                                 *)

None == <<0, "none">>

Has(c, t) == IF c = 0 THEN t \in Builtin \/ GlobalHome(t) # 0 ELSE Contains(OwnTokens(c), t)
Kids(c) == IF c = 0 THEN <<>> ELSE built.kids[c]
Home(c, t) == IF c = 0 THEN GlobalHome(t) ELSE c
Needs(c, t) == IF t \in Builtin THEN <<>> ELSE graph[Home(c, t)].needs[t]
IsAlias(c, t) == t \notin Builtin /\ t \in graph[Home(c, t)].aliases

RECURSIVE CanResolve(_, _)
CanResolve(c, t) ==
  \/ Has(c, t)
  \/ \E k \in Range(Kids(c)) : t \in graph[k].exports /\ CanResolve(k, t)
  \/ Has(0, t)

\* The provider whose mode getProviderMode() returns.
RECURSIVE ProviderHome(_, _)
ProviderHome(c, t) ==
  IF Has(c, t) THEN <<c, t>>
  ELSE LET found == SelectSeq(Kids(c), LAMBDA k : t \in graph[k].exports
                                                  /\ ProviderHome(k, t) # None) IN
       IF found # <<>> THEN ProviderHome(found[1], t) ELSE IF Has(0, t) THEN <<0, t>> ELSE None

IsRequestScoped(c, t) == ProviderHome(c, t) # None /\ t \in RequestScoped

-----------------------------------------------------------------------------
(* Resolving.  The state of a resolution: the singletons and the instances *)
(* so far, the provider that was taken and its instance, the error ("",    *)
(* "missing" for a TokenNotFoundError, or "thrown"), and the current       *)
(* ModuleRef.                                                              *)

Start(known, now, ref) ==
  [singletons |-> known, made |-> now, at |-> None, instance |-> <<>>, error |-> "", ref |-> ref]
Now(ref) == Start(singletons, made, ref)

\* An optional field stays empty, also when it is a need of its token that is missing.
Supplied(t, dep, after) ==
  IF after.error = "missing" /\ <<t, dep>> \in Optional THEN [after EXCEPT !.error = ""] ELSE after

Taken(c, t, instance, after) == [after EXCEPT !.at = <<c, t>>, !.instance = instance]
Stored(c, t, instance, after) == Taken(c, t, instance, [after EXCEPT !.singletons = (<<c, t>> :> instance) @@ @])

\* How many instances of a transient token a container has made.
Number(c, t, now) == Cardinality({i \in DOMAIN now.made : i[1] = c /\ i[2] = t})

\* What the provider of t in c yields, its dependencies resolved first; but a constructor
\* runs, and throws, before any of them.  An alias keeps the instance of its target, and a
\* request-scoped provider needs a context.
RECURSIVE Resolve(_, _, _)
Construct(c, t, now) ==
  IF t \in RequestScoped \/ (t \in broken /\ <<c, t>> \notin DOMAIN now.singletons)
  THEN [now EXCEPT !.error = "thrown"]
  ELSE IF <<c, t>> \in DOMAIN now.singletons THEN Taken(c, t, now.singletons[<<c, t>>], now)
  ELSE LET after == FoldLeft(LAMBDA acc, dep : IF acc.error = "" THEN Supplied(t, dep, Resolve(c, dep, acc))
                                                ELSE acc,
                             now, Needs(c, t))
           instance == <<c, t, IF t \in Transient THEN Number(c, t, after) + 1 ELSE 0>>
           new == [after EXCEPT !.made = (instance :> now.ref) @@ @] IN
       CASE after.error # "" -> after
         [] after.error = "" /\ IsAlias(c, t) -> Stored(c, t, after.instance, after)
         [] OTHER -> IF t \in Transient THEN Taken(c, t, instance, new) ELSE Stored(c, t, instance, new)

\* A child that exports the token and reports one as missing, be it another one that the
\* token needs, gives way to the next child and to the global container.
Resolve(c, t, now) ==
  IF Has(c, t) THEN Construct(c, t, now)
  ELSE LET tried == FoldLeft(LAMBDA acc, k : IF acc.error = "missing" /\ t \in graph[k].exports
                                             THEN Resolve(k, t, [acc EXCEPT !.error = ""]) ELSE acc,
                             [now EXCEPT !.error = "missing"], Kids(c)) IN
       IF tried.error = "missing" /\ Has(0, t) THEN Construct(0, t, [tried EXCEPT !.error = ""])
                                               ELSE tried

-----------------------------------------------------------------------------
(* Tags.                                                                   *)

WithTag(ts) == SelectSeq(ts, LAMBDA t : t \in Controllers)

GlobalTagged == FlattenSeq([i \in DOMAIN order |->
                  IF graph[order[i]].global THEN WithTag(graph[order[i]].providers) ELSE <<>>])

\* Faulty variant: the tokens that a child keeps to itself are listed too.
MutExportedTagged(k) == WithTag(OwnTokens(k))

ExportedTagged(k) == SelectSeq(WithTag(OwnTokens(k)), LAMBDA t : t \in graph[k].exports)

\* getTokensByTag(), with the export check.
TokensByTag(c) ==
  WithTag(OwnTokens(c))
    \o FlattenSeq([i \in DOMAIN Kids(c) |-> ExportedTagged(Kids(c)[i])]) \o GlobalTagged

\* getByTag(): one after the other, each in the container it was found in; missing ones are
\* skipped, and the first other error ends it.
InstancesByTag(c, now) ==
  LET All(where, ts, start) ==
        FoldLeft(LAMBDA acc, t : IF acc.error = "thrown" THEN acc
                                 ELSE Resolve(where, t, [acc EXCEPT !.error = ""]), start, ts)
      children == FoldLeft(LAMBDA acc, k : All(k, ExportedTagged(k), acc),
                           All(c, WithTag(OwnTokens(c)), now), Kids(c)) IN
  All(0, GlobalTagged, children)

-----------------------------------------------------------------------------
(* What the program asks for: ModuleRef, and InjectorContext.              *)

\* The container that ModuleRef.get() of module d resolves in, or none when it refuses.
RefContainer(d, t, strict) ==
  IF Contains(OwnTokens(d), t) THEN {built.of[Class(d)]} ELSE IF strict THEN {} ELSE {1}

\* InjectorContext.resolve(): what the root keeps to itself is refused.
ContextContainer(t) ==
  IF Contains(OwnTokens(1), t) /\ t # Class(1) /\ t \notin graph[1].exports THEN {} ELSE {1}

-----------------------------------------------------------------------------
(* InjectorContext.create(): onModuleInit().                               *)

\* The container of the module in turn.
Current == built.of[Class(order[position[1]])]
Token == OwnTokens(order[position[1]])[position[2]]

\* callOnModuleInit(): once for an instance, also when an alias leads to it.
Initialised(instance) == IF Contains(inits, instance) THEN inits ELSE Append(inits, instance)

Advance ==
  IF position[2] < Len(OwnTokens(order[position[1]]))
  THEN position' = <<position[1], position[2] + 1>> /\ UNCHANGED phase
  ELSE /\ position' = <<position[1] + 1, 1>>
       /\ phase' = IF position[1] = Len(order) THEN "ready" ELSE phase

\* The token is resolved and initialised; an error of either is swallowed, but the
\* module's class, the last of its tokens, is resolved again after the loop.
InitToken ==
  /\ phase = "init"
  /\ LET after == Resolve(Current, Token, Now(Class(order[position[1]]))) IN
     IF IsRequestScoped(Current, Token) THEN Advance /\ UNCHANGED <<singletons, made, inits>>
     ELSE /\ singletons' = after.singletons /\ made' = after.made
          /\ inits' = IF after.error = "" THEN Initialised(after.instance) ELSE inits
          /\ IF after.error # "" /\ Token = Class(order[position[1]])
             THEN phase' = "failed" /\ UNCHANGED position
             ELSE Advance
  /\ UNCHANGED <<graph, broken, order, built>>

\* The transient instances that the running program asks for, any number, are not counted.
Resolved(after) ==
  /\ phase = "ready"
  /\ singletons' = after.singletons
  /\ made' = [i \in {j \in DOMAIN after.made : j[3] = 0 \/ j \in DOMAIN made} |-> after.made[i]]
  /\ UNCHANGED <<graph, broken, phase, order, built, position, inits>>

\* get() and tryGet() of a ModuleRef, resolve(), tryResolve() of the context; outside of
\* an initialisation there is no current module.
Get(d, t) ==
  \E strict \in BOOLEAN : \E c \in RefContainer(d, t, strict) : Resolved(Resolve(c, t, Now("none")))
ContextResolve(t) == \E c \in ContextContainer(t) : Resolved(Resolve(c, t, Now("none")))
GetByTag == Resolved(InstancesByTag(1, Now("none")))

-----------------------------------------------------------------------------
Init ==
  /\ graph \in Graphs /\ broken \in Broken /\ phase = "compile"
  /\ order = <<>> /\ built = NoContainers /\ position = <<1, 1>>
  /\ singletons = <<>> /\ made = <<>> /\ inits = <<>>

Next ==
  \/ Compile \/ InitToken
  \/ \E d \in Range(order), t \in Tokens : Get(d, t)
  \/ \E t \in Tokens : ContextResolve(t)
  \/ GetByTag

Spec == Init /\ [][Next]_vars
-----------------------------------------------------------------------------
Reached == {1} \cup Below({1}, {})
OncePerClass == \A d, e \in Reached : Class(d) = Class(e) => d = e

\* Safety.  onModuleInit() runs once for an instance, also when an alias leads to it; when
\* create() is over it ran for every singleton that a module's container made, each of
\* which was given the ModuleRef of that module, and it ran for those of a module only
\* after it ran for the ones of the modules it imports.  A graph that is complete has an
\* instance of every provider.  A transient instance that another provider asked for is
\* never initialised.  Graphs that configure one class twice are left out, as the class has
\* one container, that of one of them; and cyclic imports, for which create() has no end.
InitOnceInOrder ==
  /\ IsInjective(inits)
  /\ phase = "ready" /\ OncePerClass =>
       /\ \A i \in DOMAIN made :
            i[1] # 0 => (i[3] = 0 => Contains(inits, i)) /\ made[i] = Class(i[1])
       /\ \A i, j \in DOMAIN inits :
            inits[j][1] # 0 /\ inits[i][1] \in Below({inits[j][1]}, {}) => i < j
       /\ graph \in Complete /\ broken = {} =>
            \A d \in Reached : \A t \in Range(OwnTokens(d)) \ RequestScoped :
              <<d, t>> \in DOMAIN singletons

\* What d sees: what it provides, what an imported module exports and sees, and the global
\* providers; here as a path of exporting imports.
Sees(d, t) ==
  \/ t \in Builtin
  \/ \E e \in Reached : graph[e].global /\ Contains(graph[e].providers, t)
  \/ \E n \in 1..Cardinality(Declarations) : \E path \in [1..n -> Reached] :
       /\ path[1] = d /\ Contains(OwnTokens(path[n]), t)
       /\ \A i \in 2..n : Contains(Imports(path[i - 1]), path[i]) /\ t \in graph[path[i]].exports

\* Safety.  A container can resolve exactly what its module sees.  The provider that
\* decides the scope of a token is the one that resolve() takes, unless something that this
\* one asks for, at any depth, is missing: then resolve() passes over it to the next module
\* that exports the token or to the global one, and the scope is not that one's.  What is
\* listed for a tag, as guards, consumers and handlers are, can be resolved where it is
\* listed.
VisibleAsDeclared ==
  phase = "init" /\ position = <<1, 1>> /\ OncePerClass =>
    \A d \in Reached :
      /\ \A t \in Tokens :
           LET fresh == Start(<<>>, <<>>, "none")
               after == Resolve(d, t, fresh)
               home == ProviderHome(d, t)
               there == Construct(home[1], t, fresh) IN
           /\ CanResolve(d, t) <=> Sees(d, t)
           /\ home # None <=> Sees(d, t)
           /\ after.error = "" => Sees(d, t)
           /\ home # None /\ there.error # "missing" => after.at = there.at /\ after.error = there.error
      /\ \A t \in Range(TokensByTag(d)) : CanResolve(d, t)

\* Expected to fail.  What a global module constructs for itself is available everywhere.
\* The global container constructs it anew, without the imports of the module.
GlobalIsEverywhere ==
  phase = "ready" /\ OncePerClass =>
    \A e \in Reached : \A t \in Range(graph[e].providers) :
      graph[e].global /\ <<e, t>> \in DOMAIN singletons =>
        \A d \in Reached : Resolve(d, t, Now("none")).error = ""
=============================================================================
