---------------------------- MODULE MCContainer ----------------------------
(***************************************************************************)
(* Small provider graphs for TLC.  "app" is the root module's container,   *)
(* "lib" the container of a module it imports.                             *)
(***************************************************************************)
EXTENDS Container, TLC

CONSTANTS k1, k2, k3, k4, id1, c1, c2, c3, c4, c5

MCContainers == {"app", "lib"}
MCCalls == {c1, c2, c3, c4, c5}

\* A request and a caller outside any request.
OneRequest == k1 :> id1 @@ k2 :> NoContext
\* Three requests that carry the same x-request-id, and two callers outside.
SharedId == k1 :> id1 @@ k2 :> id1 @@ k3 :> NoContext @@ k4 :> NoContext

(* An acyclic graph with every mode and kind: a pool that may fail, a       *)
(* factory over it and a transient, a request-scoped controller with an    *)
(* optional field nobody provides.                                         *)
GraphTokens == {"pool", "unit", "repo", "page", "absent"}
GraphRegistered == GraphTokens \ {"absent"}
GraphHome == [t \in GraphTokens |-> IF t \in {"pool", "unit"} THEN "lib" ELSE "app"]
GraphMode == [t \in GraphTokens |->
  CASE t = "unit" -> "transient" [] t = "page" -> "request" [] OTHER -> "singleton"]
GraphKind == [t \in GraphTokens |->
  IF t = "repo" THEN "factory" ELSE "class"]
GraphDeps == [t \in GraphTokens |->
  CASE t = "unit"  -> <<"pool">>
    [] t = "repo"  -> <<"pool", "unit">>
    [] t = "page"  -> <<"absent", "unit">>
    [] OTHER       -> <<>>]
GraphOptional == {<<"page", 1>>}
GraphExpressions == {<<"unit", 1>>}

(* Three graphs in one.  A factory "a" and a class "b" need each other,    *)
(* over a token that nobody provides: optional for the class, an error for *)
(* the factory.  A class "x" and a factory "y" need each other, the class  *)
(* through an optional field.  A transient "unit" needs a singleton, has   *)
(* an alias, and is needed by a request-scoped class.                      *)
CycleTokens == {"a", "b", "absent"}
FieldTokens == {"x", "y"}
PairTokens == {"pool", "unit", "alias", "page"}
ThreeTokens == CycleTokens \cup FieldTokens \cup PairTokens
ThreeRegistered == ThreeTokens \ {"absent"}
ThreeHome == [t \in ThreeTokens |-> IF t \in {"pool", "x", "y"} THEN "lib" ELSE "app"]
ThreeMode == [t \in ThreeTokens |->
  CASE t \in {"b", "unit"} -> "transient" [] t = "page" -> "request" [] OTHER -> "singleton"]
ThreeKind == [t \in ThreeTokens |->
  CASE t \in {"a", "y"} -> "factory" [] t = "alias" -> "existing" [] OTHER -> "class"]
ThreeDeps == [t \in ThreeTokens |->
  CASE t = "a" -> <<"b", "absent">>
    [] t = "b" -> <<"absent", "a">>
    [] t = "x" -> <<"y">>
    [] t = "y" -> <<"x">>
    [] t = "unit" -> <<"pool">>
    [] t \in {"alias", "page"} -> <<"unit">>
    [] OTHER -> <<>>]
ThreeOptional == {<<"b", 1>>, <<"x", 1>>}
=============================================================================
