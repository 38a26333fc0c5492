--------------------------- MODULE MCHttpRequests ---------------------------
(***************************************************************************)
(* An instance of HttpRequests for TLC: two controllers, one of them in an *)
(* imported module; guards declared on two levels; three requests, two of  *)
(* which carry the same id and one that matches no route; two filters of   *)
(* one class, registered up to twice at the same time.  Arguments are read *)
(* through pipes when no request is there.                                 *)
(***************************************************************************)
EXTENDS HttpRequests, Pipes, TLC

MCClasses == {"Domain", "Forbidden", "BadRequest", "Validation", "Unprocessable"}
MCFilters ==
  << [target |-> "Domain", priority |-> 0], [target |-> "none", priority |-> 0],
     [target |-> "Domain", priority |-> 1] >>
MCStatus == [c \in MCClasses |->
  CASE c = "Forbidden" -> 403 [] c \in {"BadRequest", "Validation"} -> 400
    [] c = "Unprocessable" -> 422 [] OTHER -> 0]

MCGlobalGuards == <<"auth">>
MCBasePath == <<"/", "api", "/">>
MCControllers ==
  << [paths |-> << <<"users", "/">> >>, guards |-> <<"tenant">>,
      routes |-> << [paths |-> << <<"/">> >>, method |-> "GET", guards |-> <<>>,
                     validates |-> FALSE],
                    [paths |-> << <<"/", "new">> >>, method |-> "POST", guards |-> <<"auth">>,
                     validates |-> TRUE] >>],
     [paths |-> <<>>, guards |-> <<>>,
      routes |-> << [paths |-> <<>>, method |-> "GET", guards |-> <<>>, validates |-> FALSE] >>] >>
MCRequests ==
  << [path |-> <<"/", "api", "/", "users", "/", "new">>, method |-> "POST", id |-> "x"],
     [path |-> <<"/", "api">>, method |-> "GET", id |-> "x"],
     [path |-> <<"/", "users">>, method |-> "GET", id |-> "y"] >>

\* An enum of texts, and one of numbers, which maps its values back to their names.
Enums == {<<{Str("UP"), Str("DOWN")}, {}>>, <<{Num("0"), Num("1")}, {Str("Red"), Str("Green")}>>}
Made(kind, optional, default, version, enum) ==
  [kind |-> kind, optional |-> optional, default |-> default, version |-> version,
   enum |-> enum[1], names |-> enum[2]]
NoEnum == <<{}, {}>>
MCPipeSet ==
  {Made(kind, o, <<>>, 0, NoEnum) : kind \in {"int", "float", "bool", "date", "uuid"}, o \in BOOLEAN}
    \cup {Made("date", TRUE, <<Date("now")>>, 0, NoEnum)}
    \cup {Made("uuid", o, <<>>, 4, NoEnum) : o \in BOOLEAN}
    \cup {Made("enum", o, <<>>, 0, e) : o \in BOOLEAN, e \in Enums}

Reads(integer, float, number, date, uuid) ==
  [integer |-> integer, float |-> float, number |-> number, date |-> date, uuid |-> uuid]
MCText ==
  "" :> Reads(FALSE, "NaN", "0", FALSE, {}) @@ "0" :> Reads(TRUE, "0", "0", TRUE, {})
    @@ "-7" :> Reads(TRUE, "-7", "-7", TRUE, {}) @@ "1" :> Reads(TRUE, "1", "1", TRUE, {})
    @@ "1.5" :> Reads(FALSE, "1.5", "1.5", TRUE, {}) @@ "1px" :> Reads(FALSE, "1", "NaN", FALSE, {})
    @@ "1e400" :> Reads(FALSE, "Infinity", "Infinity", FALSE, {})
    @@ "999..." :> Reads(TRUE, "Infinity", "Infinity", FALSE, {})
    @@ "true" :> Reads(FALSE, "NaN", "NaN", FALSE, {}) @@ "UP" :> Reads(FALSE, "NaN", "NaN", FALSE, {})
    @@ "Red" :> Reads(FALSE, "NaN", "NaN", FALSE, {})
    @@ "uuid1" :> Reads(FALSE, "NaN", "NaN", FALSE, {1}) @@ "uuid4" :> Reads(FALSE, "NaN", "NaN", FALSE, {4})
MCQueries == {<<>>} \cup {<<t>> : t \in DOMAIN MCText} \cup {<<s, t>> : s, t \in DOMAIN MCText}

NoPipe == Made("none", FALSE, <<>>, 0, NoEnum)
HttpInit ==
  \/ Init /\ pipe = NoPipe /\ query = <<>> /\ outcome = <<>>
  \/ /\ PipesInit /\ FiltersInit
     /\ at = [q \in DOMAIN Requests |-> "done"] /\ passed = [q \in DOMAIN Requests |-> <<>>]
     /\ error = [q \in DOMAIN Requests |-> "none"] /\ called = [q \in DOMAIN Requests |-> 0]
     /\ answer = [q \in DOMAIN Requests |-> 404] /\ scopes = {}

HttpNext ==
  \/ pipe = NoPipe /\ Next /\ UNCHANGED pipeVars
  \/ pipe # NoPipe /\ Ask /\ UNCHANGED vars

HttpSpec ==
  /\ HttpInit /\ [][HttpNext]_<<vars, pipeVars>>
  /\ \A q \in DOMAIN Requests : WF_vars(Step(q) /\ UNCHANGED <<filterVars, pipeVars>>)
=============================================================================
