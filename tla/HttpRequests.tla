---------------------------- MODULE HttpRequests ----------------------------
(***************************************************************************)
(* HTTP requests served by the Hono adapter (packages/platform-hono and    *)
(* packages/core/http): the table of routes a ControllerMapping registers, *)
(* and what its handler does with each request, next to others and to      *)
(* register() of ExceptionFilters.  Paths are sequences of "/" and names.  *)
(***************************************************************************)
EXTENDS ExceptionFilters, FiniteSets

CONSTANTS
  BasePath, Controllers,  \* [paths, guards, routes]: the classes in the order of their tags;
                          \* a route: [paths, method, guards, validates]
  Imported,               \* controllers provided by a module that the root imports
  GlobalGuards,           \* those there were when init() made the mapping
  Requests,               \* [path, method, id]: id is the x-request-id, or one of its own
  Status                  \* exception class -> its HTTP status, 0 if it has none

ASSUME RequestAssumption ==
  /\ Controllers \in Seq(Range(Controllers)) /\ GlobalGuards \in Seq(Range(GlobalGuards))
  /\ \A c \in DOMAIN Controllers :
       LET routes == Controllers[c].routes  guards == Controllers[c].guards IN
       /\ routes \in Seq(Range(routes)) /\ guards \in Seq(Range(guards))
       /\ \A r \in DOMAIN routes : routes[r].guards \in Seq(Range(routes[r].guards))
  /\ Imported \subseteq DOMAIN Controllers
  /\ Status \in [Classes -> Nat]
  /\ {"Forbidden", "BadRequest", "Validation", "Unprocessable"} \subseteq Classes

VARIABLES
  at,      \* request -> where it is
  passed,  \* request -> the guards that let it through, in the order they were asked
  error,   \* request -> class of the error thrown, "string" when it is none, or "none"
  called,  \* request -> the number of filters called for it
  answer,  \* request -> status answered, or 0
  scopes   \* <<id, where>>: the containers that hold instances for a context

requestVars == <<at, passed, error, called, answer, scopes>>
vars == <<filterVars, requestVars>>

-----------------------------------------------------------------------------
(* ControllerMapping.register().                                           *)

\* A part without the slashes at its ends.
Trimmed(part) ==
  LET names == {i \in DOMAIN part : part[i] # "/"} IN
  IF names = {} THEN <<>>
  ELSE SubSeq(part, CHOOSE i \in names : \A j \in names : i <= j,
                    CHOOSE i \in names : \A j \in names : j <= i)

\* joinPaths(): a list of paths is joined into one.
JoinPaths(parts) ==
  LET full == SelectSeq([i \in DOMAIN parts |-> Trimmed(parts[i])], LAMBDA p : p # <<>>) IN
  IF full = <<>> THEN <<"/">> ELSE FoldLeft(LAMBDA path, p : path \o <<"/">> \o p, <<>>, full)

\* A registered route: a controller and one of its methods, in the order of registration.
Routes == UNION {{c} \X DOMAIN Controllers[c].routes : c \in DOMAIN Controllers}
Mapping(x) == Controllers[x[1]].routes[x[2]]
Before(x, y) == x[1] < y[1] \/ (x[1] = y[1] /\ x[2] < y[2])

\* The full paths of the routes.
Paths ==
  {<<x, JoinPaths(<<JoinPaths(<<BasePath>> \o Controllers[x[1]].paths)>> \o Mapping(x).paths)>> :
     x \in Routes}

\* Faulty variant: the guards of a route replace those of its class.
MutGuardsOf(x) ==
  LET own == Mapping(x).guards IN
  GlobalGuards \o (IF own = <<>> THEN Controllers[x[1]].guards ELSE own)

\* The guards declared for a route; of equal ones the Set keeps the first.
GuardsOf(x) == GlobalGuards \o Controllers[x[1]].guards \o Mapping(x).guards

\* Hono runs the first route that matches, or answers 404.
Matched(q) ==
  {x \in Routes : <<x, Requests[q].path>> \in Paths /\ Mapping(x).method = Requests[q].method}
Route(q) == CHOOSE x \in Matched(q) : \A y \in Matched(q) \ {x} : Before(x, y)

-----------------------------------------------------------------------------
(* The handler of a route.                                                 *)

\* A container holds what it made for a context until it is cleared.
Holds(q) == <<Requests[q].id, IF Route(q)[1] \in Imported THEN "imported" ELSE "root">>

\* Faulty variant: the context is cleared after a successful request only.
MutRespond(q, status) ==
  /\ at' = [at EXCEPT ![q] = "done"]
  /\ answer' = [answer EXCEPT ![q] = status]
  /\ called' = [called EXCEPT ![q] = 0]
  /\ scopes' = IF status >= 400 THEN scopes ELSE scopes \ {<<Requests[q].id, "root">>}

\* The answer, and clearContext() of the root's container.
Respond(q, status) ==
  /\ at' = [at EXCEPT ![q] = "done"]
  /\ answer' = [answer EXCEPT ![q] = status]
  /\ called' = [called EXCEPT ![q] = 0]
  /\ scopes' = scopes \ {<<Requests[q].id, "root">>}

\* handle() calls the filters at once.
Throw(q, class) ==
  /\ error' = [error EXCEPT ![q] = class]
  /\ called' = [called EXCEPT ![q] = Len(FiltersFor(class))]
  /\ at' = [at EXCEPT ![q] = "filters"]
  /\ UNCHANGED <<answer, scopes>>

Goto(q, place) == at' = [at EXCEPT ![q] = place] /\ UNCHANGED <<error, called, answer, scopes>>

Receive(q) ==
  /\ at[q] = "new"
  /\ IF Matched(q) = {}
     THEN at' = [at EXCEPT ![q] = "done"] /\ answer' = [answer EXCEPT ![q] = 404]
          /\ UNCHANGED <<error, called, scopes>>
     ELSE Goto(q, "controller")
  /\ UNCHANGED passed

\* The controller's instance is there, and cached for the context; or it cannot be made.
ControllerResolved(q) ==
  /\ at[q] = "controller"
  /\ \/ /\ at' = [at EXCEPT ![q] = "guards"]
        /\ scopes' = scopes \cup {Holds(q)}
        /\ UNCHANGED <<error, called, answer>>
     \/ Throw(q, "Domain")
  /\ UNCHANGED passed

\* Positions of the guards that are still to be asked.
Unasked(q) == {i \in DOMAIN GuardsOf(Route(q)) : GuardsOf(Route(q))[i] \notin Range(passed[q])}

\* The next guard answers, refuses or throws; a guard class is resolved from the root for
\* the context.
Guard(q) ==
  /\ at[q] = "guards" /\ Unasked(q) # {}
  /\ \/ /\ passed' = [passed EXCEPT ![q] = Append(@, GuardsOf(Route(q))[Min(Unasked(q))])]
        /\ scopes' \in {scopes, scopes \cup {<<Requests[q].id, "root">>}}
        /\ UNCHANGED <<at, error, called, answer>>
     \/ (Throw(q, "Forbidden") \/ Throw(q, "Domain")) /\ UNCHANGED passed

\* Faulty variant: a route without validation is left waiting for its body.
MutGuardsDone(q) ==
  /\ at[q] = "guards" /\ Unasked(q) = {}
  /\ Goto(q, "body")
  /\ UNCHANGED passed

\* validateRequest(): the body, if the route validates it, is read, parsed and checked.
GuardsDone(q) ==
  /\ at[q] = "guards" /\ Unasked(q) = {}
  /\ Goto(q, IF Mapping(Route(q)).validates THEN "body" ELSE "handler")
  /\ UNCHANGED passed

Validate(q) ==
  /\ at[q] = "body" /\ Mapping(Route(q)).validates
  /\ Goto(q, "handler") \/ Throw(q, "BadRequest") \/ Throw(q, "Validation")
  /\ UNCHANGED passed

\* resolveResponse(): a Response or a printable value, nothing, or a function; 200
\* stands for the route's status.
Returns(q) ==
  /\ at[q] = "handler"
  /\ (\E status \in {200, 204} : Respond(q, status) /\ UNCHANGED error)
     \/ Throw(q, "Unprocessable")
  /\ UNCHANGED passed

HandlerThrows(q) ==
  /\ at[q] = "handler"
  /\ \E class \in {"Domain", "Forbidden", "string"} : Throw(q, class)
  /\ UNCHANGED passed

\* The status of handleError(); 418 stands for the one of a filter's answer.  An array, or
\* a value that is no Response, is handed to the server, which answers 500 itself.
StatusOf(class, result) ==
  CASE result = "response" -> 418
    [] result = "nothing" /\ class \in Classes /\ Status[class] # 0 -> Status[class]
    [] OTHER -> 500

\* allSettled() is over, or handle() has rejected.
Settled(q) ==
  /\ at[q] = "filters"
  /\ \E result \in HandledBy[called[q]] : Respond(q, StatusOf(error[q], result))
  /\ UNCHANGED <<error, passed>>

-----------------------------------------------------------------------------
Init ==
  /\ FiltersInit
  /\ at = [q \in DOMAIN Requests |-> "new"] /\ passed = [q \in DOMAIN Requests |-> <<>>]
  /\ error = [q \in DOMAIN Requests |-> "none"] /\ called = [q \in DOMAIN Requests |-> 0]
  /\ answer = [q \in DOMAIN Requests |-> 0] /\ scopes = {}

Step(q) ==
  \/ Receive(q) \/ ControllerResolved(q) \/ Guard(q) \/ GuardsDone(q) \/ Validate(q)
  \/ Returns(q) \/ HandlerThrows(q) \/ Settled(q)

Next ==
  \/ FiltersNext /\ UNCHANGED requestVars
  \/ \E q \in DOMAIN Requests : Step(q) /\ UNCHANGED filterVars

Spec == Init /\ [][Next]_vars

\* What a request awaits comes to an end.
FairSpec == Spec /\ \A q \in DOMAIN Requests : WF_vars(Step(q) /\ UNCHANGED filterVars)

-----------------------------------------------------------------------------
\* The variables keep their types.
TypeOK ==
  /\ FiltersTypeOK
  /\ at \in [DOMAIN Requests -> {"new", "controller", "guards", "body", "handler", "filters",
                                 "done"}]
  /\ scopes \subseteq {Requests[q].id : q \in DOMAIN Requests} \X {"root", "imported"}

\* Safety.  A request has a successful answer only if its handler gave it, after every
\* guard declared for the application, the controller and the route let it through, each
\* asked once; what is thrown on the way, unless a filter chooses, is an error status, or
\* the one its own class has.
SuccessIsEarned ==
  \A q \in DOMAIN Requests :
    answer[q] \in 200..299 =>
      \/ error[q] \in Classes /\ Status[error[q]] \in 200..299
      \/ /\ error[q] = "none"
         /\ \E c \in DOMAIN Controllers : \E r \in DOMAIN Controllers[c].routes :
              /\ Requests[q].method = Controllers[c].routes[r].method
              /\ LET declared == GlobalGuards \o Controllers[c].guards
                                   \o Controllers[c].routes[r].guards IN
                 /\ IsInjective(passed[q])
                 /\ Range(passed[q]) = Range(declared)

\* Safety.  When no request of a context is being served, the root's container holds
\* nothing for it, also when several requests carry the same id.
ScopesReleased ==
  \A q \in DOMAIN Requests :
    <<Requests[q].id, "root">> \in scopes =>
      \E p \in DOMAIN Requests : Requests[p].id = Requests[q].id /\ at[p] \notin {"new", "done"}

\* Liveness.  Every request that is received is answered, whatever it throws.
EveryRequestAnswered ==
  \A q \in DOMAIN Requests : at[q] = "controller" ~> answer[q] # 0
=============================================================================
