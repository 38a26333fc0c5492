-------------------------- MODULE ExceptionFilters --------------------------
(***************************************************************************)
(* ExceptionHandler (packages/core/exceptions/handler.ts): register()      *)
(* resolves the providers tagged as filters one after the other and sorts  *)
(* each into the list of the exception class it is for; handle() calls the *)
(* list of an error's own class.  register() is public and adds all of the *)
(* filters again each time it is called.                                   *)
(***************************************************************************)
EXTENDS Naturals, Integers, Sequences, SequencesExt

CONSTANTS
  Classes,      \* exception classes
  Filters,      \* the tagged tokens in order: [target, priority], target "none"
                \* when the class has no @Catch metadata
  MaxRegisters  \* bound on the calls of register()

ASSUME FilterAssumption ==
  /\ MaxRegisters \in Nat
  /\ \A i \in DOMAIN Filters :
       Filters[i].target \in Classes \cup {"none"} /\ Filters[i].priority \in Int

VARIABLES
  handlers,     \* class -> its list of [filter, priority, nth]; nth counts insertions
  inserted,     \* number of insertions so far
  registering   \* call of register() -> 0, or the token whose instance it awaits, or
                \* Len(Filters) + 1 when it is over
filterVars == <<handlers, inserted, registering>>

Calls == 1..MaxRegisters
Over == Len(Filters) + 1

-----------------------------------------------------------------------------
\* The next token from i on that carries metadata.
NextTagged(i) ==
  LET tagged == {j \in DOMAIN Filters : j >= i /\ Filters[j].target # "none"} IN
  IF tagged = {} THEN Over ELSE CHOOSE j \in tagged : \A k \in tagged : j <= k

\* Faulty variant: an entry goes before those of the same priority.
MutSorted(list, entry) ==
  LET lower == {i \in DOMAIN list : list[i].priority <= entry.priority} IN
  IF lower = {} THEN Append(list, entry)
               ELSE InsertAt(list, CHOOSE i \in lower : \A j \in lower : i <= j, entry)

\* registerExceptionFilterInCache(): before the first entry of a lower priority.
Sorted(list, entry) ==
  LET lower == {i \in DOMAIN list : list[i].priority < entry.priority} IN
  IF lower = {} THEN Append(list, entry)
               ELSE InsertAt(list, CHOOSE i \in lower : \A j \in lower : i <= j, entry)

Register(t) ==
  /\ registering[t] = 0
  /\ registering' = [registering EXCEPT ![t] = NextTagged(1)]
  /\ UNCHANGED <<handlers, inserted>>

\* resolveInternal() has given the filter's instance.
FilterResolved(t) ==
  /\ registering[t] \in DOMAIN Filters
  /\ LET filter == Filters[registering[t]] IN
     handlers' = [handlers EXCEPT ![filter.target] = Sorted(@,
       [filter |-> registering[t], priority |-> filter.priority, nth |-> inserted + 1])]
  /\ inserted' = inserted + 1
  /\ registering' = [registering EXCEPT ![t] = NextTagged(@ + 1)]

\* It rejects, and so does register(): the tokens after it are not registered.
FilterFails(t) ==
  /\ registering[t] \in DOMAIN Filters
  /\ registering' = [registering EXCEPT ![t] = Over]
  /\ UNCHANGED <<handlers, inserted>>

-----------------------------------------------------------------------------
\* What a filter's catch() does: gives nothing, an HttpException or a Response, another
\* value, rejects, or throws before it returns a promise.
Outcomes == {"nothing", "response", "value", "rejects", "throws"}

\* The filters handle() calls for an error; what is not an Error has no class.
FiltersFor(class) == IF class \in Classes THEN handlers[class] ELSE <<>>

\* handle(): it rejects when a catch() throws, since the map() around it is no promise;
\* a rejected filter is logged; one value is given as it is, several as an array.
Handled(outcomes) ==
  LET values == SelectSeq(outcomes, LAMBDA o : o \in {"response", "value"}) IN
  IF "throws" \in Range(outcomes) THEN "rejects"
  ELSE IF values = <<>> THEN "nothing" ELSE IF Len(values) = 1 THEN values[1] ELSE "array"

\* What handle() can give when it calls so many filters.
HandledBy == [n \in 0..(Len(Filters) * MaxRegisters) |->
               {Handled(outcomes) : outcomes \in [1..n -> Outcomes]}]

-----------------------------------------------------------------------------
FiltersInit ==
  /\ handlers = [c \in Classes |-> <<>>] /\ inserted = 0
  /\ registering = [t \in Calls |-> 0]

FiltersNext == \E t \in Calls : Register(t) \/ FilterResolved(t) \/ FilterFails(t)

\* The lists and the count keep their types.
FiltersTypeOK ==
  /\ inserted \in Nat
  /\ handlers \in [Classes -> Seq([filter : DOMAIN Filters, priority : Int, nth : Nat])]

\* Safety.  However calls of register() interleave, the filters of a class are in
\* descending priority, and those of one priority in the order they were registered.
FiltersOrdered ==
  \A c \in Classes : \A i, j \in DOMAIN handlers[c] :
    LET a == handlers[c][i]  b == handlers[c][j] IN
    i < j => a.priority > b.priority \/ (a.priority = b.priority /\ a.nth < b.nth)
=============================================================================
