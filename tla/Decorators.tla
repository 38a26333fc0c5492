----------------------------- MODULE Decorators -----------------------------
(***************************************************************************)
(* What the decorators of the packages write while the classes of a        *)
(* program are evaluated.  Each class has a metadata object whose          *)
(* prototype is that of the class it extends, so a list that is read there *)
(* and extended in place is the list of an ancestor.                       *)
(*                                                                         *)
(* A mark is one decorator at work.  What it was given (a path, a token, a *)
(* guard) is abstracted to its position in `marks`.                        *)
(***************************************************************************)
EXTENDS Naturals, Sequences, FiniteSets, SequencesExt

CONSTANTS
  Definitions, \* the classes, 1..n in the order of their definitions
  Parent,      \* [Definitions -> Definitions \cup {0}]: what a class extends
  Members,     \* names of fields and methods
  Static,      \* those that are static
  MaxMarks     \* bound on the decorators of a program

\* A class extends one that was defined before.
ASSUME ProgramAssumption ==
  /\ Definitions \subseteq Nat \ {0} /\ 1 \in Definitions
  /\ \A c \in Definitions : 1..c \subseteq Definitions
  /\ \A c \in Definitions : Parent[c] \in Definitions \cup {0} /\ Parent[c] < c
  /\ Static \subseteq Members

VARIABLES
  current,  \* the class being defined
  part,     \* its "members" are decorated, then the "class" itself; "over" or "refused"
  own,      \* class -> key -> the list its own metadata object holds, or <<>>
  marks     \* the decorators so far: [class, kind, member]

decoratorVars == <<current, part, own, marks>>

Keys == {"injectable", "dependencies", "module", "global", "tags", "requestMapping", "guards",
         "patterns", "queued", "crons", "bindings", "controller", "queue", "filter", "command",
         "options"}

-----------------------------------------------------------------------------
(* Metadata objects.                                                       *)

\* A class and those it extends: the least set with the class and their parents.
WithParents(S) == \A e \in S : Parent[e] = 0 \/ Parent[e] \in S
Ancestors == [c \in Definitions |->
  {d \in Definitions : \A S \in SUBSET Definitions : c \in S /\ WithParents(S) => d \in S}]

\* The class whose object a lookup by c ends at; c itself if it finds nothing.
Holder(o, c, key) ==
  LET holders == {d \in Ancestors[c] : o[d][key] # <<>>} IN
  IF holders = {} THEN c ELSE CHOOSE d \in holders : \A e \in holders : e <= d

Read(o, c, key) == o[Holder(o, c, key)][key]

\* metadata[key] = x and metadata[key] ??= x
Put(o, c, key, x) == [o EXCEPT ![c][key] = <<x>>]
Keep(o, c, key, x) == IF Read(o, c, key) = <<>> THEN Put(o, c, key, x) ELSE o

\* (metadata[key] ??= []).push(x), and unshift(x)
Push(o, c, key, x) == [o EXCEPT ![Holder(o, c, key)][key] = Append(@, x)]
Unshift(o, c, key, x) == [o EXCEPT ![Holder(o, c, key)][key] = <<x>> \o @]

\* Faulty variant: the tag is pushed to the list that is found.
MutTagged(o, c, tag) ==
  IF Contains(Read(o, c, "tags"), tag) THEN o ELSE Push(o, c, "tags", tag)

\* Tags(): a list of its own for every class.
Tagged(o, c, tag) ==
  [o EXCEPT ![c]["tags"] = IF Contains(Read(o, c, "tags"), tag) THEN Read(o, c, "tags")
                                                                ELSE Append(Read(o, c, "tags"), tag)]

\* The entry of member m in a list of entries, or `blank`; and its change in place.
Entry(o, c, key, m, blank) ==
  LET entries == {e \in Range(Read(o, c, key)) : e.member = m} IN
  IF entries = {} THEN blank ELSE CHOOSE e \in entries : TRUE
Entered(o, c, key, entry) ==
  LET list == Read(o, c, key) IN
  IF \E i \in DOMAIN list : list[i].member = entry.member
  THEN LET i == CHOOSE i \in DOMAIN list : list[i].member = entry.member IN
       [o EXCEPT ![Holder(o, c, key)][key][i] = entry]
  ELSE Push(o, c, key, entry)

\* Injectable(), then Tags().
Component(o, c, id, tag) == Tagged(Keep(o, c, "injectable", id), c, tag)

-----------------------------------------------------------------------------
(* Decorators of members; a static one is refused by all of them.          *)

Id == Len(marks) + 1

Marked(kind, m, after) ==
  /\ Len(marks) < MaxMarks
  /\ marks' = Append(marks, [class |-> current, kind |-> kind, member |-> m])
  /\ own' = after
  /\ UNCHANGED <<current, part>>

MarkMember(kind, m, after) == part = "members" /\ m \notin Static /\ Marked(kind, m, after)

Refuse == part' = "refused" /\ UNCHANGED <<current, own, marks>>

RefuseStatic == part = "members" /\ Static # {} /\ Refuse

\* Two tokens for one field.
InjectedTwice(m) == \E i \in DOMAIN Read(own, current, "dependencies") :
                      Read(own, current, "dependencies")[i].member = m

Inject(m) ==
  \/ ~InjectedTwice(m)
     /\ MarkMember("inject", m, Push(own, current, "dependencies", [member |-> m, id |-> Id]))
  \/ part = "members" /\ InjectedTwice(m) /\ Refuse

Queued(m) == MarkMember("queued", m, Push(own, current, "queued", [member |-> m, id |-> Id]))

Cron(m) ==
  MarkMember("cron", m, Push(Tagged(own, current, "cron"), current, "crons",
                             [member |-> m, id |-> Id]))

Bound(m) == Push(own, current, "bindings", [member |-> m, id |-> Id])

\* Worker, PubSub, Routing, Topic and Rpc of the amqp package.
Binding(m) == MarkMember("binding", m, Bound(m))

RouteEntry(m) == Entry(own, current, "requestMapping", m,
                       [member |-> m, route |-> 0, guards |-> {}])
RouteEntered(entry) == Entered(own, current, "requestMapping", entry)

\* Get, Post, Put, Patch, Delete, Options and Head.
Route(m) == MarkMember("route", m, RouteEntered([RouteEntry(m) EXCEPT !.route = Id]))

GuardMethod(m) ==
  MarkMember("guard", m, RouteEntered([RouteEntry(m) EXCEPT !.guards = @ \cup {Id}]))

BlankPattern(m) == [member |-> m, type |-> "message", pattern |-> 0]

\* MessagePattern and EventPattern.
Pattern(kind, m) ==
  LET entry == Entry(own, current, "patterns", m, BlankPattern(m)) IN
  MarkMember(kind, m, Entered(own, current, "patterns",
                              [entry EXCEPT !.type = kind, !.pattern = Id]))

-----------------------------------------------------------------------------
(* Decorators of classes.                                                  *)

MarkClass(kind, after) == part = "class" /\ Marked(kind, "", after)

Injectable == MarkClass("injectable", Keep(own, current, "injectable", Id))

Module == MarkClass("module", Keep(Keep(own, current, "injectable", Id), current, "module", Id))

Global == MarkClass("global", Put(own, current, "global", Id))

GuardClass == MarkClass("guards", Push(own, current, "guards", Id))

Controller ==
  MarkClass("controller", Put(Component(own, current, Id, "controller"), current, "controller", Id))

MessageController == MarkClass("messages", Component(own, current, Id, "messages"))

QueueHandler == MarkClass("queue", Put(Component(own, current, Id, "queue"), current, "queue", Id))

AmqpConsumer == MarkClass("consumer", Component(own, current, Id, "consumer"))

Catch == MarkClass("filter", Component(Put(own, current, "filter", Id), current, Id, "filter"))

\* ConsoleCommand() with a list of options: a list of its own, before what it finds.
ConsoleCommand ==
  LET described == Put(Component(own, current, Id, "command"), current, "command", Id) IN
  MarkClass("command", [described EXCEPT ![current]["options"] =
                          <<Id>> \o Read(described, current, "options")])

Option == MarkClass("option", Unshift(own, current, "options", Id))

-----------------------------------------------------------------------------
EndMembers == part = "members" /\ part' = "class" /\ UNCHANGED <<current, own, marks>>

EndClass ==
  /\ part = "class"
  /\ IF current + 1 \in Definitions THEN part' = "members" /\ current' = current + 1
                                ELSE part' = "over" /\ UNCHANGED current
  /\ UNCHANGED <<own, marks>>

DecoratorsInit ==
  /\ current = 1 /\ part = "members" /\ marks = <<>>
  /\ own = [c \in Definitions |-> [key \in Keys |-> <<>>]]

DecorateMember ==
  \/ \E m \in Members : \/ Inject(m) \/ Queued(m) \/ Cron(m) \/ Binding(m)
                        \/ Route(m) \/ GuardMethod(m)
                        \/ Pattern("message", m) \/ Pattern("event", m)
  \/ RefuseStatic

DecorateClass ==
  \/ Injectable \/ Module \/ Global \/ GuardClass \/ Controller \/ MessageController
  \/ QueueHandler \/ AmqpConsumer \/ Catch \/ ConsoleCommand \/ Option

DecoratorsNext == DecorateMember \/ EndMembers \/ DecorateClass \/ EndClass

DecoratorsSpec == DecoratorsInit /\ [][DecoratorsNext]_decoratorVars

-----------------------------------------------------------------------------
Once(list, Test(_)) == Cardinality({i \in DOMAIN list : Test(list[i])}) = 1

ListOf(kind) ==
  CASE kind = "inject" -> "dependencies" [] kind = "queued" -> "queued" [] kind = "cron" -> "crons"
    [] kind = "binding" -> "bindings"

Tagging == {"cron", "controller", "messages", "queue", "consumer", "filter", "command"}

\* Class c reads mark i where its consumers look for it.
ReadBy(c, i) ==
  LET kind == marks[i].kind  m == marks[i].member IN
  /\ kind \in {"inject", "queued", "cron", "binding"} =>
       Once(Read(own, c, ListOf(kind)), LAMBDA e : e = [member |-> m, id |-> i])
  /\ kind \in {"route", "guard"} =>
       Once(Read(own, c, "requestMapping"), LAMBDA e :
         e.member = m /\ (IF kind = "guard" THEN i \in e.guards ELSE e.route >= i))
  /\ kind \in {"message", "event"} =>
       Once(Read(own, c, "patterns"), LAMBDA e : e.member = m /\ e.pattern >= i)
  /\ kind = "guards" => Contains(Read(own, c, "guards"), i)
  /\ kind \in {"option", "command"} => Once(Read(own, c, "options"), LAMBDA id : id = i)
  /\ kind \in Tagging => Contains(Read(own, c, "tags"), kind)

\* Safety.  However decorators are stacked and classes extend each other, a class reads
\* every mark of its own and of its ancestors, once, a guard with the entry of its method
\* whether it is above the route or below; and a tag, by which the containers discover
\* a class, is never read by a class that neither has it nor extends one that has.
MarksAreRead ==
  \A c \in 1..current :
    /\ \A i \in DOMAIN marks : marks[i].class \in Ancestors[c] => ReadBy(c, i)
    /\ \A tag \in Range(Read(own, c, "tags")) : \E i \in DOMAIN marks :
         marks[i].class \in Ancestors[c] /\ marks[i].kind = tag
=============================================================================
