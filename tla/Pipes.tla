------------------------------- MODULE Pipes -------------------------------
(***************************************************************************)
(* What a handler reads from its request through a pipe: query(),          *)
(* queries() and param() of the request context (packages/platform-hono)   *)
(* and the pipes of packages/core/pipes.                                   *)
(*                                                                         *)
(* A value is [type, is].  Numbers are named, "NaN" and "Infinity" among   *)
(* them; what the language makes of a text is a constant.                  *)
(***************************************************************************)
EXTENDS Naturals, Sequences

CONSTANTS
  PipeSet,   \* [kind, optional, default, version, enum, names]; default is <<>> or a
             \* <<date>>, version 0 or a number, enum the values of the members of an
             \* enum, names what its object lists beside them: the names of its
             \* members that are numbers
  Queries,   \* what the request holds for a key: a sequence of texts
  Text       \* text -> [integer: it is digits with a sign or without, float: parseFloat(),
             \*          number: Number(), date: new Date() is valid, uuid: its versions]

\* A value of an enum is a text or a number; only a date has a default, and it is a date.
ASSUME PipeAssumption ==
  \A p \in PipeSet :
    /\ p \in [kind : {"int", "float", "bool", "date", "enum", "uuid"}, optional : BOOLEAN,
              default : Seq([type : {"date"}, is : STRING]), version : Nat,
              enum : SUBSET [type : {"string", "number"}, is : STRING],
              names : SUBSET [type : {"string"}, is : STRING]]
    /\ p.default # <<>> => p.kind = "date"

ASSUME TextAssumption ==
  /\ Queries \subseteq Seq(DOMAIN Text)
  /\ \A t \in DOMAIN Text : Text[t] \in [integer : BOOLEAN, float : STRING, number : STRING,
                                        date : BOOLEAN, uuid : SUBSET Nat]

VARIABLES
  pipe, query,
  outcome    \* <<>>, or what transform() returned or threw, for one text after the other

pipeVars == <<pipe, query, outcome>>

Undefined == [type |-> "undefined", is |-> ""]
Str(text) == [type |-> "string", is |-> text]
Num(n) == [type |-> "number", is |-> n]
Bool(b) == [type |-> "boolean", is |-> IF b THEN "true" ELSE "false"]
Date(d) == [type |-> "date", is |-> d]

Refused == [type |-> "error", is |-> "BadRequest"]
Nil(v) == v.type \in {"undefined", "null"}
Finite(n) == n \notin {"NaN", "Infinity"}

-----------------------------------------------------------------------------
(* The pipes.                                                              *)

FiniteOr(n) == IF Finite(n) THEN Num(n) ELSE Refused

\* extractNumericValue() of ParseFloatPipe.
FloatOf(v) ==
  IF Nil(v) THEN Refused ELSE FiniteOr(IF v.type = "string" THEN Text[v.is].float ELSE v.is)

\* Faulty variant: a text that begins like an integer is one.
MutIntOf(v) == FloatOf(v)

\* And of ParseIntPipe; a number is not looked at more closely.
IntOf(v) == IF v.type = "string" /\ ~Text[v.is].integer THEN Refused ELSE FloatOf(v)

BoolOf(v) ==
  CASE v.is = "true" /\ v.type \in {"string", "boolean"}  -> Bool(TRUE)
    [] v.is = "false" /\ v.type \in {"string", "boolean"} -> Bool(FALSE)
    [] OTHER -> Refused

\* What is falsy is no date, the number 0 included.
DateOf(v) ==
  IF Nil(v) \/ v \in {Str(""), Num("0"), Num("NaN")} THEN Refused
  ELSE CASE v.type = "date"   -> v
         [] v.type = "number" -> IF Finite(v.is) THEN Date(v.is) ELSE Refused
         [] v.type = "string" -> IF Text[v.is].date THEN Date(v.is) ELSE Refused

\* Number(); null is 0.
NumberOf(v) ==
  CASE v.type = "string" -> Text[v.is].number [] v.type = "null" -> "0"
    [] v.type = "number" -> v.is [] OTHER -> "NaN"

\* A value of the enum's object, or the number that it is the text of.
EnumOf(p, v) ==
  IF v \in p.enum \cup p.names THEN v
  ELSE IF NumberOf(v) # "NaN" /\ Num(NumberOf(v)) \in p.enum THEN Num(NumberOf(v))
  ELSE Refused

UuidOf(p, v) ==
  IF v.type = "string" /\ (IF p.version # 0 THEN p.version \in Text[v.is].uuid ELSE Text[v.is].uuid # {})
  THEN v ELSE Refused

Parse(p, v) ==
  CASE p.kind = "int" -> IntOf(v) [] p.kind = "float" -> FloatOf(v) [] p.kind = "bool" -> BoolOf(v)
    [] p.kind = "date" -> DateOf(v) [] p.kind = "enum" -> EnumOf(p, v) [] p.kind = "uuid" -> UuidOf(p, v)

\* transform(): an optional pipe lets nothing through as it is, or as its default.
Transform(p, v) ==
  IF p.optional /\ Nil(v) THEN (IF p.default = <<>> THEN v ELSE p.default[1]) ELSE Parse(p, v)

-----------------------------------------------------------------------------
(* The request context.                                                    *)

\* query() and param(): the first text of the key, or undefined.
One(p, texts) == Transform(p, IF texts = <<>> THEN Undefined ELSE Str(texts[1]))

\* queries(): all of them, until one is refused.
All(p, texts) ==
  LET value(i) == Transform(p, Str(texts[i])) IN
  [i \in {n \in DOMAIN texts : \A j \in 1..(n - 1) : value(j) # Refused} |-> value(i)]

PipesInit == pipe \in PipeSet /\ query \in Queries /\ outcome = <<>>

Ask ==
  /\ outcome = <<>>
  /\ \/ outcome' = <<One(pipe, query)>>
     \/ outcome' = All(pipe, query)
  /\ UNCHANGED <<pipe, query>>

PipesSpec == PipesInit /\ [][Ask]_pipeVars

-----------------------------------------------------------------------------
\* What transform() gave for `given` is v.
Sound(p, given, v) ==
  LET required == [p EXCEPT !.optional = FALSE] IN
  IF v = Refused THEN Transform(required, given) = Refused
  ELSE /\ Transform(p, v) = v
       /\ given = Undefined => p.optional
       /\ given # Undefined =>
            /\ Transform(required, given) = v
            /\ p.kind = "int" => /\ v.type = "number" /\ Finite(v.is) /\ Text[given.is].integer
                                 /\ Transform([p EXCEPT !.kind = "float"], given) = v
            /\ p.kind = "float" => v.type = "number" /\ Finite(v.is)
            /\ p.kind = "bool" => v.type = "boolean"
            /\ p.kind = "date" => v.type = "date"
            /\ p.kind = "enum" => /\ v \in p.enum \/ given \in p.names
                                  /\ v = given \/ v = Num(Text[given.is].number)
            /\ p.kind = "uuid" => Transform([p EXCEPT !.version = 0], given) = v

\* Safety.  Whatever a pipe lets through has its type, is what the pipe makes of it when it
\* is given it again, is refused by no other member of a family (a float is read where an
\* integer is, any version where one is), and differs with `optional` for nothing but
\* undefined and null; a required pipe lets no missing argument through.  An enum of
\* numbers is the exception: it lets the names of its members through as texts.
PipesAreSound ==
  \A i \in DOMAIN outcome :
    Sound(pipe, IF query = <<>> THEN Undefined ELSE Str(query[i]), outcome[i])
=============================================================================
