--------------------------- MODULE MCCommandLine ---------------------------
(***************************************************************************)
(* An instance of CommandLine for TLC: a command with a flag, a number     *)
(* with a default and an array; every line of up to four tokens is run,    *)
(* and compared with what every intent of up to three items means.         *)
(***************************************************************************)
EXTENDS CommandLine

Opt(name, shortcut, type, array, default) ==
  [name |-> name, shortcut |-> shortcut, type |-> type, array |-> array,
   required |-> FALSE, default |-> default]

Force == Opt("force", "f", "boolean", FALSE, <<>>)
Quiet == Opt("quiet", "q", "boolean", FALSE, <<>>)
Port == Opt("port", "p", "number", FALSE, <<"80">>)
Tag == Opt("tag", "t", "string", TRUE, <<>>)
To == [Opt("to", "", "string", FALSE, <<>>) EXCEPT !.required = TRUE]

MCCommands == [c \in {"run", "send"} |-> IF c = "run" THEN <<Force, Quiet, Port, Tag>> ELSE <<To>>]
MCNumerals == {"80", "81"}

Firsts == {Word("run"), Word("send"), Word("help"), Word("list"), Word("no"), Long("help", <<>>)}
Tokens ==
  {Long("force", <<>>), Short(<<"f">>, <<>>), Short(<<"f", "q">>, <<>>), Long("force", <<"x">>),
   Long("port", <<>>), Short(<<"p">>, <<"81">>), Long("port", <<"x">>), Short(<<"t">>, <<>>),
   Long("tag", <<"x">>), Long("to", <<>>), Short(<<"h">>, <<>>), Dash, Separator, Word("81"),
   Word("run")}

MCArgvs == {<<>>} \cup {<<f>> \o rest : f \in Firsts, rest \in UNION {[1..n -> Tokens] : n \in 0..3}}

Item(style, sets, token) == [style |-> style, sets |-> sets, token |-> token]
Sets(o, style, v) == Item(style, << <<o, v>> >>, Dash)
Flags(os) == Item("flags", [i \in DOMAIN os |-> <<os[i], "true">>], Dash)
Styles(o) == {"long=", "long value"}
               \cup (IF o.shortcut = "" THEN {} ELSE {"short=", "short value"})
Positionals == {Item("argument", <<>>, t) : t \in {Dash, Word("81"), Word("run")}}

Items(c) ==
  Positionals \cup
  IF c = "send" THEN {Sets(To, style, v) : style \in Styles(To), v \in {"81", "run"}}
  ELSE {Sets(Force, "long", "true"), Flags(<<Force>>), Flags(<<Force, Quiet>>)}
         \cup {Sets(Port, style, "81") : style \in Styles(Port)}
         \cup {Sets(Tag, style, v) : style \in Styles(Tag), v \in {"x", "81", "run"}}

RawsOf(n) == IF n = 0 THEN {<<>>} ELSE {<<Separator>> \o raw : raw \in [1..(n - 1) -> Tokens]}

MCIntents ==
  UNION {{[command |-> c, items |-> items, raw |-> raw] :
            items \in [1..n -> Items(c)],
            raw \in UNION {RawsOf(k) : k \in 0..(3 - n)}} :
         c \in {"run", "send"}, n \in 0..3}
=============================================================================
