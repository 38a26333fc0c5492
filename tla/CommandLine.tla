---------------------------- MODULE CommandLine ----------------------------
(***************************************************************************)
(* The console (packages/core/cli): preScanArgv() and parseCommandArgs()   *)
(* of _argv_parser.ts, and a run of ConsoleCommandRunner.  A token of the  *)
(* command line is a record, made by one of the operators below.           *)
(***************************************************************************)
EXTENDS Naturals, Sequences, FiniteSets, SequencesExt, TLC

CONSTANTS
  Commands,   \* name -> its options: [name, shortcut, type, array, required, default];
              \* no shortcut is "", no default <<>>, a default a sequence of values
  Numerals,   \* the words that Number() takes for a finite number
  Argvs,      \* the command lines to run
  Intents     \* what may be meant by a command line, see MeaningOf

\* A command line is a list.
ASSUME LineAssumption == \A line \in Argvs : line \in Seq(Range(line))

VARIABLES
  argv,
  phase,      \* "scan", "resolve", "execute", "done", or "rejected" when run() rejects
  parsed,     \* what the command is executed with
  executed,   \* the command that was executed, or NoName
  code,       \* exit code, "own" when it is the command's
  wrote       \* the targets that were written to

vars == <<argv, phase, parsed, executed, code, wrote>>

-----------------------------------------------------------------------------
\* No command, or one without a name.
NoName == ""

Token(kind, name, chars, literal, text) ==
  [kind |-> kind, name |-> name, chars |-> chars, literal |-> literal, text |-> text]

\* --name, --name=value, -abc, -a=value, a word, "-" and "--"; a literal is <<>> or <<value>>.
Long(name, literal) == Token("long", name, <<>>, literal, NoName)
Short(chars, literal) == Token("short", NoName, chars, literal, NoName)
Word(text) == Token("word", NoName, <<>>, <<>>, text)
Dash == Token("dash", NoName, <<>>, <<>>, "-")
Separator == Token("separator", NoName, <<>>, <<>>, "--")

StartsWithDash(token) == token.kind # "word"

HelpOption == [name |-> "help", shortcut |-> "h", type |-> "boolean", array |-> FALSE,
               required |-> FALSE, default |-> <<>>]
ColorOption == [HelpOption EXCEPT !.name = "no-color", !.shortcut = ""]
GlobalOptions == <<HelpOption, ColorOption>>

-----------------------------------------------------------------------------
(* preScanArgv(): up to a separator, the global flags are taken out        *)
(* wherever they are, and the first word is the command's name.            *)

HelpTokens == {Long("help", <<>>), Short(<<"h">>, <<>>)}
GlobalTokens == HelpTokens \cup {Long("no-color", <<>>)}

ScanNext(st, token) ==
  IF st.separated \/ token = Separator
  THEN [st EXCEPT !.separated = TRUE, !.rest = Append(@, token)]
  ELSE IF token \in GlobalTokens THEN [st EXCEPT !.help = @ \/ token \in HelpTokens]
  ELSE IF ~st.named /\ token.kind = "word"
  THEN [st EXCEPT !.named = TRUE, !.command = token.text]
  ELSE [st EXCEPT !.rest = Append(@, token)]

PreScan(tokens) ==
  LET start == [command |-> NoName, named |-> FALSE, rest |-> <<>>, help |-> FALSE,
                separated |-> FALSE]
      scan[n \in 0..Len(tokens)] == IF n = 0 THEN start ELSE ScanNext(scan[n - 1], tokens[n]) IN
  scan[Len(tokens)]

-----------------------------------------------------------------------------
(* parseCommandArgs(): a state is where it is, whether flags are parsed,   *)
(* the values recorded by name, the positional tokens, and the error.      *)

Fail(st, why) == [st EXCEPT !.error = why]

\* Faulty variant: a repeated option has its last value.
MutRecorded(st, def, value) ==
  [st EXCEPT !.out = (def.name :> (IF def.array /\ def.name \in DOMAIN @
                                   THEN Append(@[def.name], value) ELSE <<value>>)) @@ @]

\* record(): values add up for an array only.
Recorded(st, def, value) ==
  IF ~def.array /\ def.name \in DOMAIN st.out THEN Fail(st, "multiple")
  ELSE [st EXCEPT !.out = (def.name :> (IF def.name \in DOMAIN @ THEN Append(@[def.name], value)
                                                                 ELSE <<value>>)) @@ @]

\* cast(), and on to the token after the value.
Valued(st, def, value, n) ==
  IF def.type = "number" /\ value \notin Numerals THEN Fail(st, "number")
  ELSE Recorded([st EXCEPT !.at = @ + n], def, value)

\* An option that stands alone, by its name or its shortcut.
Single(tokens, st, defs) ==
  LET token == tokens[st.at] IN
  IF defs = {} THEN Fail(st, "unknown")
  ELSE LET def == CHOOSE d \in defs : TRUE IN
       IF def.type = "boolean"
       THEN IF token.literal # <<>> THEN Fail(st, "no value")
            ELSE Recorded([st EXCEPT !.at = @ + 1], def, "true")
       ELSE IF token.literal # <<>> THEN Valued(st, def, token.literal[1], 1)
       ELSE IF st.at = Len(tokens) \/ StartsWithDash(tokens[st.at + 1]) THEN Fail(st, "missing")
       ELSE Valued(st, def, tokens[st.at + 1].text, 2)

\* Flags combined in one token.
Combined(st, chars, options) ==
  FoldLeft(LAMBDA acc, ch :
      LET defs == {d \in Range(options) : d.shortcut = ch} IN
      IF acc.error # "" THEN acc
      ELSE IF defs = {} THEN Fail(acc, "unknown")
      ELSE IF \E d \in defs : d.type # "boolean" THEN Fail(acc, "combined")
      ELSE Recorded(acc, CHOOSE d \in defs : TRUE, "true"),
    [st EXCEPT !.at = @ + 1], chars)

\* One round of the loop: a token, with the value after it.
ParseNext(tokens, options, st) ==
  LET token == tokens[st.at] IN
  IF st.flags /\ token = Separator THEN [st EXCEPT !.flags = FALSE, !.at = @ + 1]
  ELSE IF st.flags /\ token.kind = "long"
  THEN Single(tokens, st, {d \in Range(options) : d.name = token.name})
  ELSE IF st.flags /\ token.kind = "short"
  THEN IF token.literal # <<>> \/ Len(token.chars) = 1
       THEN Single(tokens, st, {d \in Range(options) : <<d.shortcut>> = token.chars})
       ELSE Combined(st, token.chars, options)
  ELSE [st EXCEPT !.args = Append(@, token), !.at = @ + 1]

\* A round takes a token at least, so that there are no more of them than tokens.
ParseFrom(tokens, options, start) ==
  FoldLeft(LAMBDA st, t : IF st.error # "" \/ st.at > Len(tokens) THEN st
                          ELSE ParseNext(tokens, options, st), start, tokens)

\* applyDefaults(): a declared default, FALSE for a boolean, no value for an array.
Defaulted(options, st) ==
  LET left == {d \in Range(options) : d.name \notin DOMAIN st.out}
      given == {d \in left : d.default # <<>> \/ d.type = "boolean" \/ d.array} IN
  IF \E d \in left : d.required THEN Fail(st, "required")
  ELSE [st EXCEPT !.out = [n \in {d.name : d \in given} |->
          LET d == CHOOSE d \in given : d.name = n IN
          IF d.default = <<>> /\ d.type = "boolean" THEN <<"false">> ELSE d.default] @@ @]

\* indexOptions() refuses a name or a shortcut that is declared twice.
Declared(options) ==
  \A i, j \in DOMAIN options : i # j =>
    /\ options[i].name # options[j].name
    /\ options[i].shortcut = "" \/ options[i].shortcut # options[j].shortcut

Parse(tokens, declared) ==
  LET options == declared \o GlobalOptions
      start == [at |-> 1, flags |-> TRUE, out |-> <<>>, args |-> <<>>, error |-> ""]
      end == IF Declared(options) THEN ParseFrom(tokens, options, start)
                                  ELSE Fail(start, "declared") IN
  IF end.error # "" THEN end ELSE Defaulted(options, end)

-----------------------------------------------------------------------------
(* ConsoleCommandRunner.run().                                             *)

Exit(status, targets) ==
  phase' = "done" /\ code' = status /\ wrote' = wrote \cup targets

\* Faulty variant: help is given only when the command line can be parsed.
MutHelpAsked(scan) == scan.help /\ Parse(scan.rest, Commands[scan.command]).error = ""

\* --help or -h was somewhere before a separator.
HelpAsked(scan) == scan.help

\* run() and executeCommand() up to the first await.
Scan ==
  LET scan == PreScan(argv) IN
  /\ phase = "scan"
  /\ CASE scan.command \in {NoName, "list"} -> Exit("0", {"stdout"}) /\ UNCHANGED <<parsed, executed>>
       [] scan.command = "help" ->
            LET words == {i \in DOMAIN scan.rest : ~StartsWithDash(scan.rest[i])}
                first == CHOOSE i \in words : \A j \in words : i <= j IN
            /\ IF words # {} /\ scan.rest[first].text \notin DOMAIN Commands \cup {NoName}
               THEN Exit("1", {"stderr"}) ELSE Exit("0", {"stdout"})
            /\ UNCHANGED <<parsed, executed>>
       [] scan.command \notin DOMAIN Commands \cup {NoName, "list", "help"} ->
            Exit("1", {"stderr"}) /\ UNCHANGED <<parsed, executed>>
       [] OTHER ->
            IF HelpAsked(scan) THEN Exit("0", {"stdout"}) /\ UNCHANGED <<parsed, executed>>
            ELSE LET result == Parse(scan.rest, Commands[scan.command]) IN
                 IF result.error # ""
                 THEN Exit("1", {"stderr", "stdout"}) /\ UNCHANGED <<parsed, executed>>
                 ELSE /\ phase' = "resolve"
                      /\ parsed' = [options |-> result.out, args |-> result.args]
                      /\ executed' = scan.command
                      /\ UNCHANGED <<code, wrote>>
  /\ UNCHANGED argv

\* The command's instance is resolved outside of the try: run() rejects with its error.
Resolve ==
  /\ phase = "resolve"
  /\ phase' \in {"execute", "rejected"}
  /\ UNCHANGED <<argv, parsed, executed, code, wrote>>

\* execute() gives a number or something else, or throws.
Execute ==
  /\ phase = "execute"
  /\ Exit("own", {}) \/ Exit("0", {}) \/ Exit("1", {"stderr"})
  /\ UNCHANGED <<argv, parsed, executed>>

Init ==
  /\ argv \in Argvs /\ phase = "scan" /\ parsed = [options |-> <<>>, args |-> <<>>]
  /\ executed = NoName /\ code = "none" /\ wrote = {}

Next == Scan \/ Resolve \/ Execute

Spec == Init /\ [][Next]_vars
-----------------------------------------------------------------------------
(* What a command line means.  An intent is a command, the items wanted of *)
(* it in order, and raw tokens after a separator.  An item is an argument, *)
(* or sets options to values, several only when they are flags.            *)

Rendered(item) ==
  IF item.style = "argument" THEN <<item.token>>
  ELSE LET option == item.sets[1][1]  value == item.sets[1][2] IN
  CASE item.style = "long" -> <<Long(option.name, <<>>)>>
    [] item.style = "long=" -> <<Long(option.name, <<value>>)>>
    [] item.style = "long value" -> <<Long(option.name, <<>>), Word(value)>>
    [] item.style = "short=" -> <<Short(<<option.shortcut>>, <<value>>)>>
    [] item.style = "short value" -> <<Short(<<option.shortcut>>, <<>>), Word(value)>>
    [] item.style = "flags" ->
         <<Short([i \in DOMAIN item.sets |-> item.sets[i][1].shortcut], <<>>)>>

Line(intent) ==
  <<Word(intent.command)>> \o FlattenSeq([i \in DOMAIN intent.items |-> Rendered(intent.items[i])])
    \o (IF intent.raw = <<>> THEN <<>> ELSE <<Separator>> \o Tail(intent.raw))

ValuesOf(intent, option) ==
  LET sets == FlattenSeq([i \in DOMAIN intent.items |-> intent.items[i].sets])
      chosen == SelectSeq(sets, LAMBDA x : x[1] = option) IN
  [i \in DOMAIN chosen |-> chosen[i][2]]

\* An intent that can be carried out: required options are set, and single ones once.
Sensible(intent) ==
  \A d \in Range(Commands[intent.command]) :
    LET n == Len(ValuesOf(intent, d)) IN (d.required => n > 0) /\ (n > 1 => d.array)

MeaningOf(intent) ==
  LET options == Range(Commands[intent.command] \o GlobalOptions)
      valueOf(d) == IF ValuesOf(intent, d) # <<>> THEN ValuesOf(intent, d)
                    ELSE IF d.default = <<>> /\ d.type = "boolean" THEN <<"false">> ELSE d.default
      known == {d \in options : valueOf(d) # <<>> \/ d.array}
      arguments == SelectSeq(intent.items, LAMBDA x : x.style = "argument") IN
  [options |-> [n \in {d.name : d \in known} |-> valueOf(CHOOSE d \in known : d.name = n)],
   args |-> [i \in DOMAIN arguments |-> arguments[i].token]
              \o (IF intent.raw = <<>> THEN <<>> ELSE Tail(intent.raw))]

\* Meanings, and the lines that have one.
Meanings == {<<Line(i), i.command, MeaningOf(i)>> : i \in {i \in Intents : Sensible(i)}}
Meaningful == {m[1] : m \in Meanings}

-----------------------------------------------------------------------------
\* Safety.  A command that is executed gets exactly what the line means, in whichever
\* style and order its options, arguments and separator are written; and a line that
\* means something is not refused.
ExecutesWhatIsMeant ==
  /\ phase \in {"resolve", "execute"} /\ (\A t \in GlobalTokens : ~Contains(argv, t)) =>
       <<argv, executed, parsed>> \in Meanings
  /\ phase = "done" /\ executed = NoName /\ code = "1" => argv \notin Meaningful

\* The word that names the command, before any separator, and the word after it, which is
\* the topic of "help".
IsWord(token) == token.kind = "word"
NamedAt(tokens, i) ==
  IsWord(tokens[i]) /\ \A k \in 1..(i - 1) : ~IsWord(tokens[k]) /\ tokens[k] # Separator
TopicAt(tokens, i, j) ==
  i < j /\ IsWord(tokens[j]) /\ \A k \in (i + 1)..(j - 1) : ~IsWord(tokens[k])

AsksForHelp ==
  \E i \in DOMAIN argv : argv[i] \in HelpTokens /\ ~Contains(SubSeq(argv, 1, i), Separator)
AsksForNothing ==
  \A i \in DOMAIN argv : NamedAt(argv, i) => argv[i].text \in {NoName, "list", "help"}
UnknownNamed ==
  \E i \in DOMAIN argv :
    /\ NamedAt(argv, i)
    /\ \/ argv[i].text \notin DOMAIN Commands \cup {NoName, "list", "help"}
       \/ /\ argv[i].text = "help"
          /\ \E j \in DOMAIN argv : TopicAt(argv, i, j) /\ argv[j].text \notin DOMAIN Commands \cup {NoName}

\* Safety.  Asking for help, or for no command (the empty line, only flags, "list", "help"),
\* executes nothing, whatever else is on the line, and is a success; it is a failure when
\* the command that the line names, or the one that "help" is asked about, does not exist,
\* and then only.
HelpIsHarmless ==
  AsksForHelp \/ AsksForNothing =>
    /\ executed = NoName /\ phase \in {"scan", "done"}
    /\ phase = "done" => code = IF UnknownNamed THEN "1" ELSE "0"
=============================================================================
