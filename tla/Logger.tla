------------------------------- MODULE Logger -------------------------------
(***************************************************************************)
(* The loggers of packages/logger/logger.ts: which messages, label and     *)
(* stack the arguments of a call are taken for, what is written for them,  *)
(* and overrideLogger() on the logger behind the static methods.  Colours  *)
(* and the layout of a line are left out.                                  *)
(***************************************************************************)
EXTENDS Naturals, Sequences

CONSTANTS
  Loggers,      \* loggers made with options; "static" is behind the static methods
  LoggerOptions,\* logger -> [json : BOOLEAN, timestamp : BOOLEAN, levels, label]
  Labels,       \* labels that overrideLogger() is called with
  LevelLists,   \* lists of levels that it is called with
  Arguments     \* arguments of a call: [kind : {"text", "stack", "object"}, text]

VARIABLES
  settings,     \* logger -> its options; label "" is undefined
  originalLabel,\* originalContext of the static logger, or ""
  printed,      \* lastTimestampAt is set
  call,         \* the last call: [logger, level, args]
  lines         \* what it wrote: [message, label, stack, target, elapsed]

loggerVars == <<settings, originalLabel, printed, call, lines>>

LogLevels == {"debug", "verbose", "log", "warn", "fatal", "error"}
Absent == [kind |-> "absent", text |-> ""]
IsText(arg) == arg.kind \in {"text", "stack"}
LabelOf(l) == IF settings[l].label = "" THEN Absent
                                       ELSE [kind |-> "text", text |-> settings[l].label]

\* Faulty variant: a label is dropped from the messages even if it is no text.
MutSplitLabel(l, args) ==
  IF Len(args) > 1
  THEN [messages |-> SubSeq(args, 1, Len(args) - 1), stack |-> Absent,
        label |-> IF IsText(args[Len(args)]) THEN args[Len(args)] ELSE LabelOf(l)]
  ELSE [messages |-> args, label |-> LabelOf(l), stack |-> Absent]

\* A text at the end of several arguments is the label.
SplitLabel(l, args) ==
  IF Len(args) > 1 /\ IsText(args[Len(args)])
  THEN [messages |-> SubSeq(args, 1, Len(args) - 1), label |-> args[Len(args)], stack |-> Absent]
  ELSE [messages |-> args, label |-> LabelOf(l), stack |-> Absent]

\* error() takes one more argument for a stack: the same text that is the label when
\* several messages are left.
SplitStack(l, args) ==
  LET split == SplitLabel(l, args)
      end == args[Len(args)] IN
  IF Len(args) = 2 /\ args[2].kind = "stack"
  THEN [messages |-> <<args[1]>>, label |-> LabelOf(l), stack |-> args[2]]
  ELSE IF Len(args) # 2 /\ Len(split.messages) > 1 /\ IsText(end)
  THEN [split EXCEPT !.stack = end]
  ELSE split

Target(level) == IF level \in {"error", "fatal"} THEN "stderr" ELSE "stdout"

\* printMessages(): a line for each message; the time since the last plain line of any
\* logger is shown after the first one.
MessageLines(l, level, split) ==
  [i \in DOMAIN split.messages |->
     [message |-> split.messages[i], label |-> split.label, target |-> Target(level),
      stack |-> IF settings[l].json THEN split.stack ELSE Absent,
      elapsed |-> ~settings[l].json /\ settings[l].timestamp /\ (printed \/ i > 1)]]

\* error() writes a stack of its own after the lines, unless they are JSON.
StackLine(l, split) ==
  IF split.stack = Absent \/ settings[l].json THEN <<>>
  ELSE << [message |-> Absent, label |-> Absent, target |-> "stderr", stack |-> split.stack,
           elapsed |-> FALSE] >>

Log(l, level, args) ==
  LET split == IF level = "error" THEN SplitStack(l, args) ELSE SplitLabel(l, args) IN
  /\ call' = [logger |-> l, level |-> level, args |-> args]
  /\ IF level \notin settings[l].levels THEN lines' = <<>> /\ UNCHANGED printed
     ELSE /\ lines' = MessageLines(l, level, split) \o StackLine(l, split)
          /\ printed' = (printed \/ ~settings[l].json)
  /\ UNCHANGED <<settings, originalLabel>>

\* overrideLogger() with a list of levels.
OverrideLevels(levels) ==
  /\ settings' = [settings EXCEPT !["static"].levels = levels]
  /\ UNCHANGED <<originalLabel, printed, call, lines>>

\* overrideLogger() with a label; the label there was is kept if none is.
OverrideLabel(label) ==
  /\ originalLabel' = IF originalLabel = "" THEN settings["static"].label ELSE originalLabel
  /\ settings' = [settings EXCEPT !["static"].label = label]
  /\ UNCHANGED <<printed, call, lines>>

\* overrideLogger(null) goes back to the label that was kept.
RestoreLabel ==
  /\ originalLabel # ""
  /\ settings' = [settings EXCEPT !["static"].label = originalLabel]
  /\ originalLabel' = ""
  /\ UNCHANGED <<printed, call, lines>>

NoCall == [logger |-> "static", level |-> "log", args |-> <<>>]

LoggerInit ==
  /\ settings = LoggerOptions /\ originalLabel = "" /\ printed = FALSE
  /\ call = NoCall /\ lines = <<>>

LoggerNext ==
  \/ \E l \in Loggers, level \in LogLevels, n \in 1..3 :
       \E args \in [1..n -> Arguments] : Log(l, level, args)
  \/ \E levels \in LevelLists : OverrideLevels(levels)
  \/ \E label \in Labels : OverrideLabel(label)
  \/ RestoreLabel

LoggerSpec == LoggerInit /\ [][LoggerNext]_loggerVars

-----------------------------------------------------------------------------
\* Safety.  Nothing that is logged is lost: every argument of a call that wrote anything
\* is a message, the label or the stack of one of its lines, whichever way the arguments
\* are split, and the lines of an error or a fatal one go to stderr, all others to stdout.
EveryArgumentShows ==
  lines # <<>> =>
    /\ \A i \in DOMAIN call.args : \E j \in DOMAIN lines :
         call.args[i] \in {lines[j].message, lines[j].label, lines[j].stack}
    /\ \A j \in DOMAIN lines : lines[j].target = Target(call.level)
=============================================================================
