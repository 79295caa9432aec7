------------------------------ MODULE LogFormat -----------------------------
(***************************************************************************)
(* LogFormat and DefaultLogBuilder (easylogging++): how the format of a    *)
(* level becomes the line that a statement prints.  A specifier that is    *)
(* escaped is not replaced; only the first occurrence of one that is not   *)
(* is.  A format is a sequence of tokens; what stands between specifiers   *)
(* is left out.                                                            *)
(***************************************************************************)
EXTENDS Integers, SequencesExt, FiniteSetsExt

\* %name, %%name, {date format}, and what a specifier is replaced by.
Specifier(name) == <<"spec", name>>
Escaped(name) == <<"escaped", name>>
DateFormat(name) == <<"date", name>>
Value(name) == <<"value", name>>
Specs(names) == [i \in DOMAIN names |-> Specifier(names[i])]

\* In the order in which parseFromFormat() looks for them.
Specifiers ==
  <<"app", "level", "levshort", "logger", "thread", "file", "fbase", "line", "loc",
    "func", "user", "host", "msg", "vlevel">>
SpecifierName == Range(Specifiers) \cup {"datetime"}

\* Where every %datetime is escaped, parsing reads beyond the format.
Token == ({"spec", "escaped"} \X SpecifierName) \cup ({"date", "value"} \X STRING)
IsFormat(format) ==
  /\ format \in Seq(Token)
  /\ Escaped("datetime") \in Range(format) => Specifier("datetime") \in Range(format)

\* Escapes in front of the first unescaped occurrence lose their mark, and it
\* is replaced; without one, all lose it.
Unescaped(format, name) == {i \in DOMAIN format : format[i] = Specifier(name)}
FirstOf(format, name) ==
  IF Unescaped(format, name) = {} THEN Len(format) + 1 ELSE Min(Unescaped(format, name))
ReplaceFirstWithEscape(format, name, values) ==
  LET at == FirstOf(format, name)
      Replaced(i) == CASE i = at -> values
                       [] i < at /\ format[i] = Escaped(name) -> <<Specifier(name)>>
                       [] OTHER -> <<format[i]>>
  IN  FlattenSeq([i \in DOMAIN format |-> Replaced(i)])

\* The flag of a specifier is set where it first occurs unescaped, and escapes
\* behind that place lose their mark.
ConditionalAddFlag(format, name) ==
  LET at == FirstOf(format, name)
  IN  [i \in DOMAIN format |->
        IF i > at /\ format[i] = Escaped(name) THEN Specifier(name) ELSE format[i]]

\* The format of the date follows the specifier and is taken out.
UpdateDateFormat(format) ==
  LET at == FirstOf(format, "datetime")
  IN  IF at < Len(format) /\ format[at + 1][1] = "date"
      THEN [format |-> RemoveAt(format, at + 1), date |-> format[at + 1]]
      ELSE [format |-> format, date |-> DateFormat("default")]

\* What does not change from line to line is replaced at once.
Substituted(level, flags, format, name) ==
  CASE name \in {"level", "levshort"} ->
         ReplaceFirstWithEscape(format, name, <<<<name, level>>>>)
    [] name \in flags \ {"level", "levshort"} ->
         ReplaceFirstWithEscape(format, name, <<Value(name)>>)
    [] OTHER -> format
UpdateFormatSpec(level, format, flags) ==
  LET Substitute(fmt, name) == Substituted(level, flags, fmt, name)
  IN  IF level = "Global" THEN FoldLeft(Substitute, format, <<"user", "host">>)
      ELSE FoldLeft(Substitute, format, <<"level", "levshort", "user", "host">>)

\* A LogFormat.
ParseFromFormat(level, userFormat) ==
  LET marked == FoldLeft(ConditionalAddFlag, userFormat, Specifiers)
      flags == {name \in SpecifierName : Unescaped(userFormat, name) # {}}
      dated == UpdateDateFormat(marked)
  IN  [level |-> level, userFormat |-> userFormat, flags |-> flags,
       date |-> dated.date,
       format |-> UpdateFormatSpec(level, dated.format, flags)]

\* Logger::resolveLoggerFormatSpec(), for the format of one level.
ResolveLoggerFormatSpec(logFormat) ==
  [logFormat EXCEPT !.format = ReplaceFirstWithEscape(@, "logger", <<Value("logger")>>)]

\* DefaultLogBuilder::build(): the message comes last.
\* Mutant: first.
MessageFirst ==
  <<"msg", "app", "thread", "datetime", "func", "file", "fbase", "line", "loc", "vlevel">>
BuildOrder ==
  <<"app", "thread", "datetime", "func", "file", "fbase", "line", "loc", "vlevel", "msg">>
WithValue(logFormat, level, message, line, name) ==
  LET value == CASE name = "msg" -> message
                 [] name = "datetime" -> <<logFormat.date>>
                 [] OTHER -> <<Value(name)>>
  IN  IF /\ name \in logFormat.flags
         /\ name = "vlevel" => level = "Verbose"
      THEN ReplaceFirstWithEscape(line, name, value) ELSE line
BuildLine(logFormat, level, message) ==
  LET Add(line, name) == WithValue(logFormat, level, message, line, name)
  IN  FoldLeft(Add, logFormat.format, BuildOrder)
=============================================================================
