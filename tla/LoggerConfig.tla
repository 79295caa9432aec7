----------------------------- MODULE LoggerConfig ---------------------------
(***************************************************************************)
(* One logger and its configurations: what it is given, by the program, by *)
(* texts and value by value, is merged into its list, and the typed maps   *)
(* are built anew.  The question is whether what the logger then uses is   *)
(* what was asked for.                                                     *)
(***************************************************************************)
EXTENDS LogConfig

CONSTANTS
  Text,         \* configuration texts that may be given to the logger
  Change,       \* settings that may be changed alone
  Format        \* formats that may be given to Global or to a level

ASSUME TextAssumption ==
  \A text \in Text :
    /\ text \in Seq(Range(text))
    /\ \A i \in DOMAIN text :
         /\ text[i].kind \in {"comment", "level", "config"}
         /\ text[i].kind = "config" /\ text[i].name = "format" => IsFormat(text[i].value)
ASSUME ChangeAssumption ==
  \A s \in Change :
    /\ s.level \in Level \cup {Global}
    /\ s = Setting(s.level, s.type, s.value)
    /\ s.type = "Format" => IsFormat(s.value)
ASSUME FormatAssumption ==
  "Format" \in ConfigurationType /\ \A f \in Format : IsFormat(f)

VARIABLES
  conf,       \* m_configurations
  typed,      \* m_typedConfigurations
  wanted,     \* the value asked for, by level and type (history)
  strayed     \* levels and types known to have another (history)

vars == <<conf, typed, wanted, strayed>>
AllLevels == Level \cup {Global}

-----------------------------------------------------------------------------
(* What is asked for, as the header says: a value replaces the one a level *)
(* has, a value for Global those of all levels, and the types kept for     *)
(* Global only ignore other levels.                                        *)

Positions(settings, level, type) ==
  {i \in DOMAIN settings : settings[i].level = level /\ settings[i].type = type}
GivenTo(settings, level, type) ==
  Positions(settings, Global, type) \cup
  (IF type \in GlobalTypes THEN {} ELSE Positions(settings, level, type))
Wanted(old, settings) ==
  [l \in AllLevels |-> [type \in ConfigurationType |->
     LET given == GivenTo(settings, l, type)
     IN  IF given = {} THEN old[l][type] ELSE settings[Max(given)].value]]
Nothing == [l \in AllLevels |-> [type \in ConfigurationType |-> "unset"]]

\* The settings a text makes, read off its lines; what makes none, or is not
\* understood, is left as one of "Unknown".
LevelAt(text, i) ==
  LET before == {j \in 1 .. i : text[j].kind = "level"}
  IN  IF before = {} THEN "Unknown"
      ELSE ConvertFromString(stringToLevelMap, text[Max(before)].name)
Said(text) ==
  [i \in DOMAIN text |->
    IF text[i].kind = "config"
    THEN Setting(LevelAt(text, i),
                 ConvertFromString(configStringToTypeMap, text[i].name),
                 text[i].value)
    ELSE Setting("Unknown", "Unknown", "")]
\* The defaults of setRemainingToDefault().
Defaults ==
  [i \in DOMAIN DefaultSettings |->
    IF DefaultSettings[i].type \in {"ToFile", "LogFlushThreshold"}
    THEN Setting("Unknown", "Unknown", "") ELSE DefaultSettings[i]]

(* Where settings, given with defaults for what they leave out, stray.     *)

\* A level named before Global, and after it again, gets Global's value.
OutOfOrder(settings, level, type) ==
  LET own == Positions(settings, level, type)
      all == Positions(settings, Global, type)
  IN  /\ level # Global /\ own # {} /\ all # {}
      /\ Min(own) < Min(all) /\ Max(all) < Max(own)
\* The default of Global reaches levels with a value or a default of their own.
Overwritten(defaults, settings, level, type) ==
  /\ level # Global /\ Positions(settings, Global, type) = {}
  /\ \E i \in Positions(defaults, Global, type) :
       \/ Positions(settings, level, type) # {}
       \/ \E j \in Positions(defaults, level, type) :
            defaults[j].value # defaults[i].value
\* A type kept for Global only takes the value given for another level.
NotIgnored(settings, type) == \E l \in Level : Positions(settings, l, type) # {}

Strays(defaults, settings, level, type) ==
  IF type \in GlobalTypes THEN NotIgnored(settings, type)
  ELSE OutOfOrder(settings, level, type) \/ Overwritten(defaults, settings, level, type)
Strayed(old, defaults, settings) ==
  {pair \in AllLevels \X ConfigurationType :
    \/ Strays(defaults, settings, pair[1], pair[2])
    \/ /\ pair \in old
       /\ GivenTo(settings, pair[1], pair[2]) = {}
       /\ GivenTo(defaults, pair[1], pair[2]) = {}}

Ask(defaults, settings) ==
  /\ wanted' = Wanted(Wanted(wanted, defaults), settings)
  /\ strayed' = Strayed(strayed, defaults, settings)

-----------------------------------------------------------------------------
(* The logger, as the constructor of Storage leaves it                     *)

\* Every level has a format of its own, with its level in it.
Resolved(maps) ==
  [maps EXCEPT !["Format"] =
    [l \in DOMAIN @ |-> IF l = Global THEN @[l] ELSE ResolveLoggerFormatSpec(@[l])]]
Init ==
  /\ conf = DefaultConfigurations
  /\ typed = Resolved(Build(conf))
  /\ wanted = Wanted(Nothing, DefaultSettings)
  /\ strayed = {}

\* Logger::configure(): the new values are added to the old ones.
Configure(configurations) ==
  /\ conf' = SetFromBase(conf, configurations)
  /\ typed' = Resolved(Build(conf'))

\* main.cpp.
SetupLogger ==
  /\ Configure(ProgramConfigurations)
  /\ Ask(<< >>, DefaultSettings \o ProgramSettings)

\* Loggers::reconfigureLogger() with parsed configurations.
ReconfigureLogger(text) ==
  LET parsed == ParseFromText(NoConfigurations, text).conf
  IN  Configure(parsed) /\ Ask(<< >>, Said(text))

\* The same, with the default values for what the text does not say.
ReconfigureWithDefaults(text) ==
  LET parsed == ParseFromText(NoConfigurations, text).conf
  IN  Configure(SetRemainingToDefault(parsed)) /\ Ask(Defaults, Said(text))

\* Loggers::reconfigureAllLoggers(level, type, value).
ReconfigureAllLoggers(setting) ==
  /\ conf' = Set(conf, setting)
  /\ typed' = Resolved(Build(conf'))
  /\ Ask(<< >>, <<setting>>)

Next ==
  \/ SetupLogger
  \/ \E text \in Text : ReconfigureLogger(text) \/ ReconfigureWithDefaults(text)
  \/ \E setting \in Change : ReconfigureAllLoggers(setting)
  \/ \E level \in AllLevels, format \in Format :
       ReconfigureAllLoggers(Setting(level, "Format", format))

Spec == Init /\ [][Next]_vars

-----------------------------------------------------------------------------

\* A logger uses the value asked for, unless a file that cannot be opened has
\* turned ToFile off.
Uses(l, type) ==
  LET has == GetConfig(typed[type], l)
      asked == Converted(Setting(l, type, wanted[l][type]))
      allOpen == \A k \in AllLevels : IsOpen(GetConfig(typed["Filename"], k))
  IN  CASE type = "ToFile" -> (has => asked) /\ (allOpen => has = asked)
        [] type = "Format" -> has.level = l /\ has.userFormat = wanted[l][type]
        [] OTHER -> has = asked

\* Through the merging of lists, the maps that leave out what equals Global's
\* value, and the files that turn ToFile off, the logger uses what was asked for
\* in every level and type that has not strayed.
EffectiveIsSet ==
  \A l \in Level, type \in ConfigurationType : <<l, type>> \notin strayed => Uses(l, type)

\* easylogging++.h:1773-1776 and 1821: a value replaces the one a level has, types
\* that do not depend on the level are ignored if not set for Global, and defaults
\* go to levels and types there is no configuration for.
EffectiveIsWanted == \A l \in Level, type \in ConfigurationType : Uses(l, type)

\* A message that itself holds text that looks like specifiers.
Message == <<Specifier("line"), Value("text"), Escaped("msg")>>

\* What the line of a format should be, escape marks aside: the first specifier
\* of a kind replaced, with its date format, everything else in its place.
Unmarked(token) == IF token[1] = "escaped" THEN Specifier(token[2]) ELSE token
Printed(format, level) ==
  LET First(i) == format[i][1] = "spec" /\ \A j \in 1 .. i - 1 : format[j] # format[i]
      Name(i) == format[i][2]
      DateAt(i) == /\ i \in DOMAIN format \ {1} /\ format[i][1] = "date"
                   /\ format[i - 1] = Specifier("datetime") /\ First(i - 1)
      Piece(i) ==
        IF DateAt(i) THEN << >>
        ELSE IF ~First(i) THEN <<format[i]>>
        ELSE CASE Name(i) = "msg" -> Message
               [] Name(i) = "datetime" ->
                    IF DateAt(i + 1) THEN <<format[i + 1]>> ELSE <<DateFormat("default")>>
               [] Name(i) \in {"level", "levshort"} -> <<<<Name(i), level>>>>
               [] Name(i) = "vlevel" /\ level # "Verbose" -> <<format[i]>>
               [] OTHER -> <<Value(Name(i))>>
  IN  FlattenSeq([i \in DOMAIN format |-> Piece(i)])

\* A statement prints the format asked for its level, if it has not strayed, and
\* its message as it is.
LineIsFormat ==
  \A l \in Level : <<l, "Format">> \notin strayed =>
    LET line == BuildLine(GetConfig(typed["Format"], l), l, Message)
        printed == Printed(wanted[l]["Format"], l)
    IN  [i \in DOMAIN line |-> Unmarked(line[i])] =
        [i \in DOMAIN printed |-> Unmarked(printed[i])]
=============================================================================
