---------------------------- MODULE MCLoggerConfig --------------------------
(* Instance of LoggerConfig for TLC. *)
EXTENDS LoggerConfig

ConfigLine(name, value) == [kind |-> "config", name |-> name, value |-> value]
LevelLine(name) == [kind |-> "level", name |-> name]
Numbers == {"0", "3", "6", "100", "209715200"}
MCNumeral == [n \in Numbers |->
                CASE n = "0" -> 0 [] n = "3" -> 3 [] n = "6" -> 6
                  [] n = "100" -> 100 [] n = "209715200" -> 209]
MCLevels == <<"Debug", "Fatal", "Warning">>

\* Texts of three sections with a value each, and one with what a parser skips.
Sections ==
  [level : {LevelLine("global"), LevelLine("warning")},
   value : {ConfigLine("enabled", "false"), ConfigLine("enabled", "1"),
            ConfigLine("filename", "/closed"), ConfigLine("to_file", "false")}]
MCText ==
  {<<a.level, a.value, b.level, b.value, c.level, c.value>> :
     a \in Sections, b \in Sections, c \in Sections} \cup
  {<< ConfigLine("enabled", "false"), [kind |-> "comment"], LevelLine("debug"),
      ConfigLine("nonsense", "1"), ConfigLine("milliseconds_width", "6"),
      LevelLine("nonsense"), ConfigLine("to_file", "false") >>}
\* Escapes before, behind and without what they escape; repetitions; a date.
MCFormat ==
  { <<Escaped("msg"), Specifier("level"), Specifier("msg")>>,
    <<Specifier("msg"), Escaped("level"), Escaped("msg"), Specifier("msg")>>,
    <<Specifier("datetime"), DateFormat("time"), Escaped("datetime"), Specifier("user")>>,
    <<Escaped("datetime"), DateFormat("time"), Specifier("datetime"), Specifier("msg")>>,
    <<Specifier("msg"), Specifier("line"), Specifier("vlevel"), Specifier("level"),
      Specifier("level")>>,
    <<Escaped("logger"), Specifier("logger"), Escaped("logger"), Specifier("levshort")>> }
MCChange ==
  { Setting(Global, "MaxLogFileSize", "0"),
    Setting("Warning", "LogFlushThreshold", "3"),
    Setting(Global, "ToFile", "false"), Setting("Debug", "ToFile", "true"),
    Setting(Global, "SubsecondPrecision", "6") }

\* Texts that stray: a level named before Global and after it; a level alone,
\* when the defaults are given too; a level's value of a type kept for Global.
\* The formats keep the default ones out of the first and the last.
FormatLine == ConfigLine("format", <<Specifier("msg")>>)
OrderText ==
  {<< LevelLine("warning"), ConfigLine("enabled", "1"),
      LevelLine("global"), FormatLine, ConfigLine("enabled", "false"),
      LevelLine("warning"), ConfigLine("enabled", "1") >>}
LevelText == {<< LevelLine("warning"), ConfigLine("enabled", "false") >>}
PrecisionText ==
  {<< LevelLine("global"), FormatLine, ConfigLine("subsecond_precision", "3"),
      LevelLine("warning"), ConfigLine("subsecond_precision", "6") >>}

CONSTANT MaxChanges  \* bound: changes of the configurations
VARIABLE changes
MCInit == Init /\ changes = 0
MCNext == changes < MaxChanges /\ Next /\ changes' = changes + 1
MCSpec == MCInit /\ [][MCNext]_<<vars, changes>>
=============================================================================
