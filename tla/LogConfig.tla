------------------------------ MODULE LogConfig -----------------------------
(***************************************************************************)
(* The configuration of a logger (easylogging++): el::Configurations, the  *)
(* list of (level, type, value) an application builds or parses, and       *)
(* TypedConfigurations, the maps the loggers read.                         *)
(*                                                                         *)
(* Values are strings, as in the code, except that a format is a sequence  *)
(* of tokens.  A typed map has an entry for a level only when it differs   *)
(* from the one of Global.                                                 *)
(***************************************************************************)
EXTENDS LogFormat

CONSTANTS
  LevelOrder,   \* the levels, in the order forEachLevel() visits them
  ConfigurationType,  \* the types looked at
  Numeral,      \* the numbers the numerals of the configurations stand for
  Unopenable    \* names of files that cannot be opened for writing

ASSUME LevelAssumption ==
  /\ LevelOrder \in Seq(Range(LevelOrder))
  /\ IsInjective(LevelOrder)
  /\ {"Debug", "Fatal", "Warning"} \subseteq Range(LevelOrder)
  /\ {"Global", "Unknown"} \cap Range(LevelOrder) = {}
AllTypes ==
  {"Enabled", "ToFile", "ToStandardOutput", "Format", "Filename",
   "SubsecondPrecision", "PerformanceTracking", "MaxLogFileSize",
   "LogFlushThreshold"}
ASSUME TypeAssumption ==
  /\ {"Enabled", "ToFile", "Filename", "MaxLogFileSize", "LogFlushThreshold"}
       \subseteq ConfigurationType
  /\ ConfigurationType \subseteq AllTypes
ASSUME NumeralAssumption == \A n \in DOMAIN Numeral : Numeral[n] \in Nat

Global == "Global"
Level == Range(LevelOrder)
\* They are kept for Global only, whatever the level they are given for.
GlobalTypes == {"SubsecondPrecision", "PerformanceTracking"}

-----------------------------------------------------------------------------
(* Configurations.  Entries of different types never meet, so the list is   *)
(* kept by type: the levels that have an entry, in the order in which they  *)
(* were registered, with their values.                                      *)

Setting(level, type, value) == [level |-> level, type |-> type, value |-> value]
NoConfigurations == [type \in ConfigurationType |-> << >>]
HasLevel(list, level) == \E i \in DOMAIN list : list[i].level = level
HasConfiguration(conf, level, type) ==
  type \in ConfigurationType /\ HasLevel(conf[type], level)

\* An entry there is takes the value, a new one is registered behind the others.
SetEntry(list, entry) ==
  IF HasLevel(list, entry.level)
  THEN [i \in DOMAIN list |-> IF list[i].level = entry.level THEN entry ELSE list[i]]
  ELSE Append(list, entry)

\* A value for Global is then given to one level after the other.
\* Mutant: only to the levels that are not registered.
Everywhere(setting) ==
  LET order == <<Global>> \o LevelOrder
  IN  [i \in DOMAIN order |-> [setting EXCEPT !.level = order[i]]]
SetMissing(list, setting) ==
  LET Add(entries, entry) ==
        IF entry.level # Global /\ HasLevel(entries, entry.level) THEN entries
        ELSE SetEntry(entries, entry)
  IN  CASE setting.level = Global -> FoldLeft(Add, list, Everywhere(setting))
        [] setting.level \in Level -> SetEntry(list, setting)
        [] OTHER -> list
SetIn(list, setting) ==
  CASE setting.level = Global -> FoldLeft(SetEntry, list, Everywhere(setting))
    [] setting.level \in Level -> SetEntry(list, setting)
    [] OTHER -> list
Set(conf, setting) ==
  [type \in ConfigurationType |->
    IF type = setting.type THEN SetIn(conf[type], setting) ELSE conf[type]]
SetAll(conf, settings) == FoldLeft(Set, conf, settings)

\* A list is applied in the order of its entries: an entry for a level that
\* stands before the one for Global is overwritten by it.
SetFromBase(conf, base) ==
  [type \in ConfigurationType |-> FoldLeft(SetIn, conf[type], base[type])]

DefaultSettings ==
  LET plain == Specs(<<"datetime", "level", "logger", "msg">>)
  IN  << Setting(Global, "Enabled", "true"),
         Setting(Global, "Filename", "/dev/null"),
         Setting(Global, "ToFile", "true"),
         Setting(Global, "ToStandardOutput", "true"),
         Setting(Global, "SubsecondPrecision", "3"),
         Setting(Global, "PerformanceTracking", "true"),
         Setting(Global, "MaxLogFileSize", "0"),
         Setting(Global, "LogFlushThreshold", "0"),
         Setting(Global, "Format", plain),
         Setting("Debug", "Format",
                 Specs(<<"datetime", "level", "logger", "user", "host", "func",
                         "loc", "msg">>)),
         Setting("Error", "Format", plain),
         Setting("Fatal", "Format", plain),
         Setting("Verbose", "Format",
                 Specs(<<"datetime", "level", "vlevel", "logger", "msg">>)),
         Setting("Trace", "Format",
                 Specs(<<"datetime", "level", "logger", "func", "loc", "msg">>)) >>

SetToDefault(conf) == SetAll(conf, DefaultSettings)
DefaultConfigurations == SetToDefault(NoConfigurations)

SetIfNotExist(conf, setting) ==
  IF \/ setting.type \in {"ToFile", "LogFlushThreshold"}
     \/ HasConfiguration(conf, setting.level, setting.type)
  THEN conf ELSE Set(conf, setting)
SetRemainingToDefault(conf) == FoldLeft(SetIfNotExist, conf, DefaultSettings)

-----------------------------------------------------------------------------
(* The parser: a line is a comment or empty, "* LEVEL:", "TYPE = value", or *)
(* something else.  Names are compared without regard to case.             *)

stringToLevelMap ==
  [global |-> Global, debug |-> "Debug", info |-> "Info", warning |-> "Warning",
   error |-> "Error", fatal |-> "Fatal", verbose |-> "Verbose", trace |-> "Trace"]
configStringToTypeMap ==
  [enabled |-> "Enabled", to_file |-> "ToFile",
   to_standard_output |-> "ToStandardOutput", format |-> "Format",
   filename |-> "Filename", subsecond_precision |-> "SubsecondPrecision",
   milliseconds_width |-> "SubsecondPrecision",
   performance_tracking |-> "PerformanceTracking",
   max_log_file_size |-> "MaxLogFileSize",
   log_flush_threshold |-> "LogFlushThreshold"]
ConvertFromString(table, name) ==
  IF name \in DOMAIN table THEN table[name] ELSE "Unknown"

ParseLine(parser, line) ==
  CASE line.kind = "comment" -> [parser EXCEPT !.success = TRUE]
    [] line.kind = "level" ->
         [parser EXCEPT !.success = TRUE,
                        !.level = ConvertFromString(stringToLevelMap, line.name)]
    [] OTHER ->
         LET type == ConvertFromString(configStringToTypeMap, line.name)
             known == "Unknown" \notin {parser.level, type}
         IN  [parser EXCEPT
                !.success = known,
                !.conf = IF known
                         THEN Set(@, Setting(parser.level, type, line.value))
                         ELSE @]

ParseFromText(conf, text) ==
  FoldLeft(ParseLine, [conf |-> conf, level |-> "Unknown", success |-> FALSE], text)

-----------------------------------------------------------------------------
(* TypedConfigurations                                                     *)

With(map, level, value) ==
  [l \in DOMAIN map \cup {level} |-> IF l = level THEN value ELSE map[l]]
SetValue(map, level, value) ==
  CASE DOMAIN map = {} -> With(map, Global, value)
    [] Global \in DOMAIN map /\ map[Global] = value -> map
    [] OTHER -> With(map, level, value)
GetConfig(map, level) == IF level \in DOMAIN map THEN map[level] ELSE map[Global]

GetBool(value) == value \in {"TRUE", "true", "1"}
GetULong(value) == IF value \in DOMAIN Numeral THEN Numeral[value] ELSE 0
\* The value of a type.
Converted(setting) ==
  CASE setting.type \in {"Enabled", "ToFile", "ToStandardOutput",
                         "PerformanceTracking"} -> GetBool(setting.value)
    [] setting.type \in {"MaxLogFileSize", "LogFlushThreshold"} ->
         GetULong(setting.value)
    [] setting.type = "SubsecondPrecision" ->
         IF GetULong(setting.value) \in 1 .. 6 THEN GetULong(setting.value) ELSE 3
    [] setting.type = "Format" -> ParseFromFormat(setting.level, setting.value)
    [] OTHER -> setting.value

KeptFor(setting) == IF setting.type \in GlobalTypes THEN Global ELSE setting.level
AddTyped(map, setting) == SetValue(map, KeptFor(setting), Converted(setting))
TypedMap(conf, type) == FoldLeft(AddTyped, << >>, conf[type])

\* The first file named is the file of Global, whatever its level; when a
\* file cannot be opened ToFile is turned off.
IsOpen(f) == f \notin Unopenable
InsertFile(typed, setting) ==
  LET level == IF DOMAIN typed["Filename"] = {} THEN Global ELSE setting.level
  IN  [typed EXCEPT
        !["Filename"] = IF level \in DOMAIN @ THEN @ ELSE With(@, level, setting.value),
        !["ToFile"] = IF IsOpen(setting.value) THEN @ ELSE SetValue(@, level, FALSE)]

Build(conf) ==
  LET maps == [type \in ConfigurationType |->
                IF type = "Filename" THEN << >> ELSE TypedMap(conf, type)]
  IN  FoldLeft(InsertFile, maps, conf["Filename"])

\* What a logger reads from its maps when it writes a line of a level.
Effective(typed) ==
  [level \in Level \cup {Global} |->
    [enabled |-> GetConfig(typed["Enabled"], level),
     toFile |-> GetConfig(typed["ToFile"], level),
     file |-> GetConfig(typed["Filename"], level),
     limit |-> GetConfig(typed["MaxLogFileSize"], level),
     threshold |-> GetConfig(typed["LogFlushThreshold"], level)]]

-----------------------------------------------------------------------------
(* What main.cpp configures: setupLogger().                                *)

ProgramSettings ==
  << Setting(Global, "Enabled", "true"),
     Setting(Global, "Format",
             Specs(<<"datetime", "thread", "file", "level", "line", "msg">>)),
     Setting(Global, "PerformanceTracking", "false"),
     Setting(Global, "ToFile", "true"),
     Setting(Global, "ToStandardOutput", "true"),
     Setting(Global, "Filename", "./log"),
     Setting(Global, "LogFlushThreshold", "100"),
     Setting(Global, "MaxLogFileSize", "209715200") >>
ProgramConfigurations == SetAll(DefaultConfigurations, ProgramSettings)
=============================================================================
