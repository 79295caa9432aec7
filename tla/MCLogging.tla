------------------------------ MODULE MCLogging -----------------------------
(* Instance of Logging for TLC: the configurations of the program, and two of  *)
(* others, built the way the code builds them.                                 *)
EXTENDS Logging

MCLevels == <<"Debug", "Fatal", "Warning">>
MCNumeral == [n \in {"0", "1", "100", "209715200"} |->
                CASE n = "0" -> 0 [] n = "1" -> 1 [] n = "100" -> 2 [] n = "209715200" -> 4]
MCFile == {"/dev/null", "./log", "/closed"}

\* Two levels that do not write to the program's file.
OtherSettings ==
  << Setting("Warning", "Filename", "/closed"),
     Setting("Debug", "ToFile", "false"),
     Setting("Fatal", "Enabled", "false") >>
\* No limit, and a smaller threshold for one level.
UnlimitedSettings ==
  << Setting(Global, "MaxLogFileSize", "0"),
     Setting("Warning", "LogFlushThreshold", "1") >>
UseOf(file, limit, threshold) ==
  [enabled |-> TRUE, toFile |-> TRUE, file |-> file, limit |-> limit,
   threshold |-> threshold]
DefaultUse == UseOf("/dev/null", 0, 0)
ProgramUse == UseOf("./log", 4, 2)
UnlimitedUse == UseOf("./log", 0, 2)
MCUses(c, level) ==
  CASE c = "default" -> DefaultUse
    [] c = "other" /\ level = "Warning" -> [ProgramUse EXCEPT !.file = "/closed", !.toFile = FALSE]
    [] c = "other" /\ level = "Debug" -> [ProgramUse EXCEPT !.toFile = FALSE]
    [] c = "other" /\ level = "Fatal" -> [ProgramUse EXCEPT !.enabled = FALSE]
    [] c = "unlimited" /\ level = "Warning" -> [UnlimitedUse EXCEPT !.threshold = 1]
    [] c = "unlimited" /\ level # "Warning" -> UnlimitedUse
    [] OTHER -> ProgramUse

\* They are what the code builds from the configurations.
Built(conf, c) == \A l \in AllLevels : Effective(Build(conf))[l] = MCUses(c, l)
ASSUME BuiltAssumption ==
  /\ Built(DefaultConfigurations, "default")
  /\ Built(ProgramConfigurations, "program")
  /\ Built(SetAll(ProgramConfigurations, OtherSettings), "other")
  /\ Built(SetAll(ProgramConfigurations, UnlimitedSettings), "unlimited")

CONSTANT MaxChanges  \* bound: changes of configuration in the life of a process
VARIABLE changes

MCInit == Init /\ changes = 0
MCNext ==
  \/ Process /\ changes' = 0
  \/ changes < MaxChanges /\ Configuring /\ changes' = changes + 1
  \/ Running /\ changes' = IF running' THEN changes ELSE 0
MCSpec == MCInit /\ [][MCNext]_<<vars, changes>>
=============================================================================
