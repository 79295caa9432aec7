SPECIFICATION MCSpec
CONSTANTS
  LevelOrder <- MCLevels
  ConfigurationType = {"Enabled", "ToFile", "Filename", "MaxLogFileSize", "LogFlushThreshold"}
  Numeral <- MCNumeral
  File <- MCFile
  Device = {"/dev/null"}
  Unopenable = {"/closed"}
  BufferSize = 1
  Configured = {"default", "program", "other", "unlimited"}
  Uses <- MCUses
  Logger = {"default", "performance"}
  UserFlag = {"ImmediateFlush", "StrictLogFileSizeCheck", "DisableApplicationAbortOnFatalLog"}
  MaxLines = 6
  MaxChanges = 1
INVARIANTS
  TypeOK
  FileBounded
  LossBounded
PROPERTY RollsOnlyWhenFull
