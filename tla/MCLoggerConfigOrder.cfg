SPECIFICATION MCSpec
CONSTANTS
  LevelOrder <- MCLevels
  ConfigurationType = {"Enabled", "ToFile", "Format", "Filename", "SubsecondPrecision", "MaxLogFileSize", "LogFlushThreshold"}
  Numeral <- MCNumeral
  Unopenable = {"/closed"}
  Text <- OrderText
  Change = {}
  Format = {}
  MaxChanges = 1
INVARIANT
  EffectiveIsWanted
CHECK_DEADLOCK FALSE
