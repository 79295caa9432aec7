SPECIFICATION MCSpec
CONSTANTS
  LevelOrder <- MCLevels
  ConfigurationType = {"Enabled", "ToFile", "Format", "Filename", "SubsecondPrecision", "MaxLogFileSize", "LogFlushThreshold"}
  Numeral <- MCNumeral
  Unopenable = {"/closed"}
  Text <- MCText
  Change <- MCChange
  Format <- MCFormat
  MaxChanges = 2
INVARIANTS
  EffectiveIsSet
  LineIsFormat
CHECK_DEADLOCK FALSE
