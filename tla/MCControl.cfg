CONSTANTS
  Fields <- FieldsDef
  Words <- WordsDef
  Patches <- PatchesDef
  Imports <- ImportsDef
  Yamls <- YamlsDef
  Callers = {s1, s2}
  s1 = s1
  s2 = s2
  Loops = {l1, l2}
  Intervals = {600, 900}
  Unreadable = Unreadable
  Yes = Yes
  No = No
  NoLoop = NoLoop
  NoFile = NoFile
  Unset = Unset
SPECIFICATION Spec
CHECK_DEADLOCK FALSE
INVARIANTS
  TypeOK
  AtMostOneLiveLoop
  LoopMatchesConfig
  ConsoleSurvivesRegister
  ConfigInRange
PROPERTIES
  ProbesKeepComing
  StoppedLoopEnds
