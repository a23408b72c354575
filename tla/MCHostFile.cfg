SPECIFICATION Spec
CONSTANTS
  console = console
  background = background
  Callers = {console, background}
  Readers = {r1}
  Tasks <- MCTasks
  Kinds <- MCKinds
  HasCfgKey = FALSE
  ForceMgmt = FALSE
  Forms = {2}
  MaxTokens = 1
  NoFile = NoFile
  None = None
INVARIANTS TypeOK KeyCleared
PROPERTIES OkMeansDone CacheCatchesUp
CHECK_DEADLOCK FALSE
