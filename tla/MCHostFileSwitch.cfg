SPECIFICATION Spec
CONSTANTS
  console = console
  background = background
  Callers = {console, background}
  Readers = {}
  Tasks <- MCTasks
  Kinds <- MCKinds
  HasCfgKey = FALSE
  ForceMgmt = FALSE
  Forms = {1}
  MaxTokens = 1
  NoFile = NoFile
  None = None
PROPERTY SwitchHeld
CHECK_DEADLOCK FALSE
