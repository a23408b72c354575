CONSTANTS
  ann = ann
  annFile = annFile
  annStem = annStem
  bob = bob
  None = None
  Emails = {ann}
  AuthIds = {annFile, annStem, bob}
  WithAt = {ann, annFile}
  Aliases <- MCAliases
  Strip <- MCStrip
  Credential <- MCCredential
  Files <- MCFiles
  Windows = {1, 2}
  MaxTime = 1
SPECIFICATION Spec
INVARIANTS
  TypeOK
  OneRowPerMailbox
PROPERTIES
  OthersUntouched
  IsolationEndsByRelease
  ReloadRestores
  HoldsAndFrees
