SPECIFICATION Spec
CONSTANTS
  a = a
  b = b
  o1 = o1
  Creds = {a, b}
  Others = {o1}
  NoRow = NoRow
  Nobody = Nobody
  Candidates <- MCNobody
  Priority <- MCPriority
  Delegates = {"round-robin"}
  CounterSize = 1
  Answers <- MCAnswers
  Hints = {FALSE}
  Listings <- MCListings
  Selections <- MCSelections
  ActionOn <- MCActionOn
  ProbeAction = "delete"
  AutoExecute = TRUE
  Pool = 1
  MaxSelected = 2
  PageSizes <- MCPageSizes
  DefaultPageSize = 2
  MaxPageSize = 2
INVARIANTS TypeOK EveryRowTimed ListsComplete
PROPERTIES RecheckEnds
CHECK_DEADLOCK FALSE
