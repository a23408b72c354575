SPECIFICATION Spec
CONSTANTS
  a = a
  b = b
  o1 = o1
  Creds = {a, b}
  Others = {o1}
  NoRow = NoRow
  Nobody = Nobody
  Candidates <- MCCandidates
  Priority <- MCPriority
  Delegates = {"round-robin", "fill-first"}
  CounterSize = 5
  Answers <- MCAnswers
  Hints = {FALSE}
  Listings <- MCListings
  Selections = {}
  ActionOn <- MCActionOn
  ProbeAction = "delete"
  AutoExecute = TRUE
  Pool = 1
  MaxSelected = 2
  PageSizes <- MCPageSizes
  DefaultPageSize = 2
  MaxPageSize = 2
PROPERTIES PickSparesIsolated RotationServesAll
CHECK_DEADLOCK FALSE
