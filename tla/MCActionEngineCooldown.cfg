CONSTANTS
  Calls = {c1, c2}
  Events = {"usage_ok", "usage_fail", "probe_fail", "operator", "unban"}
  FailActions = {"ban", "disable"}
  OpActions = {"disable"}
  OnSuccess = "unban_and_reenable"
  AutoModes = {TRUE, FALSE}
  CooldownOn = TRUE
  Need = 1
  DeleteFallback = "disable"
  HasMailbox = TRUE
  HasKey = TRUE
  ForceMgmt = FALSE
  HostFails = FALSE
SPECIFICATION Spec
SYMMETRY Symmetry
PROPERTIES
  ClearsOlderRow
  ReportOnlySparesHost
  CooldownHolds
