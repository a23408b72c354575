CONSTANTS
  Calls = {c1, c2}
  Events = {"usage_ok", "usage_fail", "probe_ok", "probe_fail", "probe_local", "operator", "unban", "reconcile"}
  FailActions = {"ban", "disable", "delete"}
  OpActions = {"reauth", "using_api", "reenable"}
  OnSuccess = "unban_and_reenable"
  AutoModes = {TRUE}
  CooldownOn = FALSE
  Need = 2
  DeleteFallback = "disable"
  HasMailbox = TRUE
  HasKey = TRUE
  ForceMgmt = FALSE
  HostFails = TRUE
SPECIFICATION Spec
SYMMETRY Symmetry
INVARIANTS
  TypeOK
  DisabledExclusive
PROPERTIES
  GraceShields
