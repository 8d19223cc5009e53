\* One process with crashes and expiring leases: everything accepted ends.
SPECIFICATION MCSpec
CONSTANTS
  Users = {u1}
  Labs = {l1}
  RequestIds <- MCRequestIds
  r1 = r1
  r2 = r2
  Procs = {p1}
  Scenarios = {"application_cluster", "multi_level_cache"}
  MaxActiveLabs = 1
  LeaseDuration = 2
  CommandTimeout = 1
  MaxLag = 1
  MaxCrashes = 1
  IdleTimeout = 2
  MaxDuration = 3
  ExpiringLead = 1
  NoUser = NoUser
  NoLab = NoLab
  NoOp = NoOp
  NoProc = NoProc
PROPERTIES
  OperationsEndUncaught
  DueLabsEndUncaught
