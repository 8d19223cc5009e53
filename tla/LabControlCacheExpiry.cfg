\* A cache action overtaken by the reminder window.
SPECIFICATION TimelySpec
CONSTANTS
  Users = {u1}
  Labs = {l1}
  RequestIds = {r1, r2}
  Procs = {p1}
  Scenarios = {"multi_level_cache"}
  MaxActiveLabs = 1
  LeaseDuration = 2
  CommandTimeout = 1
  MaxLag = 1
  MaxCrashes = 0
  IdleTimeout = 2
  MaxDuration = 3
  ExpiringLead = 1
  NoUser = NoUser
  NoLab = NoLab
  NoOp = NoOp
  NoProc = NoProc
PROPERTIES
  DueLabsEnd
