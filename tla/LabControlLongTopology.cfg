\* Two workers within their timeouts, an operation of several commands.
SPECIFICATION TimelySpec
CONSTANTS
  Users = {u1}
  Labs = {l1}
  RequestIds = {r1, r2}
  Procs = {p1, p2}
  Scenarios = {"application_cluster"}
  MaxActiveLabs = 1
  LeaseDuration = 2
  CommandTimeout = 1
  MaxLag = 0
  MaxCrashes = 0
  IdleTimeout = 2
  MaxDuration = 3
  ExpiringLead = 1
  NoUser = NoUser
  NoLab = NoLab
  NoOp = NoOp
  NoProc = NoProc
INVARIANTS
  NoDuplicateExecution
