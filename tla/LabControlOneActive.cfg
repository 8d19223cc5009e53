\* One user destroys a failed lab after creating the next one.
SPECIFICATION Spec
CONSTANTS
  Users = {u1}
  Labs = {l1, l2}
  RequestIds = {r1, r2, r3}
  Procs = {p1}
  Scenarios = {"application_data_separation"}
  MaxActiveLabs = 2
  LeaseDuration = 2
  CommandTimeout = 1
  MaxLag = 0
  MaxCrashes = 0
  IdleTimeout = 2
  MaxDuration = 3
  ExpiringLead = 1
  NoUser = NoUser
  NoLab = NoLab
  NoOp = NoOp
  NoProc = NoProc
INVARIANTS
  OneActiveLabPerUser
