\* The control plane: one lab under races and crashes, admission of several
\* labs, workers within their timeouts, and a request with the identifier of an
\* expiration.
SPECIFICATION MCSpec
CONSTANTS
  Users = {1, 2, 3}
  Labs = {1, 2, 3}
  RequestIds <- MCRequestIds
  Procs = {p1, p2}
  Scenarios = {"application_data_separation", "application_cluster", "multi_level_cache"}
  MaxActiveLabs = 2
  LeaseDuration = 2
  CommandTimeout = 1
  MaxLag = 1
  MaxCrashes = 1
  IdleTimeout = 2
  MaxDuration = 3
  ExpiringLead = 1
  r1 = r1
  r2 = r2
  r3 = r3
  NoUser = NoUser
  NoLab = NoLab
  NoOp = NoOp
  NoProc = NoProc
SYMMETRY Symmetry
INVARIANTS
  TypeOK
  SerialOperations
  StatusMatchesWork
  ExpirationStillPossible
  OneLiveLabPerUser
  LiveLabsWithinQuota
  TimelyWorkersApart
PROPERTIES
  EndedOnceByLeaseHolder
  ExpiredOnlyWhenDue
  ImplementsLabSession
