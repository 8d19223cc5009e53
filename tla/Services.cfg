SPECIFICATION MCSpec
CONSTANTS
  MaxInstances = 3
  Performances = {50, 100}
  Weights = {50, 100}
  Requests = {"ADD_INSTANCE", "REMOVE_INSTANCE", "SET_INSTANCE_PERFORMANCE",
              "SET_INSTANCE_WEIGHTS", "SET_BALANCING_MODE", "APPLY_ADAPTIVE_WEIGHTS"}
  Faults = {"fail", "lost"}
  MaxFaults = 2
  MaxRestarts = 2
  MaxOperations = 4
  BatchCount = 3
  Units = {2}
  MaxLoad = 2
  AppSpeeds = {1, 2}
  Burst = 1
  Rate = 1
  MaxEntries = 1
  User = 1
  OtherUsers = {2}
  MetricFreshness = 1
  MaxClock = 3
  MaxDisturbances = 1
  LookupCount = 2
  Catalog = {c1, c2}
  Unknown = {c3}
  L1MaxEntries = 1
  L1TTL = 1
  L2TTLs = {1}
  MaxCacheClock = 1
  MaxCacheActions = 2
  MaxCacheFaults = 2
  LimitKeys = {1, 2}
  LoginCount = 2
  LoginWindow = 2
  LoginMaxFailures = 2
  LoginBlockDuration = 3
  LoginMaxEntries = 1
  LoginDuration = 1
  MaxLoginClock = 3
  MaxLogins = 5
  VisitCount = 2
  SessionTTL = 2
  MaxSessionClock = 2
  MaxSessions = 2
  MaxVisits = 4
  MaxSessionFaults = 1
INVARIANTS
  ServicesTypeOK TopologyAgreement RetriesConverge
  PassedWithinRate AcceptedWithinCapacity RecordedBeforeAnswered LatestLoadObserved
  DisabledL1Empty LayersAsRequested
  FailuresLimited
  LiveSessionKept
PROPERTIES
  DrainedBeforeDelete
SYMMETRY MCSymmetry
\* Users may stop asking, and the clocks are bounded.
CHECK_DEADLOCK FALSE
