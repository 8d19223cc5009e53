SPECIFICATION MCSpec
CONSTANTS
  BalancerInstances = 2
  Speeds = {50, 100}
  Ratios = {0, 8, 20}
  FixedWeights = {20}
  StableSamples = 2
  FailureBackoff <- MCFailureBackoff
  MaxChanges = 2
  MaxObservations = 1
  MaxBalancerFaults = 1
  RequestCount = 3
  RequestUsers = {1, 2}
  MaxActiveLabs = 2
  MaxTemporaryContainers = 2
  MaxInstancesPerLab = 2
  LastVersion = 3
  MaxInFlight = 2
  MaxPageActs = 3
  MaxPageFaults = 1
INVARIANTS
  ClientsTypeOK PendingAdjustmentCurrent TargetsFollowLoad StableMeansApplied
  CountedContainersWithinQuota OneOperationUnderWay RepetitionsAccepted
  GuestsHaveNoLab
PROPERTIES AdaptiveLabsConverge RequestsAnswered ShownLabCatchesUp
CHECK_DEADLOCK FALSE
