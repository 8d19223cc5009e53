SPECIFICATION FairSpec
CONSTANTS
  Labs = {l1, l2}
  Late = Late
  Reconciler = Reconciler
  Containers <- MCContainers
  MaxOps = 3
  MaxFaults = 1
  Environments <- MCEnvironments
INVARIANTS
  TypeOK
  RunningLabsComplete
  FragmentsResolve
PROPERTIES
  DestroyedMeansGone
  LeftoversRemovedWithGateway
