SPECIFICATION Spec
CONSTANTS
  Labs = {l1, l2}
  Late = Late
  Reconciler = Reconciler
  Containers <- MCOneContainer
  MaxOps = 1
  MaxFaults = 1
  Environments <- MCMeeting
INVARIANT
  RunningLabsIntact
