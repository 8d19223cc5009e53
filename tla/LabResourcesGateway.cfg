SPECIFICATION FairSpec
CONSTANTS
  Labs = {l1, l2}
  Late = Late
  Reconciler = Reconciler
  Containers <- MCOneContainer
  MaxOps = 4
  MaxFaults = 1
  Environments <- MCGatewayFault
PROPERTY
  LeftoversRemoved
