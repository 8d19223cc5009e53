\* A restart during a removal.
SPECIFICATION Spec
CONSTANTS
  MaxInstances = 2
  Performances = {50, 100}
  Weights = {50, 100}
  Requests = {"ADD_INSTANCE", "REMOVE_INSTANCE"}
  Faults = {}
  MaxFaults = 0
  MaxRestarts = 1
  MaxOperations = 2
INVARIANTS
  RetriesSucceed
\* Users may stop asking for changes.
CHECK_DEADLOCK FALSE
