SPECIFICATION Spec
CONSTANTS
  Requests = {r1, r2}
  Retention = 1
  MaxDay = 2
  MaxRequests = 3
  Faults = {"stop"}
INVARIANT CleanDeployLosesNothing
