CONSTANTS
  Request = {r1, r2}
  Path <- Paths
  Above <- Parents
  Manifest <- Snapshots
  MaxPlans = 2
  MaxAttempts = 2
  MaxFaults = 2
  MaxChanges = 1
SYMMETRY Requests
SPECIFICATION Spec
PROPERTIES  NothingIsOverwritten CompletedIsNotFailed
CHECK_DEADLOCK FALSE
