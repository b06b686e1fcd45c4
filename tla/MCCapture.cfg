CONSTANTS
  r1 = r1
  r2 = r2
  Names = {"a", "b"}
  Contents = {"x", "y"}
  Start <- MCStart
  Becomes <- MCBecomes
  Request = {r1, r2}
  DefaultMode = "STORE_EXACT"
  FileMode <- MCFileMode
  Located = {}
  Resolutions <- OnlyB
  MaxPlans = 2
  MaxScans = 2
  MaxChanges = 2
  MaxFaults = 1
SPECIFICATION Spec
INVARIANTS ContentWasThere ClaimsAreStored SubjectsArePublished
SYMMETRY Requests
CONSTRAINT OneScan
CHECK_DEADLOCK FALSE
