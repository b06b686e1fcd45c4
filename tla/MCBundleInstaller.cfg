CONSTANTS
  b1 = b1
  b2 = b2
  b3 = b3
  old = old
  new = new
  Broken = Broken
  None = None
  Bundles = {b1, b2, b3}
  Releases = {old, new}
  Pins <- MCPins
  MaxRequests = 3
  MaxFaults = 3
SPECIFICATION Spec
INVARIANTS BundleSurvives RecoveredServes NoTreeDestroyed
CHECK_DEADLOCK FALSE
