CONSTANTS
  None = None
  Subject = {s, t}
  Worker = {w1, w2}
  MaxAttempts = 2
  MaxFaults = 1
SPECIFICATION FairSpec
INVARIANTS RetryOnce SucceededIsSigned
PROPERTIES RetrySettles
CHECK_DEADLOCK FALSE
