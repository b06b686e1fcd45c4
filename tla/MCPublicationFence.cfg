CONSTANTS
  NoAttempt = NoAttempt
  Attempt = {a1, a2, a3}
  TTL = 2
  MaxTime = 4
SPECIFICATION LeaseSpec
SYMMETRY Symmetry
INVARIANTS TokensDistinct ReleasedStaysClosed
PROPERTIES NoEarlyTakeover ImplementsFence
CHECK_DEADLOCK FALSE
