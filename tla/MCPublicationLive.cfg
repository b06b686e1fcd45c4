CONSTANTS
  a1 = a1
  a2 = a2
  a3 = a3
  p1 = p1
  p2 = p2
  p3 = p3
  c1 = c1
  c2 = c2
  x = x
  y = y
  NoAttempt = NoAttempt
  Attempt <- TwoAttempt
  Plan = {x}
  PlanOf <- TwoPlanOf
  Process <- TwoProcess
  ProcOf <- TwoProcOf
  Catalog = {c1}
  CatalogOf <- TwoCatalogOf
SPECIFICATION FairSpec
PROPERTIES LockIsGivenUp AttemptsReturn
CHECK_DEADLOCK FALSE
