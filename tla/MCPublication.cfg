CONSTANTS
  a1 = a1
  a2 = a2
  a3 = a3
  p1 = p1
  p2 = p2
  p3 = p3
  c1 = c1
  c2 = c2
  x = x
  y = y
  NoAttempt = NoAttempt
  Attempt <- MCAttempt
  Plan = {x, y}
  PlanOf <- MCPlanOf
  Process <- MCProcess
  ProcOf <- MCProcOf
  Catalog = {c1, c2}
  CatalogOf <- MCCatalogOf
SPECIFICATION Spec
INVARIANTS LineageReadable PreparedBeforeCommit ResultIsHonest
PROPERTIES ImplementsLineage
CHECK_DEADLOCK FALSE
