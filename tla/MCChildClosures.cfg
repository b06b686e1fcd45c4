CONSTANTS
  None = None
  Subject = {s, t}
  Publisher = {p, q}
  MaxRuns = 3
SYMMETRY Symmetry
SPECIFICATION Spec
INVARIANTS AttemptLineage FactsNeverRegress
CHECK_DEADLOCK FALSE
