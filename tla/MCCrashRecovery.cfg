CONSTANTS
  a = a
  b = b
  c = c
  d = d
  p = p
  q = q
  Tasks = {a, b, c, d}
  Deps <- MCDeps
  MaxAttempts = 2
  Processes = {p, q}
  MaxCrashes = 2
SPECIFICATION Spec
SYMMETRY ProcessSymmetry
INVARIANTS
  TalliesRecovered
  DependenciesRespected
  HeldByOne
  FinalizedByLast
PROPERTIES
  OutcomeKept
CHECK_DEADLOCK FALSE
