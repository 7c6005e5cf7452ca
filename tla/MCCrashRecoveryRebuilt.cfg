CONSTANTS
  a = a
  b = b
  c = c
  d = d
  p = p
  q = q
  Tasks = {a, b, c, d}
  Deps <- MCDeps
  MaxAttempts = 2
  Processes = {p}
  MaxCrashes = 1
SPECIFICATION Spec
INVARIANTS
  Rebuilt
CHECK_DEADLOCK FALSE
