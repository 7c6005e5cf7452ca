CONSTANTS
  Capacity = 5
  Rate = 2
  Calls = {c1, c2}
  Amounts = {1, 4, 6}
  Usage = {0, 2, 7}
  MaxLag = 4
  MaxElapsed = 4
  None = None
SPECIFICATION Spec
INVARIANTS
  WindowLimit
  WaitExact
