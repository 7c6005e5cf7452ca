CONSTANTS
  t1 = t1
  t2 = t2
  w1 = w1
  w2 = w2
  w3 = w3
  Tasks = {t1, t2}
  Workers = {w1, w2, w3}
  Pools <- MCPools
  Interval = 1
  Timeout = 2
  MaxRetries = 1
  None = None
SPECIFICATION FairSpec
INVARIANTS
  ExecutedOnce
  HeldRecoverable
PROPERTIES
  ReportedRecovered
CHECK_DEADLOCK FALSE
