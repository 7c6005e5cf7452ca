CONSTANTS
  t1 = t1
  t2 = t2
  big = big
  q1 = q1
  q2 = q2
  Tasks = {t1, t2, big}
  Queues = {q1, q2}
  Workers = {w1, w2}
  Candidates <- MCCandidates
  Estimated <- MCEstimated
  Used <- MCUsed
  Rpm <- MCRpm
  Tpm <- MCTpm
  RpmRate <- MCRate
  TpmRate <- MCRate
  FalseAlarms = FALSE
  MaxAttempts = 1
  MaxSends = 2
  MaxLag = 4
  None = None
SPECIFICATION FairSpec
INVARIANTS
  ListedExactly
PROPERTIES
  RefusalFree
  EveryTaskStarts
  PoolKept
