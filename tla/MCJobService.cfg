CONSTANTS
  a = a
  b = b
  c = c
  d = d
  z = z
  i1 = i1
  i2 = i2
  Tasks = {a, b, c, d, z}
  Interviews = {i1, i2}
  InterviewOf <- MCInterviewOf
  Deps <- MCDeps
  ErrorTypes = {"server_error", "invalid_request"}
  RetryPolicies <- MCRetryPolicies
  StopOnException = FALSE
SPECIFICATION Spec
INVARIANTS
  UnmetDepsExact
  DependenciesRespected
  NothingStranded
  BlockedExactly
  TalliesExact
  FinalizedExactly
  NotifiedOnce
  AttemptsWithinPolicy
PROPERTIES
  OutcomeKept
  PromiseKept
