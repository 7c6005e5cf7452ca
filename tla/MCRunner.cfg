CONSTANTS
  b = b
  c = c
  d = d
  e = e
  i1 = i1
  i2 = i2
  Tasks = {b, c, d, e}
  Interviews = {i1, i2}
  InterviewOf <- MCInterviewOf
  Deps <- MCDeps
  ErrorTypes = {"server_error", "direct_answer_error", "no_queue", "rule_error"}
  RetryPolicies <- MCRetryPolicies
  StopOnException = FALSE
  RaiseChoices = {TRUE, FALSE}
  DirectTasks = {b}
  RuledTasks = {b, d}
  BrokenRules = {b, d}
  BrokenPrompts = {d}
  RoutableTasks = {b, c, e}
  WorkerErrors = {"server_error"}
  MaxRender = 3
  Workers = {w1, w2}
  Calls = 2
  MaxStreamErrors = 2
  NoTask = NoTask
SPECIFICATION FairSpec
INVARIANTS
  HeldOnce
  ExitComplete
PROPERTIES
  RaisedForCause
  RunEnds
  FailureRaises
