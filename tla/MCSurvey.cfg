CONSTANTS
  a = a
  b = b
  c = c
  d = d
  Questions = {a, b, c, d}
  Starts <- MCStarts
  Conditions = {b}
  Pipes <- MCPipes
  Always = Always
  EndOfSurvey = EndOfSurvey
  Unknown = Unknown
  Yes = Yes
  No = No
  NoAnswer = NoAnswer
  MaxBehind = 1
  MaxEdits = 3
SPECIFICATION InterviewSpec
CHECK_DEADLOCK FALSE
INVARIANTS
  RulesSound
  MemoryBehind
  DecisionFinal
  PathFollowed
PROPERTIES
  EditsKeepRules
  InterviewEnds
