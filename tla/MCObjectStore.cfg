CONSTANTS
  i1 = i1
  i2 = i2
  i3 = i3
  p = p
  Local = Local
  Remote = Remote
  Savers = {p}
  Main = main
  Branches = {main, other}
  Preamble = preamble
  Interviews = {}
  Results = {}
  Unserializable = {}
  Saved = {x}
  BatchSize = 2
  None = None
  MaxCalls = 2
  MaxSyncs = 2
SPECIFICATION Spec
VIEW Unread
CHECK_DEADLOCK FALSE
INVARIANTS
  RefsLoad
  HistoryLoads
