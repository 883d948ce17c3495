\* The same requests, one change at a time: the history is a straight line.
SPECIFICATION SerialSpec
CONSTANTS
  s1 = s1
  s2 = s2
  Session <- Sessions
  Rows = {1, 2}
  MaxFiles = 5
  MaxCalls = 3
SYMMETRY Symmetry
INVARIANTS ShowsActiveOperations UndoneOnce RowCountMatchesSnapshot
PROPERTY HistorySpec
