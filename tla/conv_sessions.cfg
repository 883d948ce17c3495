\* Overlapping messages and deletions of one conversation.
SPECIFICATION Spec
CONSTANTS
  open = open
  m1 = m1
  m2 = m2
  d1 = d1
  d2 = d2
  Opening = open
  Sends <- TwoSends
  Deletes <- TwoDeletes
  MaxIterations = 2
  MaxTools = 1
  MaxSilent = 0
INVARIANTS TypeOK TurnsAreWhole TurnsKeepTheirOrder NothingOutlivesDeletion
PROPERTY RequestsEnd
CHECK_DEADLOCK FALSE
