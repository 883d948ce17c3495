\* Two overlapping undos: the second writes over the undone_at of the first.
SPECIFICATION Spec
CONSTANTS
  s1 = s1
  s2 = s2
  Session <- Sessions
  Rows = {1}
  MaxFiles = 3
  MaxCalls = 2
INVARIANT UndoneOnce
