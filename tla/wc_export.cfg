\* Two overlapping turns: what is shown loses operations of the history.
SPECIFICATION Spec
CONSTANTS
  s1 = s1
  s2 = s2
  Session <- Sessions
  Rows = {1, 2}
  MaxFiles = 4
  MaxCalls = 2
INVARIANT ShowsActiveOperations
