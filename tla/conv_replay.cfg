\* Two messages answered at the same time.
SPECIFICATION Spec
CONSTANTS
  open = open
  m1 = m1
  m2 = m2
  d1 = d1
  d2 = d2
  Opening = open
  Sends <- TwoSends
  Deletes <- TwoDeletes
  MaxIterations = 2
  MaxTools = 1
  MaxSilent = 1
INVARIANT ReplayIsPaired
CHECK_DEADLOCK FALSE
