\* Two overlapping requests on one working copy.
SPECIFICATION Spec
CONSTANTS
  s1 = s1
  s2 = s2
  Session <- Sessions
  Rows = {1}
  MaxFiles = 4
  MaxCalls = 2
INVARIANTS TypeOK CommittedReferences TurnIsChain
PROPERTIES OneWorkingCopy RequestsEnd
