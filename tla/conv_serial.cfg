\* Messages and one deletion, one of them writing at a time; a reply may be silent.
SPECIFICATION SerialSpec
CONSTANTS
  open = open
  m1 = m1
  m2 = m2
  d1 = d1
  d2 = d2
  Opening = open
  Sends <- TwoSends
  Deletes <- OneDelete
  MaxIterations = 2
  MaxTools = 2
  MaxSilent = 1
SYMMETRY Symmetry
INVARIANTS SentIsAnswerable NothingEmptyIsSent ReplayIsFaithful
  ResultsReachTheirCalls
PROPERTY TranscriptSpec
CHECK_DEADLOCK FALSE
