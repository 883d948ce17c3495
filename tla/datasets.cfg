\* Uploads, connections, imports and profile runs, two at a time.
SPECIFICATION Spec
CONSTANTS
  MaxRequests = 3
  MaxOverlap = 2
  SourceName = {"a"}
  DatasetName = {"x", "y"}
  TableList <- Lists
  NoRow = NoRow
INVARIANTS TypeOK SourcesHaveTheirFiles RefusedUploadsLeaveNoFile
  ImportsAreWhole AnsweredRunsAreOver CountIsOfLastRun
PROPERTY RequestsEnd
CHECK_DEADLOCK FALSE
