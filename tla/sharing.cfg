\* Requests of four people, two at a time.
SPECIFICATION Spec
CONSTANTS
  MaxRequests = 2
  MaxOverlap = 2
  Person <- Four
  RoleOf <- FourRoles
  Creator = "carl"
  NoRow = NoRow
INVARIANTS TypeOK ReferencesHold KeysAreLegible
PROPERTIES OnlyManagersShare RequestsEnd
CHECK_DEADLOCK FALSE
