\* A refresh token presented again, with no other request in progress.
SPECIFICATION Spec
CONSTANTS
  MaxRequests = 2
  MaxOverlap = 1
  Role <- BothRoles
  NoRow = NoRow
PROPERTY ReuseEndsSessions
CHECK_DEADLOCK FALSE
