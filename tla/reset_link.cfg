\* The runtime role: a registered user asks for a reset link.
SPECIFICATION Spec
CONSTANTS
  MaxRequests = 3
  MaxOverlap = 2
  Role <- RuntimeRole
  NoRow = NoRow
INVARIANT ResetLinkIsSent
CHECK_DEADLOCK FALSE
