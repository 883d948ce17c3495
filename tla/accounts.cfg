\* Any requests about one account, two of them at a time.
SPECIFICATION Spec
CONSTANTS
  MaxRequests = 3
  MaxOverlap = 2
  Role <- BothRoles
  NoRow = NoRow
INVARIANTS TypeOK RegistrationIsWhole TokensWereMailed CredentialsAreSingleUse
  ResetEndsSessions OneSetOfCodes
PROPERTIES SecondFactorIsAsked ChangesAreAudited RequestsEnd
CHECK_DEADLOCK FALSE
