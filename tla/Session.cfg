CONSTANTS
  f1 = f1
  r1 = r1
  r2 = r2
  r3 = r3
  NoFamily = NoFamily
  NoRequest = NoRequest
  Families <- MCFamilies
  Requests <- MCRequests
  MaxTokens = 4
  Ttl = 1
  Tolerance = 1
  Horizon = 3
  FailOpen = FALSE
SPECIFICATION Spec
SYMMETRY RequestSymmetry
CHECK_DEADLOCK FALSE
INVARIANT OneLiveToken
INVARIANT RevokedFamilyIsDead
INVARIANT DeniedStaysDenied
INVARIANT RevocationFailsOnlyBehindRefresh
