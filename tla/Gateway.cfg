SPECIFICATION GatewaySpec
CONSTANTS
  u1 = u1
  Request = {r1, r2}
  Token = {k1}
  User = {u1}
  UserOf <- MCUserOf
  MaxTime = 6
  TTL = 2
  Timeout = 1
  MaxTokens = 1
  Duration = 2
  MaxLag = 2
SYMMETRY Symmetry
INVARIANTS GatewayType AdmissionBound LongRunRate
PROPERTIES RevocationTakesEffect ImplementsQuota
CHECK_DEADLOCK FALSE
