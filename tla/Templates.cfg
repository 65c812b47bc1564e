SPECIFICATION TenantSpec
CONSTANTS
  User = {u1, u2}
  Global = global
  WELCOME = WELCOME
  BILLING = BILLING
  billing = billing
  Name <- MCName
  Upper <- MCUpper
  Seeds <- MCSeeds
  Id = {1, 2}
  MaxRetryCount = 1
  MaxSaves = 2
SYMMETRY Symmetry
INVARIANTS TenantType AcceptedResolves NoForeignBody ArchiveKeepsOwner ListedIsResolved
PROPERTY SaveIsLocal
CHECK_DEADLOCK FALSE
