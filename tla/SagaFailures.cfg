CONSTANTS
  r1 = r1
  r2 = r2
  s1 = s1
  Request <- TwoRequests
  Sweeper <- OneSweeper
  Ttl = 2
  ExtendBy = 2
  MaxExtensions = 1
  MaxRemaining = 1
  MaxTime = 4
  MaxCalls = 2
  MaxFailures = 1
  MaxCrashes = 1
SPECIFICATION Spec
SYMMETRY Calls
INVARIANTS
  PaidOnlyWithStock
  FailedOnlyWithoutMoney
  ChargedOnlyAfterRisk
  RefundMarkIsBacked
PROPERTIES
  FollowsLifecycle
CHECK_DEADLOCK FALSE
