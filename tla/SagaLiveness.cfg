CONSTANTS
  r1 = r1
  r2 = r2
  s1 = s1
  Request <- TwoRequests
  Sweeper <- OneSweeper
  Ttl = 2
  ExtendBy = 2
  MaxExtensions = 1
  MaxRemaining = 1
  MaxTime = 4
  MaxCalls = 2
  MaxFailures = 0
  MaxCrashes = 0
SPECIFICATION FairSpec
PROPERTIES
  CheckoutEnds
  MoneyComesBack
CHECK_DEADLOCK FALSE
