CONSTANTS
  first = first
  repeated = repeated
  tab = tab
  k1 = k1
  k2 = k2
  NoOrder = NoOrder
  Order <- ThreeRequests
  Request <- ThreeRequests
  MarketOf <- Carts
  Key <- TwoKeys
  Carried <- OwnOrSame
  BodyOf <- Carts
  MaxFailures = 1
  MaxTroubles = 1
  MaxMishaps = 1
SPECIFICATION Spec
INVARIANTS
  LockFitsDraft
  ToldHoldsStock
  OneOrderPerKey
CHECK_DEADLOCK FALSE
