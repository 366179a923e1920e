CONSTANTS
  c1 = c1
  c2 = c2
  d1 = d1
  d2 = d2
  t1 = t1
  t2 = t2
  NoCourier = NoCourier
  Courier <- TwoCouriers
  Dispatcher <- TwoDispatchers
  Ticker <- TwoTickers
  WriteAttempts = 3
  PromptCalls = TRUE
  MaxDispatchFailures = 0
  MaxTickFailures = 0
SPECIFICATION Spec
SYMMETRY Symmetric
INVARIANTS
  OneOutcome
  PickupIsToldFirst
  BoundCourierComes
PROPERTIES
  FollowsTable
CHECK_DEADLOCK FALSE
