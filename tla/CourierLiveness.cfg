CONSTANTS
  c1 = c1
  c2 = c2
  d1 = d1
  d2 = d2
  t1 = t1
  t2 = t2
  NoCourier = NoCourier
  Courier <- TwoCouriers
  Dispatcher <- OneDispatcher
  Ticker <- OneTicker
  WriteAttempts = 3
  PromptCalls = TRUE
  MaxDispatchFailures = 2
  MaxTickFailures = 1
SPECIFICATION FairSpec
PROPERTIES
  PaidIsDelivered
  CouriersComeFree
CHECK_DEADLOCK FALSE
