CONSTANTS
  o1 = o1
  c1 = c1
  c2 = c2
  Order <- OneOrder
  Topics <- CreatedThenChanged
  MaxVersion = 3
  Consumer <- TwoConsumers
  BatchSize = 2
  MaxDeliveries = 2
  MaxLength = 2
  Heard <- StatusOnly
  MaxTroubles = 1
SPECIFICATION FairGroupSpec
INVARIANTS
  NoneVanishes
  TriesAreUsed
  HandledIsShown
PROPERTIES
  NothingStaysPending
CHECK_DEADLOCK FALSE
