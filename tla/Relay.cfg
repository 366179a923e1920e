CONSTANTS
  o1 = o1
  r1 = r1
  r2 = r2
  Order <- OneOrder
  Topics <- CreatedThenClosed
  MaxVersion = 3
  Relay <- TwoRelays
  BatchSize = 2
  MaxEntries = 14
  MaxMisses = 2
SPECIFICATION FairRelaySpec
PROPERTIES
  FollowsFeed
  EveryEventIsSent
CHECK_DEADLOCK FALSE
