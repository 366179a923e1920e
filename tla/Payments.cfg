\* Two callers with any requests on two orders, one of which may die.
CONSTANTS
  o1 = o1
  o2 = o2
  k1 = k1
  k2 = k2
  Request <- AndAnotherOrder
  Order = {o1, o2}
  Later = {o1}
  Key = {k1, k2}
  Caller = {c1, c2}
  MaxAttempts = 2
  MaxWriteRetries = 1
  CancelRetries = 1
  MaxDeaths = 1
SPECIFICATION FairSpec
INVARIANTS
  AskedOnce
  AttemptsCount
  AnswersStand
  PendingIsOwned
PROPERTIES
  FollowsRecord
  ChargeIsSettled
