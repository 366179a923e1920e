\* Cancel, payment and sweeper race; every Reserve comes once, the trace outlives
\* the model, the sweeper keeps up, Mongo fails once and a process dies once.
CONSTANTS
  o1 = o1
  o2 = o2
  u1 = u1
  u2 = u2
  a = a
  b = b
  Order = {o1, o2}
  User = {u1, u2}
  Sku = {a, b}
  Worker = {w1, w2}
  Sweeper = {x1}
  NoOrder = NoOrder
  Owner <- TwoUsers
  Qty <- MixedLines
  MaxQty = 2
  Opening <- Stock
  Ttl = {1}
  Hold = 1
  TraceTtl = 9
  ExtendBy = 1
  MaxExtensions = 0
  MaxRemaining = 9
  BatchSize = 2
  PromptSweeper = TRUE
  MaxTime = 2
  LastReserve = 1
  MaxReserves = 1
  MaxFailures = 1
  MaxCrashes = 1
SPECIFICATION FairSpec
INVARIANTS
  StockConserved
  MovesOnce
  AnswersAgree
  LedgerBalances
  LedgerAgrees
PROPERTIES
  EveryHoldEnds
