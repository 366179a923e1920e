\* Late duplicates of Reserve, traces, hashes and user locks that run out,
\* extensions, and two sweepers that are slow.
CONSTANTS
  o1 = o1
  o2 = o2
  u1 = u1
  u2 = u2
  a = a
  b = b
  Order = {o1, o2}
  User = {u1}
  Sku = {a}
  Worker = {w1}
  Sweeper = {x1, x2}
  NoOrder = NoOrder
  Owner <- OneUser
  Qty <- MixedLines
  MaxQty = 2
  Opening <- StockForBoth
  Ttl = {1}
  Hold = 1
  TraceTtl = 1
  ExtendBy = 2
  MaxExtensions = 1
  MaxRemaining = 1
  BatchSize = 1
  PromptSweeper = FALSE
  MaxTime = 3
  LastReserve = 1
  MaxReserves = 2
  MaxFailures = 0
  MaxCrashes = 0
SPECIFICATION Spec
SYMMETRY SymmetricSweepers
INVARIANTS
  NoOversell
  OneLivePerUser
  KeptUntilDue
