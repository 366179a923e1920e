CONSTANTS
  i1 = i1
  i2 = i2
  milk = milk
  bread = bread
  Instance <- TwoInstances
  Caller <- OneCallEach
  ServedBy <- ServedByItself
  Asked <- AsksFor
  Batches <- MilkThenBread
  MaxLosses = 1
SPECIFICATION Spec
INVARIANTS
  UnknownIsNotSold
CHECK_DEADLOCK FALSE
