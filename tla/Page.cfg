CONSTANTS
  MaxOrders = 2
  MaxKeys = 7
  cart1 = cart1
  cart2 = cart2
  NoCart = NoCart
  Cart <- TwoCarts
  MaxCrossed = 0
  MaxEvents = 2
SPECIFICATION Spec
VIEW View
SYMMETRY Symmetry
INVARIANTS
  KeepsPlaced
  NothingLeftBehind
  OnePaidOrder
CHECK_DEADLOCK FALSE
