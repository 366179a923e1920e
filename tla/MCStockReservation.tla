------------------------- MODULE MCStockReservation -------------------------
(* Small shops for TLC: two orders, of one user or of two, that compete for *)
(* stock which is not always enough for both.                              *)
EXTENDS StockReservation, TLC

CONSTANTS o1, o2, u1, u2, a, b

OneUser == [o \in Order |-> u1]
TwoUsers == (o1 :> u1) @@ (o2 :> u2)

MixedLines ==
  [o \in Order |-> [s \in Sku |-> IF o = o1 THEN 1 ELSE IF s = a THEN 2 ELSE 0]]
Stock == [s \in Sku |-> 2]
StockForBoth == [s \in Sku |-> 3]

SymmetricSweepers == Permutations(Sweeper)
=============================================================================
