------------------------------ MODULE MCPayment ------------------------------
(* For TLC: a card payment of o1 with a second key and another method under *)
(* that key, and a cash payment of o2 under the key of o1's.               *)
EXTENDS Payment, TLC

CONSTANTS o1, o2, k1, k2

Requests ==
  {[order |-> o1, key |-> k1, method |-> "CARD"],
   [order |-> o1, key |-> k2, method |-> "CARD"],
   [order |-> o1, key |-> k2, method |-> "CASH_ON_DELIVERY"]}
AndAnotherOrder == Requests \cup {[order |-> o2, key |-> k1, method |-> "CARD"]}
=============================================================================
