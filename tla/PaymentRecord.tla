---------------------------- MODULE PaymentRecord ----------------------------
(***************************************************************************)
(* What payment-service promises about the payments of the orders: which   *)
(* status follows which.  Money is taken on the way to SUCCEEDED and given *)
(* back on the way to REFUNDED, so that each happens at most once; a       *)
(* payment that was closed without money is never paid afterwards.         *)
(***************************************************************************)
CONSTANT Order
VARIABLES status, method

Init ==
  /\ status = [o \in Order |-> "NONE"]
  /\ method = [o \in Order |-> "none"]

Start(o) ==
  /\ status[o] = "NONE"
  /\ status' = [status EXCEPT ![o] = "PENDING"]
  /\ \E m \in {"CARD", "CASH_ON_DELIVERY"} : method' = [method EXCEPT ![o] = m]

Moves(o, from, to) ==
  /\ status[o] = from
  /\ \E s \in to : status' = [status EXCEPT ![o] = s]
  /\ UNCHANGED method

(* Only a card has a charge to decide.                                     *)
Decided(o) == method[o] = "CARD" /\ Moves(o, "PENDING", {"SUCCEEDED", "FAILED", "REQUIRES_3DS"})
Challenged(o) == Moves(o, "REQUIRES_3DS", {"SUCCEEDED", "FAILED", "CANCELLED"})
Refunded(o) == Moves(o, "SUCCEEDED", {"REFUNDED"})
CashCancelled(o) == method[o] = "CASH_ON_DELIVERY" /\ Moves(o, "PENDING", {"CANCELLED"})

Next ==
  \E o \in Order :
    Start(o) \/ Decided(o) \/ Challenged(o) \/ Refunded(o) \/ CashCancelled(o)

Spec == Init /\ [][Next]_<<status, method>>
=============================================================================
