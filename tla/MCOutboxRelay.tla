---------------------------- MODULE MCOutboxRelay ----------------------------
(* Two publishers and the events of an order.                              *)
EXTENDS OutboxRelay, TLC

CONSTANTS o1, r1, r2

OneOrder == {o1}
TwoRelays == {r1, r2}

\* The draft is opened, placed, and closed with a command to payment-service.
CreatedThenClosed(v) ==
  CASE v = 1 -> <<"order.created">>
    [] v = 2 -> <<"order.status_changed">>
    [] v = 3 -> <<"order.status_changed", "payment.cancel_requested">>
=============================================================================
