---------------------------- MODULE MCEventGroup -----------------------------
(* Two copies of realtime-service read the events of one order.              *)
EXTENDS EventGroup, TLC

CONSTANTS o1, c1, c2

OneOrder == {o1}
TwoConsumers == {c1, c2}

\* Opening the draft is an event the rooms do not hear of.
CreatedThenChanged(v) == IF v = 1 THEN <<"order.created">> ELSE <<"order.status_changed">>
StatusOnly == {"order.status_changed"}
=============================================================================
