--------------------------- MODULE OrderLifecycle ---------------------------
(***************************************************************************)
(* What order-service promises about the status of one order: it moves     *)
(* along the table of the order state machine and nowhere else, and the    *)
(* version counts the transitions.  One write may take several transitions *)
(* of the table (risk check, reservation and waiting for the payment are   *)
(* written together).  The checkout saga implements this specification.    *)
(***************************************************************************)
EXTENDS Integers

VARIABLES status, version

ORDER_TRANSITIONS ==
  [DRAFT            |-> {"RISK_CHECK", "CANCELLED"},
   RISK_CHECK       |-> {"REJECTED", "REVIEW", "RESERVED", "CANCELLED"},
   REVIEW           |-> {"RESERVED", "REJECTED"},
   RESERVED         |-> {"AWAITING_PAYMENT", "EXPIRED", "CANCELLED"},
   AWAITING_PAYMENT |-> {"PAID", "PAYMENT_FAILED", "CANCELLED"},
   PAYMENT_FAILED   |-> {"CANCELLED"},
   EXPIRED          |-> {"CANCELLED"},
   PAID             |-> {"PREPARING", "CANCELLED"},
   PREPARING        |-> {"ON_THE_WAY"},
   ON_THE_WAY       |-> {"DELIVERED"},
   DELIVERED        |-> {},
   CANCELLED        |-> {},
   REJECTED         |-> {}]

Successors(from) == UNION {ORDER_TRANSITIONS[s] : s \in from}

Init == status = "DRAFT" /\ version = 1

(* A write that leaves the status alone: a new expiry, a refund mark.      *)
Annotate == UNCHANGED status /\ version' = version + 1

(* One, two or three transitions in one write.                             *)
Transition ==
  \/ status' \in Successors({status}) /\ version' = version + 1
  \/ status' \in Successors(Successors({status})) /\ version' = version + 2
  \/ status' \in Successors(Successors(Successors({status}))) /\ version' = version + 3

Next == Annotate \/ Transition

Spec == Init /\ [][Next]_<<status, version>>
=============================================================================
