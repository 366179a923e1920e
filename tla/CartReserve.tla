----------------------------- MODULE CartReserve ------------------------------
(* POST /v1/cart/reserve end to end: the repeat guard of the gateway (module  *)
(* IdempotencyKey) in front of order-service (module DraftOrders). The        *)
(* gateway gives up on a call; order-service finishes it all the same.        *)
EXTENDS DraftOrders, IdempotencyKey

CONSTANT MaxMishaps   \* bound: what goes wrong in both together

ASSUME OneOrderEach == Order = Request

vars == <<draftVars, keyVars>>

Init == DraftInit /\ KeyInit

KindOf(r) ==
  CASE At(r, "opened")  -> "done"
    [] At(r, "refused") -> "refused"
    [] OTHER            -> "failed"

Begins(r) == Claim(r) /\ Start(r)

\* The answer of order-service, or the timeout of the call to it.
Returns(r) ==
  /\ HandlerEnds(r, Answer(IF call[r].at \in Ended THEN KindOf(r) ELSE "failed", r))
  /\ UNCHANGED draftVars

InGateway == \E r \in Request : Guards(r) /\ UNCHANGED draftVars
InOrderService == (Elsewhere \/ \E r \in Request : Works(r)) /\ UNCHANGED keyVars
TimesOut == \E k \in Key : ClaimExpires(k) /\ UNCHANGED draftVars

Next ==
  /\ \/ \E r \in Request : Begins(r) \/ Returns(r)
     \/ InGateway \/ InOrderService \/ TimesOut
  /\ failures' + troubles' <= MaxMishaps

Spec == Init /\ [][Next]_vars

------------------------------------------------------------------------------
(* Properties. *)

TypeOK == DraftTypeOK /\ KeyTypeOK

(* What a client was told is worth what it says: the order of a 201, given or  *)
(* repeated, has its stock until it is closed by the checkout, gives way to    *)
(* another cart of the user, or runs out.                                      *)
ToldHoldsStock ==
  \A r \in Request :
    Has(r) /\ status[answer[r].of] \in {"DRAFT", "PLACING"} /\ answer[r].of \notin expired =>
      lock.order = answer[r].of
==============================================================================
