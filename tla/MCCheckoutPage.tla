--------------------------- MODULE MCCheckoutPage ----------------------------
(* A cart that may change into another one.                                  *)
EXTENDS CheckoutPage, TLC

CONSTANTS cart1, cart2

TwoCarts == {cart1, cart2}
\* A repeat key that nothing uses any more is never asked for again.
LiveRecord == [k \in Key |-> IF k \in KeysInUse THEN record[k] ELSE FreeKey]
LiveCharge == [o \in Order |-> IF status[o] = "charging" \/ Running(o) THEN charge[o]
                               ELSE IF status[o] \in {"awaiting", "unsure"}
                               THEN [charge[o] EXCEPT !.first = TRUE] ELSE "none"]
LivePage == [page EXCEPT !.of = IF page.intent = NoKey THEN NoCart ELSE @,
                         !.order = IF page.own \in {"code", "check"} \/ page.resume # "no"
                                   THEN @ ELSE NoOrder]
View == <<status, lapsed, LiveRecord, LiveCharge, browser, LivePage, task, left, loose, history,
          plain, counts>>

Symmetry == Permutations(TwoCarts)
==============================================================================
