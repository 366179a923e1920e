--------------------------- MODULE CheckoutServer ----------------------------
(* What the checkout page sees of the gateway's repeat guard and of the orders  *)
(* of one user in order-service. A request is one step here; the placement of   *)
(* an order takes the time of its payment. Other modules have the details.      *)
EXTENDS Integers

CONSTANTS
  MaxOrders,   \* bound: orders the user can open
  MaxKeys      \* bound: repeat keys in use at a time

ASSUME ServerAssumption == MaxOrders \in Nat /\ MaxKeys \in Nat

VARIABLES
  status,     \* order -> its status; "charging": a placement works on it and it is open,
              \* "unsure": one did and its charge may be taken
  lapsed,     \* orders whose reservation time is over
  record,     \* repeat key -> the request that has it and its stored answer
  charge      \* order -> the key of the placement that works on it, the payment, and whether
              \* risk is asked, which leaves the order a draft until then

server == <<status, lapsed, record, charge>>

------------------------------------------------------------------------------
Order == 1..MaxOrders
NoOrder == 0
Key == 1..MaxKeys
NoKey == 0
Status == {"none", "draft", "charging", "awaiting", "unsure", "paid", "review", "closed"}
Payment == {"card", "cash"}

Said(what, o) == [is |-> what, order |-> o]
Kind == {"none", "wait", "unknown", "held", "refused", "paid", "review", "challenge", "cardless",
         "method", "error", "wrong", "released", "progress", "open", "gone"}
Answer == [is : Kind, order : 0..MaxOrders]
AnswersAbout(o) == [is : Kind, order : {o}]

Body(o, content) == [order |-> o, content |-> content]
FreeKey == [state |-> "free", body |-> Body(NoOrder, "none"), answer |-> Said("none", NoOrder)]

ServerInit ==
  /\ status = [o \in Order |-> "none"] /\ lapsed = {}
  /\ record = [k \in Key |-> FreeKey]
  /\ charge = [o \in Order |-> [key |-> NoKey, payment |-> "card", first |-> TRUE]]

------------------------------------------------------------------------------
\* The key is in use: conflict, request in progress, or the stored answer.
Repeats(k, body, ans) ==
  /\ record[k] # FreeKey
  /\ ans = IF record[k].body # body THEN Said("error", body.order)
           ELSE IF record[k].state = "busy" THEN Said("unknown", body.order) ELSE record[k].answer
  /\ UNCHANGED server

Stores(k, body, ans) ==
  record' = [record EXCEPT ![k] = [state |-> "done", body |-> body, answer |-> ans]]

\* The first placement of an order leaves it a draft until risk has answered.
AtRisk(o) == status[o] = "charging" /\ charge[o].first

\* A draft of the user gives way, an order at its payment does not.
Opened(o) ==
  /\ \A p \in Order : status[p] \in {"charging", "awaiting", "unsure"} => AtRisk(p)
  /\ status[o] = "none" /\ \A p \in 1..(o - 1) : status[p] # "none"
  /\ status' = [p \in Order |-> IF p = o THEN "draft"
                                ELSE IF status[p] = "draft" \/ AtRisk(p) THEN "closed"
                                ELSE status[p]]

\* POST /v1/cart/reserve.
Reserves(k, cart, ans) ==
  \/ Repeats(k, Body(NoOrder, cart), ans)
  \/ /\ record[k] = FreeKey
     /\ \/ \E o \in Order : Opened(o) /\ ans = Said("held", o)
        \/ UNCHANGED status /\ ans = Said("refused", NoOrder)
     /\ Stores(k, Body(NoOrder, cart), ans)
     /\ UNCHANGED <<lapsed, charge>>

\* The payment of an order that waits for it cannot be changed.
Accepts(o, payment) ==
  \/ status[o] = "draft"
  \/ status[o] \in {"awaiting", "unsure"} /\ charge[o].payment = payment

Begins(k, o, payment) ==
  /\ Accepts(o, payment)
  /\ status' = [status EXCEPT ![o] = "charging"]
  /\ charge' = [charge EXCEPT ![o] = [key |-> k, payment |-> payment,
                                      first |-> status[o] = "draft"]]
  /\ record' = [record EXCEPT ![k] = [FreeKey EXCEPT !.state = "busy", !.body = Body(o, payment)]]

\* Another placement works on the order, or it is not one to be placed.
Refusals(o, payment) ==
  IF status[o] = "charging" THEN {"error", "unknown"}
  ELSE IF Accepts(o, payment) THEN {} ELSE {"error"}

\* POST /v1/orders.
Places(k, o, payment, ans) ==
  \/ Repeats(k, Body(o, payment), ans)
  \/ /\ record[k] = FreeKey /\ UNCHANGED lapsed
     /\ Begins(k, o, payment) /\ ans = Said("wait", o)
  \/ /\ record[k] = FreeKey /\ UNCHANGED <<status, lapsed, charge>>
     /\ ans.order = o /\ ans.is \in Refusals(o, payment)
     /\ Stores(k, Body(o, payment), ans)

Running(o) == charge[o].key # NoKey

\* A placement of an order that was closed, or whose lock is gone, finds out at its next
\* write at the latest; what writes nothing is answered as if the order were open.
Outcomes(o) ==
  (IF status[o] = "closed" THEN {} ELSE {"paid"})
    \cup (IF charge[o].first /\ status[o] # "closed" THEN {"review"} ELSE {})
    \cup (IF charge[o].first \/ o \in lapsed \/ status[o] = "closed" THEN {"error"} ELSE {})
    \cup (IF charge[o].payment = "card" THEN {"challenge", "cardless", "error"}
          ELSE IF charge[o].first THEN {"method"} ELSE {})

After(what) ==
  CASE what \in {"paid", "review"} -> what
    [] what = "method" -> "draft"
    [] what = "error" -> "closed"
    [] OTHER -> "awaiting"

\* Does the gateway still wait for this placement?
Awaited(o) ==
  /\ Running(o)
  /\ record[charge[o].key].state = "busy" /\ record[charge[o].key].body.order = o

\* The placement ends; its answer is stored if the gateway still waits for it.
Decides(o) ==
  /\ Running(o)
  /\ \E what \in Outcomes(o) :
       /\ status' = [status EXCEPT ![o] = IF @ = "closed" THEN @ ELSE After(what)]
       /\ IF Awaited(o) THEN Stores(charge[o].key, Body(o, charge[o].payment), Said(what, o))
                        ELSE UNCHANGED record
  /\ charge' = [charge EXCEPT ![o].key = NoKey]
  /\ UNCHANGED lapsed

\* The answer of payment-service is lost: a 503, which frees the key.
ChargeLost(o) ==
  /\ Running(o)
  /\ status' = [status EXCEPT ![o] = IF @ = "closed" THEN @ ELSE "unsure"]
  /\ record' = IF Awaited(o) THEN [record EXCEPT ![charge[o].key] = FreeKey] ELSE record
  /\ charge' = [charge EXCEPT ![o].key = NoKey]
  /\ UNCHANGED lapsed

\* The gateway gives up a placement that order-service goes on with.
Cuts(o) ==
  /\ Awaited(o)
  /\ record' = [record EXCEPT ![charge[o].key] = FreeKey]
  /\ UNCHANGED <<status, lapsed, charge>>

\* POST /v1/orders/{id}/3ds; a wrong code may have been the last one.
Confirms(o, ans) ==
  /\ \/ status[o] = "awaiting" /\ ans = Said("paid", o) /\ status' = [status EXCEPT ![o] = "paid"]
     \/ status[o] = "awaiting" /\ ans = Said("wrong", o) /\ UNCHANGED status
     \/ /\ status[o] = "awaiting" /\ ans = Said("error", o)
        /\ status' = [status EXCEPT ![o] = "closed"]
     \/ status[o] = "paid" /\ ans = Said("paid", o) /\ UNCHANGED status
     \/ status[o] \notin {"awaiting", "paid"} /\ ans = Said("error", o) /\ UNCHANGED status
  /\ UNCHANGED <<lapsed, record, charge>>

\* The answer of payment-service to a code is lost.
ConfirmLost(o) ==
  /\ status[o] = "awaiting" /\ status' = [status EXCEPT ![o] = "unsure"]
  /\ UNCHANGED <<lapsed, record, charge>>

\* DELETE /v1/cart/reserve/{orderId}: an order past its payment is refused; one that is
\* being placed is closed as long as payment-service knows no payment of it.
Releases(o, ans) ==
  /\ \/ /\ status[o] \in {"draft", "charging", "awaiting", "unsure"} /\ ans = Said("released", o)
        /\ status' = [status EXCEPT ![o] = "closed"]
     \/ status[o] \in {"charging", "unsure"} /\ ans = Said("progress", o) /\ UNCHANGED status
     \/ status[o] \in {"paid", "review", "closed"} /\ ans = Said("open", o) /\ UNCHANGED status
  /\ UNCHANGED <<lapsed, record, charge>>

\* GET /v1/orders/{id}, with the state of a 3DS challenge.
Shows(o, ans) ==
  /\ \/ status[o] \in {"paid", "review"} /\ ans = Said(status[o], o)
     \/ status[o] = "awaiting" /\ ans.is \in {"challenge", "open", "unknown"} /\ ans.order = o
     \/ status[o] \in {"charging", "unsure"} /\ ans = Said("unknown", o)
     \/ status[o] \in {"draft", "closed"} /\ ans = Said("gone", o)
  /\ UNCHANGED server

\* The time of the reservation is over; the sweepers close what is not paid.
Lapses(o) ==
  /\ status[o] # "none" /\ o \notin lapsed
  /\ lapsed' = lapsed \cup {o}
  /\ \/ /\ status[o] \in {"draft", "charging", "awaiting", "unsure"}
        /\ status' = [status EXCEPT ![o] = "closed"]
     \/ status[o] = "unsure" /\ status' = [status EXCEPT ![o] = "paid"]
     \/ status[o] \notin {"draft", "awaiting", "unsure"} /\ UNCHANGED status
  /\ UNCHANGED <<record, charge>>
==============================================================================
