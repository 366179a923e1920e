------------------------------- MODULE Payment -------------------------------
(***************************************************************************)
(* payment-service: Charge, Confirm3Ds, Refund and CancelPayment of        *)
(* several callers on the payment records of several orders.               *)
(*                                                                         *)
(* A caller is a gRPC call or a delivered command.  Each of its reads and  *)
(* writes of a record is a step of its own; every write but the insert is  *)
(* conditional on the version that was read.  The provider is external:    *)
(* any answer or none.  A call may die between two steps.                  *)
(*                                                                         *)
(* Abstractions: the amount and the user of a charge are part of its       *)
(* method, the clock of a challenge is whether it is due, a code is right  *)
(* or wrong.  A caller may never get the answer of its call.               *)
(***************************************************************************)
EXTENDS Integers

CONSTANTS
  Order, Key, Caller,
  Request,           \* the charges that are ever asked for
  Later,             \* the orders that are confirmed, refunded or cancelled
  MaxAttempts,       \* wrong codes until a challenge is closed
  MaxWriteRetries,   \* of Confirm3Ds
  CancelRetries,     \* of CancelPayment
  MaxDeaths          \* bound of the model: calls that die on the way

Method == {"CARD", "CASH_ON_DELIVERY"}

ASSUME PaymentAssumption ==
  /\ Order # {} /\ "none" \notin Key
  /\ Request \subseteq [order : Order, key : Key, method : Method] /\ Later \subseteq Order
  /\ MaxAttempts \in Nat \ {0}
  /\ MaxWriteRetries \in Nat /\ CancelRetries \in Nat /\ MaxDeaths \in Nat

VARIABLES
  payment,    \* the record of an order
  due,        \* orders whose challenge has run out
  call,       \* call[c]: the step of a caller and what it has read
  deaths,
  orphans,    \* history: orders whose charging call died or lost its insert
  asked,      \* history: how often the provider was asked for the money of an order
  wrong,      \* history: wrong codes of an order that were counted
  told        \* history: final answers that were given

vars == <<payment, due, call, deaths, orphans, asked, wrong, told>>
history == <<orphans, asked, wrong, told>>

Status == {"PENDING", "REQUIRES_3DS", "SUCCEEDED", "FAILED", "REFUNDED", "CANCELLED"}
NoKey == "none"
None ==
  [key |-> NoKey, method |-> "none", status |-> "NONE", version |-> 0, challenged |-> FALSE,
   failedAttempts |-> 0, closedReason |-> "none"]
PaymentDocument ==
  [key : Key, method : Method, status : Status, version : Nat, challenged : BOOLEAN,
   failedAttempts : Nat, closedReason : {"none", "expired", "attempts_exhausted"}] \cup {None}

Answer == [order : Order, status : {"SUCCEEDED", "FAILED", "REFUNDED", "closed"}]
Operation == {"charge", "confirm", "refund", "cancel"}
Step ==
  {"idle", "replay", "exists", "insert", "reread", "authorize", "settle",
   "load", "verify", "confirmWrite", "refundLoad", "refundWrite", "refundReread",
   "cancelLoad", "cancelWrite"}
Call ==
  [step : Step, op : Operation, order : Order, key : Key \cup {NoKey}, method : Method,
   right : BOOLEAN, verified : BOOLEAN, attempt : Nat, doc : PaymentDocument]

Begun(op, step, o) ==
  [step |-> step, op |-> op, order |-> o, key |-> NoKey, method |-> "CARD", right |-> FALSE,
   verified |-> FALSE, attempt |-> 0, doc |-> None]
Idle == Begun("charge", "idle", CHOOSE o \in Order : TRUE)

Init ==
  /\ payment = [o \in Order |-> None]
  /\ due = {}
  /\ call = [c \in Caller |-> Idle]
  /\ deaths = 0
  /\ orphans = {} /\ told = {}
  /\ asked = [o \in Order |-> 0] /\ wrong = [o \in Order |-> 0]

-----------------------------------------------------------------------------
(* Calls.                                                                  *)

At(c, step) == call[c].step = step
OrderOf(c) == call[c].order
Stored(c) == payment[OrderOf(c)]
Goto(c, step) == call' = [call EXCEPT ![c].step = step]
Finish(c) == call' = [call EXCEPT ![c] = Idle]
Prepare(c, step, doc) == call' = [call EXCEPT ![c].step = step, ![c].doc = doc]
Tell(c, status) ==
  /\ Finish(c)
  /\ told' = told \cup {[order |-> OrderOf(c), status |-> status]}

(* replaceIfVersion; mutants: the version is not in the filter, or it is    *)
(* that of the new document.                                               *)
FreshAlways(c) == TRUE
FreshNewVersion(c) == Stored(c).version = call[c].doc.version
Fresh(c) == Stored(c).version = call[c].doc.version - 1
Store(c) == payment' = [payment EXCEPT ![OrderOf(c)] = call[c].doc]

StartCharge(c) ==
  /\ At(c, "idle")
  /\ \E r \in Request :
       call' = [call EXCEPT ![c] = [Begun("charge", "replay", r.order) EXCEPT
                                      !.key = r.key, !.method = r.method]]
  /\ UNCHANGED <<payment, due, deaths, history>>

StartConfirm(c) ==
  /\ At(c, "idle")
  /\ \E o \in Later, right \in BOOLEAN :
       call' = [call EXCEPT ![c] = [Begun("confirm", "load", o) EXCEPT !.right = right]]
  /\ UNCHANGED <<payment, due, deaths, history>>

StartRefund(c) ==
  /\ At(c, "idle")
  /\ \E o \in Later : call' = [call EXCEPT ![c] = Begun("refund", "refundLoad", o)]
  /\ UNCHANGED <<payment, due, deaths, history>>

StartCancel(c) ==
  /\ At(c, "idle")
  /\ \E o \in Later : call' = [call EXCEPT ![c] = Begun("cancel", "cancelLoad", o)]
  /\ UNCHANGED <<payment, due, deaths, history>>

-----------------------------------------------------------------------------
(* Charge.                                                                 *)

WithKey(k) == {o \in Order : payment[o].key = k}
SameCharge(c) == OrderOf(c) \in WithKey(call[c].key) /\ Stored(c).method = call[c].method

(* The first result of the intent, which may not be a result yet.          *)
AnswerReplay(c) ==
  IF SameCharge(c) /\ Stored(c).status \in {"SUCCEEDED", "FAILED"}
  THEN Tell(c, Stored(c).status)
  ELSE Finish(c) /\ UNCHANGED told

FindReplay(c) ==
  /\ At(c, "replay")
  /\ IF WithKey(call[c].key) # {} THEN AnswerReplay(c) ELSE Goto(c, "exists") /\ UNCHANGED told
  /\ UNCHANGED <<payment, due, deaths, orphans, asked, wrong>>

FindByOrder(c) ==
  /\ At(c, "exists")
  /\ IF Stored(c) = None THEN Goto(c, "insert") ELSE Finish(c)
  /\ UNCHANGED <<payment, due, deaths, history>>

(* A card that is not in the wallet: nothing is written.                   *)
NoSuchCard(c) ==
  /\ At(c, "insert") /\ call[c].method = "CARD"
  /\ Finish(c)
  /\ UNCHANGED <<payment, due, deaths, history>>

(* Unique indexes on the order and on the key; mutant: none on the order.   *)
InsertableByKey(c) == WithKey(call[c].key) = {}
Insertable(c) == Stored(c) = None /\ WithKey(call[c].key) = {}

Started(c) ==
  [key |-> call[c].key, method |-> call[c].method, status |-> "PENDING", version |-> 0,
   challenged |-> FALSE, failedAttempts |-> 0, closedReason |-> "none"]

Insert(c) ==
  /\ At(c, "insert")
  /\ IF Insertable(c)
     THEN /\ payment' = [payment EXCEPT ![OrderOf(c)] = Started(c)]
          /\ IF call[c].method = "CARD" THEN Goto(c, "authorize") ELSE Finish(c)
     ELSE Goto(c, "reread") /\ UNCHANGED payment
  /\ UNCHANGED <<due, deaths, history>>

(* The insert took place and its answer was an error.                      *)
InsertAnswerLost(c) ==
  /\ At(c, "insert") /\ Insertable(c) /\ deaths < MaxDeaths
  /\ deaths' = deaths + 1
  /\ payment' = [payment EXCEPT ![OrderOf(c)] = Started(c)]
  /\ orphans' = orphans \cup {OrderOf(c)}
  /\ Goto(c, "reread")
  /\ UNCHANGED <<due, asked, wrong, told>>

FindWinner(c) ==
  /\ At(c, "reread")
  /\ AnswerReplay(c)
  /\ UNCHANGED <<payment, due, deaths, orphans, asked, wrong>>

(* The record as the provider's answer leaves it.                          *)
Decision(c, status) ==
  [Stored(c) EXCEPT !.status = status, !.version = @ + 1, !.challenged = (status = "REQUIRES_3DS")]

(* The provider approves, declines, wants a code, or cannot be reached     *)
(* (FAILED too); an approval that needs 3DS by risk is a challenge.        *)
Authorize(c) ==
  /\ At(c, "authorize")
  /\ \E status \in {"SUCCEEDED", "FAILED", "REQUIRES_3DS"} :
       Prepare(c, "settle", Decision(c, status))
  /\ asked' = [asked EXCEPT ![OrderOf(c)] = @ + 1]
  /\ UNCHANGED <<payment, due, deaths, orphans, wrong, told>>

Settle(c) ==
  /\ At(c, "settle")
  /\ IF Fresh(c)
     THEN /\ Store(c)
          /\ IF call[c].doc.status = "REQUIRES_3DS" THEN Finish(c) /\ UNCHANGED told
             ELSE Tell(c, call[c].doc.status)
     ELSE Finish(c) /\ UNCHANGED <<payment, told>>
  /\ UNCHANGED <<due, deaths, orphans, asked, wrong>>

-----------------------------------------------------------------------------
(* Confirm3Ds.                                                             *)

(* expiresAt was reached.                                                  *)
RunOut(o) ==
  /\ payment[o].challenged /\ o \notin due
  /\ due' = due \cup {o}
  /\ UNCHANGED <<payment, call, deaths, history>>

Closed(p, reason) == [p EXCEPT !.status = "FAILED", !.version = @ + 1, !.closedReason = reason]

(* A wrong code; mutant: one attempt too many.                             *)
CountedOneMore(p) ==
  IF p.failedAttempts >= MaxAttempts
  THEN Closed([p EXCEPT !.failedAttempts = @ + 1], "attempts_exhausted")
  ELSE [p EXCEPT !.failedAttempts = @ + 1, !.version = @ + 1]
Counted(p) ==
  IF p.failedAttempts + 1 >= MaxAttempts
  THEN Closed([p EXCEPT !.failedAttempts = @ + 1], "attempts_exhausted")
  ELSE [p EXCEPT !.failedAttempts = @ + 1, !.version = @ + 1]

Verified(c, p) ==
  IF call[c].right THEN [p EXCEPT !.status = "SUCCEEDED", !.version = @ + 1] ELSE Counted(p)

(* The record decides: an earlier result is answered again, a challenge    *)
(* that is due is closed, and the provider is asked once in a call.        *)
Load(c) ==
  /\ At(c, "load")
  /\ \/ /\ Stored(c).challenged
        /\ Stored(c).status = "SUCCEEDED" \/ Stored(c).closedReason # "none"
        /\ Tell(c, Stored(c).status)
     \/ /\ ~Stored(c).challenged \/ Stored(c).status \in {"REFUNDED", "CANCELLED"}
        /\ Finish(c) /\ UNCHANGED told
     \/ /\ Stored(c).status = "REQUIRES_3DS"
        /\ IF OrderOf(c) \in due THEN Prepare(c, "confirmWrite", Closed(Stored(c), "expired"))
           ELSE IF call[c].verified THEN Prepare(c, "confirmWrite", Verified(c, Stored(c)))
           ELSE Prepare(c, "verify", Stored(c))
        /\ UNCHANGED told
  /\ UNCHANGED <<payment, due, deaths, orphans, asked, wrong>>

Verify(c) ==
  /\ At(c, "verify")
  /\ \/ call' = [call EXCEPT ![c].step = "confirmWrite", ![c].verified = TRUE,
                             ![c].doc = Verified(c, @)]
     \/ Finish(c)   \* the provider cannot be reached
  /\ UNCHANGED <<payment, due, deaths, history>>

ConfirmWrite(c) ==
  LET doc == call[c].doc
  IN /\ At(c, "confirmWrite")
     /\ \/ /\ Fresh(c)
           /\ Store(c)
           /\ wrong' = IF doc.status # "SUCCEEDED" /\ doc.closedReason # "expired"
                       THEN [wrong EXCEPT ![OrderOf(c)] = @ + 1] ELSE wrong
           /\ IF doc.status = "REQUIRES_3DS" THEN Finish(c) /\ UNCHANGED told
              ELSE Tell(c, doc.status)
        \/ /\ ~Fresh(c)
           /\ IF call[c].attempt < MaxWriteRetries
              THEN call' = [call EXCEPT ![c].step = "load", ![c].attempt = @ + 1, ![c].doc = None]
              ELSE Finish(c)
           /\ UNCHANGED <<payment, wrong, told>>
     /\ UNCHANGED <<due, deaths, orphans, asked>>

-----------------------------------------------------------------------------
(* Refund, called by order-service, by the refund command, and by          *)
(* CancelPayment for a payment that was taken.                             *)

(* A cancel command that was handled; a refund that was answered.          *)
Handled(c) == IF call[c].op = "cancel" THEN Tell(c, "closed") ELSE Tell(c, "REFUNDED")

(* Only a completed payment is given back; mutant: one that waits for 3DS  *)
(* as well.                                                                *)
RefundableUnpaid(p) == p.status \in {"SUCCEEDED", "REQUIRES_3DS"}
Refundable(p) == p.status = "SUCCEEDED"

RefundLoad(c) ==
  /\ At(c, "refundLoad")
  /\ \/ Stored(c).status = "REFUNDED" /\ Handled(c)
     \/ /\ Refundable(Stored(c))
        /\ Prepare(c, "refundWrite", [Stored(c) EXCEPT !.status = "REFUNDED", !.version = @ + 1])
        /\ UNCHANGED told
     \/ /\ Stored(c).status # "REFUNDED" /\ ~Refundable(Stored(c))
        /\ Finish(c) /\ UNCHANGED told
  /\ UNCHANGED <<payment, due, deaths, orphans, asked, wrong>>

RefundWrite(c) ==
  /\ At(c, "refundWrite")
  /\ IF Fresh(c)
     THEN /\ Store(c) /\ Handled(c)
     ELSE Goto(c, "refundReread") /\ UNCHANGED <<payment, told>>
  /\ UNCHANGED <<due, deaths, orphans, asked, wrong>>

RefundReread(c) ==
  /\ At(c, "refundReread")
  /\ IF Stored(c).status = "REFUNDED" THEN Handled(c) ELSE Finish(c) /\ UNCHANGED told
  /\ UNCHANGED <<payment, due, deaths, orphans, asked, wrong>>

-----------------------------------------------------------------------------
(* CancelPayment, the cancel command.                                      *)

(* A card charge in flight is not decided here; mutant: it is closed.      *)
CancellableInFlight(p) == p.status \in {"REQUIRES_3DS", "PENDING"}
Cancellable(p) ==
  p.status = "REQUIRES_3DS" \/ (p.status = "PENDING" /\ p.method = "CASH_ON_DELIVERY")

CancelLoad(c) ==
  /\ At(c, "cancelLoad")
  /\ \/ Stored(c).status \in {"CANCELLED", "FAILED", "REFUNDED"} /\ Handled(c)
     \/ /\ Cancellable(Stored(c))
        /\ Prepare(c, "cancelWrite", [Stored(c) EXCEPT !.status = "CANCELLED", !.version = @ + 1])
        /\ UNCHANGED told
     \/ Stored(c).status = "SUCCEEDED" /\ Goto(c, "refundLoad") /\ UNCHANGED told
     \* No record: handled without effect.  A charge in flight: delivered again.
     \/ /\ Stored(c).status \in {"NONE", "PENDING"} /\ ~Cancellable(Stored(c))
        /\ Finish(c) /\ UNCHANGED told
  /\ UNCHANGED <<payment, due, deaths, orphans, asked, wrong>>

CancelWrite(c) ==
  /\ At(c, "cancelWrite")
  /\ \/ Fresh(c) /\ Store(c) /\ Handled(c)
     \/ /\ ~Fresh(c)
        /\ IF call[c].attempt < CancelRetries
           THEN call' = [call EXCEPT ![c].step = "cancelLoad", ![c].attempt = @ + 1,
                                     ![c].doc = None]
           ELSE Finish(c)
        /\ UNCHANGED <<payment, told>>
  /\ UNCHANGED <<due, deaths, orphans, asked, wrong>>

-----------------------------------------------------------------------------
(* The instance stops, or a read or write of a call fails.                 *)
Dies(c) ==
  /\ ~At(c, "idle") /\ deaths < MaxDeaths
  /\ deaths' = deaths + 1
  /\ orphans' = IF At(c, "authorize") \/ At(c, "settle")
                THEN orphans \cup {OrderOf(c)} ELSE orphans
  /\ Finish(c)
  /\ UNCHANGED <<payment, due, asked, wrong, told>>

Start(c) == StartCharge(c) \/ StartConfirm(c) \/ StartRefund(c) \/ StartCancel(c)

Proceed(c) ==
  \/ FindReplay(c) \/ FindByOrder(c) \/ NoSuchCard(c) \/ Insert(c) \/ FindWinner(c)
  \/ Authorize(c) \/ Settle(c)
  \/ Load(c) \/ Verify(c) \/ ConfirmWrite(c)
  \/ RefundLoad(c) \/ RefundWrite(c) \/ RefundReread(c)
  \/ CancelLoad(c) \/ CancelWrite(c)

Next ==
  \/ \E c \in Caller : Start(c) \/ Proceed(c) \/ InsertAnswerLost(c) \/ Dies(c)
  \/ \E o \in Order : RunOut(o)

Spec == Init /\ [][Next]_vars

(* A call that began goes on: node runs every promise of a call.           *)
FairSpec == Spec /\ \A c \in Caller : WF_vars(Proceed(c))

-----------------------------------------------------------------------------
(* Properties.                                                             *)

(* Every variable keeps its type.                                          *)
TypeOK ==
  /\ payment \in [Order -> PaymentDocument]
  /\ due \subseteq Order /\ orphans \subseteq Order
  /\ call \in [Caller -> Call]
  /\ deaths \in 0..MaxDeaths
  /\ asked \in [Order -> Nat] /\ wrong \in [Order -> Nat]
  /\ told \subseteq Answer

(* The provider is asked for the money of an order at most once, whatever   *)
(* keys and repetitions the requests come with (charge.ts, "cift cekim      *)
(* olmaz").                                                                *)
AskedOnce == \A o \in Order : asked[o] <= 1

(* No wrong code is lost when several are tried at once, and the code that  *)
(* pays comes before the last attempt is used up (three-ds.ts).            *)
AttemptsCount ==
  \A o \in Order :
    /\ wrong[o] = payment[o].failedAttempts
    /\ payment[o].failedAttempts <= MaxAttempts
    /\ payment[o].status = "SUCCEEDED" => payment[o].failedAttempts < MaxAttempts

(* A final answer stays true: a payment that was reported as taken, failed  *)
(* or closed is never found in a status that contradicts it.               *)
AnswersStand ==
  \A a \in told :
    payment[a.order].status \in
      CASE a.status = "SUCCEEDED" -> {"SUCCEEDED", "REFUNDED"}
        [] a.status = "FAILED"    -> {"FAILED"}
        [] a.status = "REFUNDED"  -> {"REFUNDED"}
        [] a.status = "closed"    -> {"CANCELLED", "FAILED", "REFUNDED"}

(* A card payment without a result has exactly one call that will bring it, *)
(* and nothing else decides it meanwhile, unless that call died.           *)
Charging(c, o) == OrderOf(c) = o /\ (At(c, "authorize") \/ At(c, "settle"))
PendingIsOwned ==
  \A o \in Order :
    /\ payment[o].status = "PENDING" /\ payment[o].method = "CARD" /\ o \notin orphans
         => \E c \in Caller : Charging(c, o)
    /\ \A c, d \in Caller :
         Charging(c, o) => payment[o].status = "PENDING" /\ (Charging(d, o) => c = d)

(* payment-service implements the table of its promise.                    *)
Records ==
  INSTANCE PaymentRecord WITH status <- [o \in Order |-> payment[o].status],
                              method <- [o \in Order |-> payment[o].method]
FollowsRecord == Records!Spec

(* A charge gets its result, unless its call died.                         *)
ChargeIsSettled ==
  \A o \in Order :
    payment[o].status = "PENDING" /\ payment[o].method = "CARD"
      ~> payment[o].status # "PENDING" \/ o \in orphans
=============================================================================
