--------------------------- MODULE OrderSagaProofs ---------------------------
(***************************************************************************)
(* The safety properties of the checkout, for any number of concurrent     *)
(* calls, sweepers, failures and crashes and any lock times.               *)
(*                                                                         *)
(* None of them is inductive: whether a write may be made depends on what  *)
(* the call that makes it has read and done before.  IInv adds, for every  *)
(* call under way, what its step implies (Fits): the status it has read,   *)
(* that an unchanged version means an unchanged status, what the payment   *)
(* record must be by now, and that the stock is sold before PAID.  Other   *)
(* calls cannot take this away because the world only moves forward        *)
(* (Onward): versions grow, a sold lock stays sold, and a payment that is   *)
(* taken, refunded or refused is never anything else but given back.       *)
(***************************************************************************)
EXTENDS OrderSaga, TLAPS

BeforePayment == {"DRAFT", "REVIEW", "REJECTED"}
Taken == {"SUCCEEDED", "REFUNDED"}

-----------------------------------------------------------------------------
(* The inductive invariant.                                                *)

(* What the step of a call says about the status it has read.              *)
ReadStatus(r) ==
  /\ r.step \in {"risk", "shorten", "decide"} => r.seen.status = "DRAFT"
  /\ r.step \in {"window", "recordMoved", "recordExtended", "charge", "charging", "confirm",
                 "fail", "commit", "markPaid", "lapse", "cancelLook"}
       => r.seen.status = "AWAITING_PAYMENT"
  /\ r.step \in {"close", "cancel"} => r.seen.status \in {"DRAFT", "AWAITING_PAYMENT"}
  /\ ~r.seen.marked

(* securePaymentWindow is entered with rounds left.                        *)
RoundsLeft(r) ==
  /\ r.step \in {"risk", "shorten", "decide"} => r.round = 1
  /\ r.step = "window" => r.round \in 1..2

(* A version that has not moved stands for a status that has not moved, and *)
(* an order that reached the payment keeps its method.                     *)
ReadOrder(r) ==
  r.step # "idle" =>
    /\ r.seen.version <= order.version
    /\ r.seen.version = order.version => r.seen.status = order.status
    /\ r.seen.status = "AWAITING_PAYMENT" =>
         order.method = r.seen.method /\ order.status \notin BeforePayment

(* What a call has learnt about the money.                                 *)
ReadPayment(r) ==
  /\ r.charge = "taken" => payment \in Taken
  /\ r.charge = "refunded" => payment = "REFUNDED"
  /\ r.step \in {"refund", "markAndCommand"} => r.charge = "taken"
  /\ r.step = "mark" => payment = "REFUNDED"
  /\ r.step \in {"fail", "failReread"} => payment = "FAILED"

(* The stock is sold before the order is paid.                             *)
SoldFirst(r) == r.step = "markPaid" => lock.state = "sold"

Fits(r) == ReadStatus(r) /\ RoundsLeft(r) /\ ReadOrder(r) /\ ReadPayment(r) /\ SoldFirst(r)

WorldTypes ==
  /\ now \in Nat
  /\ order \in OrderDocument
  /\ lock \in Lock
  /\ payment \in PaymentStatus /\ challenged \in BOOLEAN /\ asking \in BOOLEAN
  /\ commands \subseteq {"cancel", "refund"}
  /\ calls \in Nat /\ failures \in Nat /\ crashes \in Nat

OnlyCancelledIsMarked == order.marked => order.status = "CANCELLED"

AskingIsPending == asking => payment = "PENDING" /\ order.method = "card"

World ==
  /\ WorldTypes /\ AskingIsPending /\ OnlyCancelledIsMarked
  /\ PaidOnlyWithStock /\ FailedOnlyWithoutMoney /\ ChargedOnlyAfterRisk /\ RefundMarkIsBacked

IInv == World /\ run \in [Process -> Run] /\ \A p \in Process : Fits(run[p])

(* Nothing a call relies on is taken back by a step of another.            *)
Onward ==
  /\ \/ order' = order
     \/ /\ order'.version > order.version
        /\ order.status \notin BeforePayment =>
             order'.status \notin BeforePayment /\ order'.method = order.method
  /\ payment \in Taken => payment' \in Taken
  /\ payment \in {"REFUNDED", "FAILED"} => payment' = payment
  /\ lock.state = "sold" => lock'.state = "sold"

-----------------------------------------------------------------------------
(* Framing.                                                                *)

(* What a call knows survives a step that only moves the world onward.     *)
LEMMA FitsOnward ==
  ASSUME NEW r \in Run, WorldTypes, WorldTypes', Fits(r), Onward
  PROVE  Fits(r)'
<1>1. r.seen.version \in Nat /\ order.version \in Nat /\ order'.version \in Nat
  BY DEF WorldTypes, Run, OrderDocument
<1>2. ReadStatus(r)' /\ RoundsLeft(r)'
  BY DEF Fits, ReadStatus, RoundsLeft
<1>3. ReadOrder(r)'
  BY <1>1 DEF Fits, ReadOrder, Onward
<1>4. ReadPayment(r)'
  BY DEF Fits, ReadPayment, Onward
<1>5. SoldFirst(r)'
  BY DEF Fits, SoldFirst, Onward
<1> QED BY <1>2, <1>3, <1>4, <1>5 DEF Fits

(* What is known of one value of run[p] is known of the call that has it.   *)
LEMMA FitsLater ==
  ASSUME NEW q \in Process, NEW r \in Run, run'[q] = r, Fits(r)'
  PROVE  Fits(run[q])'
BY DEF Fits, ReadStatus, RoundsLeft, ReadOrder, ReadPayment, SoldFirst

LEMMA OtherCalls ==
  ASSUME IInv, World', Onward, NEW q \in Process, run'[q] = run[q]
  PROVE  Fits(run[q])'
<1>1. ASSUME NEW r \in Run, r = run[q] PROVE Fits(run[q])'
  <2>1. Fits(r)
    BY <1>1 DEF IInv
  <2>2. Fits(r)'
    BY <2>1, FitsOnward DEF IInv, World
  <2> QED BY <1>1, <2>2, FitsLater
<1> QED BY <1>1 DEF IInv

(* A step of one call that leaves it knowing what its new step implies.    *)
LEMMA Carry ==
  ASSUME IInv, World', Onward, NEW p \in Process, NEW r \in Run, Fits(r)',
         run' = [run EXCEPT ![p] = r]
  PROVE  IInv'
<1>1. run' \in [Process -> Run]
  BY DEF IInv
<1>2. ASSUME NEW q \in Process PROVE Fits(run[q])'
  <2>1. CASE q = p
    <3>1. run'[q] = r
      BY <2>1 DEF IInv
    <3> QED BY <3>1, FitsLater
  <2>2. CASE q # p
    <3>1. run'[q] = run[q]
      BY <2>2 DEF IInv
    <3> QED BY <3>1, OtherCalls
  <2> QED BY <2>1, <2>2
<1> QED BY <1>1, <1>2 DEF IInv

(* A step of the world that no call takes part in.                         *)
LEMMA Stay ==
  ASSUME IInv, World', Onward, run' = run
  PROVE  IInv'
<1>1. ASSUME NEW q \in Process PROVE Fits(run[q])'
  BY OtherCalls
<1> QED BY <1>1 DEF IInv

(* A step of one call that changes nothing but what it knows.              *)
LEMMA Local ==
  ASSUME IInv, NEW p \in Process, NEW r \in Run, Fits(r), Become(p, r),
         UNCHANGED <<now, order, outside, commands>>,
         calls' \in Nat, failures' \in Nat, crashes' \in Nat
  PROVE  IInv'
<1>1. World'
  BY DEF IInv, World, WorldTypes, AskingIsPending, OnlyCancelledIsMarked, PaidOnlyWithStock,
         FailedOnlyWithoutMoney, ChargedOnlyAfterRisk, RefundMarkIsBacked, outside
<1>2. Onward
  BY DEF Onward, outside
<1>3. Fits(r)'
  BY <1>2, <1>1, FitsOnward DEF IInv, World
<1> QED BY <1>1, <1>2, <1>3, Carry DEF Become

-----------------------------------------------------------------------------
(* The values a call takes on.                                             *)

LEMMA Constants ==
  /\ Ttl \in Nat /\ ExtendBy \in Nat /\ MaxRemaining \in Nat /\ MaxExtensions \in Nat
  /\ Request \cup Sweeper = Process
BY ParameterAssumption DEF Process

LEMMA IdleFits == Idle \in Run /\ Fits(Idle)
BY Constants DEF Idle, Draft, Run, Step, Goal, Charge, OrderDocument, Status, Method,
   Fits, ReadStatus, RoundsLeft, ReadOrder, ReadPayment, SoldFirst

LEMMA IdleFitsLater == Fits(Idle)'
BY Constants DEF Idle, Draft, Fits, ReadStatus, RoundsLeft, ReadOrder, ReadPayment, SoldFirst

LEMMA Known ==
  ASSUME IInv, NEW p \in Process
  PROVE  run[p] \in Run /\ Fits(run[p]) /\ WorldTypes
BY DEF IInv, World

(* A call that ends knows nothing any more.                                *)
LEMMA Ends ==
  ASSUME IInv, NEW p \in Process, Finish(p), UNCHANGED <<now, order, outside, commands>>,
         calls' \in Nat, failures' \in Nat, crashes' \in Nat
  PROVE  IInv'
BY IdleFits, Local DEF Finish

(* A call that begins has just read the order.                             *)
Startable(step) ==
  \/ step \in {"close", "cancel", "risk"} /\ order.status = "DRAFT"
  \/ step \in {"window", "cancelLook", "lapse"} /\ order.status = "AWAITING_PAYMENT"

LEMMA Begins ==
  ASSUME IInv, NEW p \in Process, NEW step, NEW goal \in Goal, Begin(p, step, goal, "none"),
         calls' \in Nat, Startable(step)
  PROVE  IInv'
<1> DEFINE r == [step |-> step, goal |-> goal, seen |-> order, charge |-> "none", round |-> 1]
<1>1. WorldTypes /\ ~order.marked
  BY DEF IInv, World, OnlyCancelledIsMarked, Startable
<1>2. r \in Run
  BY <1>1 DEF Run, Step, Charge, WorldTypes, Startable
<1>3. Fits(r)
  BY <1>1 DEF Fits, ReadStatus, RoundsLeft, ReadOrder, ReadPayment, SoldFirst, BeforePayment,
     WorldTypes, OrderDocument, Startable
<1>4. failures' \in Nat /\ crashes' \in Nat
  BY <1>1 DEF Begin, WorldTypes
<1> HIDE DEF r
<1> QED BY <1>2, <1>3, <1>4, Local DEF Begin, outside, r

LEMMA BeginsDraft ==
  ASSUME IInv, NEW p \in Process, NEW step \in {"close", "cancel", "risk"}, NEW goal \in Goal,
         Begin(p, step, goal, "none"), calls' \in Nat, order.status = "DRAFT"
  PROVE  IInv'
<1>1. Startable(step)
  BY DEF Startable
<1> QED BY <1>1, Begins

LEMMA BeginsWaiting ==
  ASSUME IInv, NEW p \in Process, NEW step \in {"window", "cancelLook", "lapse"}, NEW goal \in Goal,
         Begin(p, step, goal, "none"), calls' \in Nat, order.status = "AWAITING_PAYMENT"
  PROVE  IInv'
<1>1. Startable(step)
  BY DEF Startable
<1> QED BY <1>1, Begins

LEMMA CallsBegin ==
  ASSUME IInv
  PROVE  /\ \A p \in Request : CreateOrder(p) \/ ConfirmPayment(p) \/ CancelOrder(p) => IInv'
         /\ \A p \in Sweeper : Sweep(p) => IInv'
<1>0. calls \in Nat
  BY DEF IInv, World, WorldTypes
<1>1. \A goal \in {"create", "change", "confirm", "cancel", "lapse"} : goal \in Goal
  BY DEF Goal
<1>2. ASSUME NEW p \in Request, CreateOrder(p) PROVE IInv'
  <2>1. p \in Process /\ calls' \in Nat
    BY <1>0, <1>2 DEF CreateOrder, Process
  <2>2. CASE order.status = "DRAFT" /\ Begin(p, "close", "lapse", "none")
    BY <1>1, <2>1, <2>2, BeginsDraft
  <2>3. CASE order.status = "DRAFT" /\ Begin(p, "risk", "create", "none")
    BY <1>1, <2>1, <2>3, BeginsDraft
  <2>4. ASSUME NEW goal \in {"create", "change"}, order.status = "AWAITING_PAYMENT",
               Begin(p, "window", goal, "none")
        PROVE  IInv'
    BY <1>1, <2>1, <2>4, BeginsWaiting
  <2> QED BY <1>2, <2>2, <2>3, <2>4 DEF CreateOrder
<1>3. ASSUME NEW p \in Request, ConfirmPayment(p) PROVE IInv'
  BY <1>0, <1>1, <1>3, BeginsWaiting DEF ConfirmPayment, Process
<1>4. ASSUME NEW p \in Request, CancelOrder(p) PROVE IInv'
  <2>1. p \in Process /\ calls' \in Nat
    BY <1>0, <1>4 DEF CancelOrder, Process
  <2>2. CASE order.status = "DRAFT" /\ Begin(p, "cancel", "cancel", "none")
    BY <1>1, <2>1, <2>2, BeginsDraft
  <2>3. CASE order.status = "AWAITING_PAYMENT" /\ Begin(p, "cancelLook", "cancel", "none")
    BY <1>1, <2>1, <2>3, BeginsWaiting
  <2> QED BY <1>4, <2>2, <2>3 DEF CancelOrder
<1>5. ASSUME NEW p \in Sweeper, Sweep(p) PROVE IInv'
  <2>1. p \in Process /\ calls' \in Nat
    BY <1>0, <1>5 DEF Sweep, Process
  <2>2. CASE order.status = "DRAFT" /\ Begin(p, "close", "lapse", "none")
    BY <1>1, <2>1, <2>2, BeginsDraft
  <2>3. CASE order.status = "AWAITING_PAYMENT" /\ Begin(p, "lapse", "lapse", "none")
    BY <1>1, <2>1, <2>3, BeginsWaiting
  <2> QED BY <1>5, <2>2, <2>3 DEF Sweep
<1> QED BY <1>2, <1>3, <1>4, <1>5

-----------------------------------------------------------------------------
(* Risk.                                                                   *)

LEMMA EvaluateRiskKeeps ==
  ASSUME IInv, NEW p \in Process, EvaluateRisk(p)
  PROVE  IInv'
<1> PICK band \in {"LOW", "MEDIUM", "HIGH", "CRITICAL"}, method \in Method \cup {"none"} :
      Become(p, [run[p] EXCEPT !.step = IF band = "MEDIUM" THEN "shorten" ELSE "decide",
                               !.seen.band = band, !.seen.method = method])
  BY DEF EvaluateRisk
<1> DEFINE r == [run[p] EXCEPT !.step = IF band = "MEDIUM" THEN "shorten" ELSE "decide",
                               !.seen.band = band, !.seen.method = method]
<1>1. run[p] \in Run /\ Fits(run[p]) /\ run[p].step = "risk"
  BY Known DEF EvaluateRisk, At
<1>2. r \in Run
  BY <1>1 DEF Run, Step, OrderDocument
<1>3. Fits(r)
  BY <1>1 DEF Run, OrderDocument, Fits, ReadStatus, RoundsLeft, ReadOrder, ReadPayment, SoldFirst
<1>4. calls' \in Nat /\ failures' \in Nat /\ crashes' \in Nat
  BY Known DEF EvaluateRisk, bounded, WorldTypes
<1> HIDE DEF r
<1> QED BY <1>2, <1>3, <1>4, Local DEF EvaluateRisk, r

LEMMA ShortenKeeps ==
  ASSUME IInv, NEW p \in Process, Shorten(p)
  PROVE  IInv'
<1>1. run[p] \in Run /\ Fits(run[p]) /\ WorldTypes /\ run[p].step = "shorten"
  BY Known DEF Shorten, At
<1>2. calls' \in Nat /\ failures' \in Nat /\ crashes' \in Nat
  BY <1>1 DEF Shorten, Answered, WorldTypes
<1>3. CASE ~LockActive
  <2> DEFINE r == [run[p] EXCEPT !.step = "close", !.goal = "lapse"]
  <2>1. r \in Run
    BY <1>1 DEF Run, Step, Goal
  <2>2. Fits(r)
    BY <1>1 DEF Run, Fits, ReadStatus, RoundsLeft, ReadOrder, ReadPayment, SoldFirst
  <2>3. Become(p, r) /\ UNCHANGED <<now, order, outside, commands>>
    BY <1>3 DEF Shorten, outside
  <2> HIDE DEF r
  <2> QED BY <1>2, <2>1, <2>2, <2>3, Local
<1>4. CASE LockActive
  <2> DEFINE until == IF lock.expiresAt > now + MaxRemaining THEN now + MaxRemaining
                                                             ELSE lock.expiresAt
  <2>1. /\ lock' = [lock EXCEPT !.expiresAt = until]
        /\ Answered(p, [run[p] EXCEPT !.step = "decide", !.seen.expiresAt = until])
        /\ UNCHANGED <<now, order, payment, challenged, asking, commands>>
    BY <1>4 DEF Shorten
  <2>2. until \in Nat
    BY <1>1, Constants DEF WorldTypes, Lock
  <2> HIDE DEF until
  <2>3. lock' \in Lock /\ lock'.state = lock.state
    BY <1>1, <2>1, <2>2 DEF WorldTypes, Lock
  <2>4. World'
    BY <1>2, <2>1, <2>3 DEF IInv, World, WorldTypes, AskingIsPending, OnlyCancelledIsMarked,
       PaidOnlyWithStock, FailedOnlyWithoutMoney, ChargedOnlyAfterRisk, RefundMarkIsBacked
  <2>5. Onward
    BY <2>1, <2>3 DEF Onward
  <2>6. [run[p] EXCEPT !.step = "decide", !.seen.expiresAt = until] \in Run
    BY <1>1, <2>2 DEF Run, Step, OrderDocument
  <2>7. PICK r \in Run : r = [run[p] EXCEPT !.step = "decide", !.seen.expiresAt = until]
    BY <2>6
  <2>8. Fits(r)'
    BY <1>1, <2>1, <2>2, <2>7 DEF Run, OrderDocument, Fits, ReadStatus, RoundsLeft, ReadOrder,
       ReadPayment, SoldFirst
  <2> QED BY <2>1, <2>4, <2>5, <2>7, <2>8, Carry, Stay DEF Answered, Become
<1> QED BY <1>3, <1>4

-----------------------------------------------------------------------------
(* Writing the order.                                                      *)

LEMMA WrittenType ==
  ASSUME NEW o \in OrderDocument, NEW status \in Status, NEW transitions \in Nat \ {0}
  PROVE  /\ Written(o, status, transitions) \in OrderDocument
         /\ Written(o, status, transitions).status = status
         /\ Written(o, status, transitions).version = o.version + transitions
         /\ Written(o, status, transitions).version > o.version
         /\ Written(o, status, transitions).expiresAt = o.expiresAt
         /\ Written(o, status, transitions).marked = o.marked
         /\ Written(o, status, transitions).method = o.method
<1>1. o.version + transitions \in Nat /\ o.version + transitions > o.version
  BY DEF OrderDocument
<1>2. Written(o, status, transitions) \in OrderDocument
  BY <1>1 DEF Written, OrderDocument
<1>3. /\ Written(o, status, transitions).status = status
      /\ Written(o, status, transitions).version = o.version + transitions
      /\ Written(o, status, transitions).expiresAt = o.expiresAt
      /\ Written(o, status, transitions).marked = o.marked
      /\ Written(o, status, transitions).method = o.method
  BY DEF Written, OrderDocument
<1> QED BY <1>1, <1>2, <1>3

(* A document that may replace the order, written with these commands.     *)
Sound(o, c) ==
  /\ o \in OrderDocument /\ o.version > order.version
  /\ order.status \notin BeforePayment =>
       o.status \notin BeforePayment /\ o.method = order.method
  /\ o.status \in {"PAID", "PREPARING"} => lock.state = "sold"
  /\ o.status = "PAYMENT_FAILED" => payment = "FAILED"
  /\ o.status \in BeforePayment => payment = "NONE"
  /\ o.marked => /\ o.status = "CANCELLED"
                 /\ payment = "REFUNDED" \/ (payment = "SUCCEEDED" /\ "refund" \in c)

LEMMA SoundWrite ==
  ASSUME IInv, NEW o, NEW c \in SUBSET {"cancel", "refund"}, Sound(o, c),
         order' = o, commands' = c, UNCHANGED <<now, outside, bounded>>
  PROVE  World' /\ Onward
<1>1. Onward
  BY DEF Sound, Onward, outside
<1>2. WorldTypes'
  BY DEF IInv, World, WorldTypes, Sound, outside, bounded
<1>3. AskingIsPending'
  BY DEF IInv, World, AskingIsPending, ChargedOnlyAfterRisk, Sound, BeforePayment, outside
<1>4. OnlyCancelledIsMarked' /\ PaidOnlyWithStock' /\ FailedOnlyWithoutMoney'
      /\ ChargedOnlyAfterRisk' /\ RefundMarkIsBacked'
  BY DEF OnlyCancelledIsMarked, PaidOnlyWithStock, FailedOnlyWithoutMoney,
     ChargedOnlyAfterRisk, RefundMarkIsBacked, Sound, BeforePayment, outside
<1> QED BY <1>1, <1>2, <1>3, <1>4 DEF World

(* A refused write ends the call.                                          *)
LEMMA Refused ==
  ASSUME IInv, NEW p \in Process, Finish(p), UNCHANGED <<now, order, outside, commands, bounded>>
  PROVE  IInv'
BY Ends, Known DEF bounded, WorldTypes

LEMMA DecideKeeps ==
  ASSUME IInv, NEW p \in Process, Decide(p)
  PROVE  IInv'
<1>1. run[p] \in Run /\ Fits(run[p]) /\ WorldTypes /\ run[p].step = "decide"
  BY Known DEF Decide, At
<1>2. CASE ~Fresh(p)
  BY <1>2, Refused DEF Decide
<1>3. CASE Fresh(p)
  <2> DEFINE o == Decision(run[p].seen)
             known == [run[p] EXCEPT !.seen = o,
                         !.step = IF o.status = "AWAITING_PAYMENT" THEN "window" ELSE "release"]
  <2>1. order' = o /\ commands' = commands /\ Become(p, known)
        /\ UNCHANGED <<now, outside, bounded>>
    BY <1>3, <1>1 DEF Decide
  <2>2. /\ o \in OrderDocument /\ o.version > order.version /\ ~o.marked
        /\ o.status \in {"REVIEW", "REJECTED", "AWAITING_PAYMENT"}
    <3>1. run[p].seen \in OrderDocument /\ ~run[p].seen.marked /\ order.version = run[p].seen.version
      BY <1>1, <1>3 DEF Fresh, Run, Fits, ReadStatus
    <3>2. PICK status \in {"REVIEW", "REJECTED", "AWAITING_PAYMENT"}, transitions \in {2, 3} :
            o = Written(run[p].seen, status, transitions)
      BY DEF Decision
    <3> HIDE DEF o
    <3>3. status \in Status /\ transitions \in Nat \ {0}
      BY DEF Status
    <3> QED BY <3>1, <3>2, <3>3, WrittenType
  <2> HIDE DEF o
  <2>3. order.status = "DRAFT" /\ payment = "NONE"
    BY <1>1, <1>3 DEF Fits, ReadStatus, ReadOrder, Fresh, IInv, World, ChargedOnlyAfterRisk
  <2>4. Sound(o, commands)
    BY <2>2, <2>3 DEF Sound, BeforePayment
  <2>5. World' /\ Onward
    BY <1>1, <2>1, <2>4, SoundWrite DEF WorldTypes
  <2>6. known \in Run
    BY <1>1, <2>2 DEF Run, Step
  <2>7. PICK r \in Run : r = known
    BY <2>6
  <2>8. /\ r.seen = order' /\ r.charge = run[p].charge /\ r.round = 1
        /\ (r.step = "window" /\ o.status = "AWAITING_PAYMENT") \/ r.step = "release"
    BY <1>1, <2>1, <2>7 DEF Run, Fits, RoundsLeft
  <2>9. Fits(r)'
    BY <1>1, <2>1, <2>2, <2>8 DEF Run, OrderDocument, Fits, ReadStatus, RoundsLeft, ReadOrder,
       ReadPayment, SoldFirst, BeforePayment, outside
  <2> QED BY <2>1, <2>5, <2>7, <2>9, Carry DEF Become
<1> QED BY <1>2, <1>3

-----------------------------------------------------------------------------
(* The payment window.                                                     *)

LEMMA PayableFits ==
  ASSUME NEW r \in Run, Fits(r), r.step \in {"window", "recordMoved", "recordExtended"}
  PROVE  Payable(r) \in Run /\ Fits(Payable(r))
<1>1. CASE r.goal = "create"
  BY <1>1 DEF Payable, Run, Step, Fits, ReadStatus, RoundsLeft, ReadOrder, ReadPayment, SoldFirst
<1>2. CASE r.goal = "confirm"
  BY <1>2 DEF Payable, Run, Step, Fits, ReadStatus, RoundsLeft, ReadOrder, ReadPayment, SoldFirst
<1>3. CASE r.goal \notin {"create", "confirm"}
  BY <1>3, IdleFits DEF Payable
<1> QED BY <1>1, <1>2, <1>3

LEMMA WindowKeeps ==
  ASSUME IInv, NEW p \in Process, Window(p)
  PROVE  IInv'
<1> DEFINE extended == [lock EXCEPT !.expiresAt = @ + ExtendBy, !.extensions = @ + 1]
           moved == [run[p] EXCEPT !.step = "recordMoved", !.seen.expiresAt = lock.expiresAt,
                                   !.round = @ + 1]
           longer == [run[p] EXCEPT !.step = "recordExtended",
                                    !.seen.expiresAt = extended.expiresAt]
<1>1. run[p] \in Run /\ Fits(run[p]) /\ WorldTypes /\ run[p].step = "window"
  BY Known DEF Window, At
<1>2. calls' \in Nat /\ failures' \in Nat /\ crashes' \in Nat
  BY <1>1 DEF Window, Answered, WorldTypes
<1>3. UNCHANGED <<now, order, payment, challenged, asking, commands>>
  BY DEF Window
<1>4. CASE Become(p, Payable(run[p])) /\ UNCHANGED lock
  BY <1>1, <1>2, <1>3, <1>4, PayableFits, Local DEF outside
<1>5. CASE Goto(p, "lapse") /\ UNCHANGED lock
  <2>1. [run[p] EXCEPT !.step = "lapse"] \in Run
    BY <1>1 DEF Run, Step
  <2>2. Fits([run[p] EXCEPT !.step = "lapse"])
    BY <1>1 DEF Run, Fits, ReadStatus, RoundsLeft, ReadOrder, ReadPayment, SoldFirst
  <2>3. Become(p, [run[p] EXCEPT !.step = "lapse"])
    BY <1>1, <1>5 DEF Goto, Become, IInv
  <2> QED BY <1>2, <1>3, <1>5, <2>1, <2>2, <2>3, Local DEF outside
<1>6. CASE Become(p, moved) /\ UNCHANGED lock
  <2>1. moved \in Run
    <3>1. run[p].round + 1 \in 1..3 /\ lock.expiresAt \in Nat
      BY <1>1 DEF Run, WorldTypes, Lock, Fits, RoundsLeft
    <3> QED BY <1>1, <3>1 DEF Run, Step, OrderDocument
  <2>2. Fits(moved)
    BY <1>1 DEF Run, OrderDocument, Fits, ReadStatus, RoundsLeft, ReadOrder, ReadPayment, SoldFirst
  <2> HIDE DEF moved
  <2> QED BY <1>2, <1>3, <1>6, <2>1, <2>2, Local DEF outside
<1>7. CASE lock' = extended /\ Answered(p, longer)
  <2>1. extended \in Lock /\ extended.state = lock.state
    <3>1. lock.expiresAt + ExtendBy \in Nat /\ lock.extensions + 1 \in Nat /\ lock \in Lock
      BY <1>1, Constants DEF WorldTypes, Lock
    <3> QED BY <3>1 DEF Lock
  <2> HIDE DEF extended
  <2>2. World'
    BY <1>1, <1>2, <1>3, <1>7, <2>1 DEF IInv, World, WorldTypes, AskingIsPending,
       OnlyCancelledIsMarked, PaidOnlyWithStock, FailedOnlyWithoutMoney, ChargedOnlyAfterRisk,
       RefundMarkIsBacked
  <2>3. Onward
    BY <1>3, <1>7, <2>1 DEF Onward
  <2>4. longer \in Run
    BY <1>1, <2>1 DEF Run, Step, OrderDocument, Lock
  <2>5. PICK r \in Run : r = longer
    BY <2>4
  <2>6. Fits(r)'
    BY <1>1, <1>3, <1>7, <2>1, <2>5 DEF Run, OrderDocument, Lock, Fits, ReadStatus, RoundsLeft,
       ReadOrder, ReadPayment, SoldFirst
  <2> HIDE DEF longer
  <2> QED BY <1>7, <2>2, <2>3, <2>5, <2>6, Carry, Stay DEF Answered, Become
<1> QED BY <1>4, <1>5, <1>6, <1>7 DEF Window

LEMMA RecordExpiryKeeps ==
  ASSUME IInv, NEW p \in Process, RecordExpiry(p)
  PROVE  IInv'
<1>1. /\ run[p] \in Run /\ Fits(run[p]) /\ WorldTypes
      /\ run[p].step \in {"recordMoved", "recordExtended"}
  BY Known DEF RecordExpiry
<1>2. CASE ~Fresh(p)
  BY <1>2, Refused DEF RecordExpiry
<1>3. CASE Fresh(p)
  <2> DEFINE o == Written(run[p].seen, run[p].seen.status, 1)
             recorded == [run[p] EXCEPT !.seen = o]
             known == IF run[p].step = "recordMoved" /\ run[p].round <= 2
                      THEN [recorded EXCEPT !.step = "window"]
                      ELSE Payable(recorded)
  <2>1. order' = o /\ commands' = commands /\ Become(p, known)
        /\ UNCHANGED <<now, outside, bounded>>
    BY <1>3, <1>1 DEF RecordExpiry
  <2>2. /\ order.status = "AWAITING_PAYMENT" /\ run[p].seen.status = "AWAITING_PAYMENT"
        /\ order.version = run[p].seen.version /\ order.method = run[p].seen.method
        /\ run[p].seen \in OrderDocument /\ ~run[p].seen.marked
    BY <1>1, <1>3 DEF Run, Fits, ReadStatus, ReadOrder, Fresh
  <2>3. /\ o \in OrderDocument /\ o.version > order.version /\ ~o.marked
        /\ o.status = "AWAITING_PAYMENT" /\ o.method = order.method
    <3>1. "AWAITING_PAYMENT" \in Status /\ 1 \in Nat \ {0}
      BY DEF Status
    <3> HIDE DEF o
    <3>2. o = Written(run[p].seen, "AWAITING_PAYMENT", 1)
      BY <2>2 DEF o
    <3> QED BY <2>2, <3>1, <3>2, WrittenType
  <2> HIDE DEF o
  <2>4. Sound(o, commands)
    BY <2>2, <2>3 DEF Sound, BeforePayment
  <2>5. World' /\ Onward
    BY <1>1, <2>1, <2>4, SoundWrite DEF WorldTypes
  <2>6. recorded \in Run /\ recorded.seen = o /\ recorded.charge = run[p].charge
        /\ recorded.round = run[p].round /\ recorded.round \in 1..3
    BY <1>1, <2>3 DEF Run
  <2>7. /\ known \in Run
        /\ \/ known = Idle
           \/ /\ known.step \in {"window", "charge", "confirm"}
              /\ known.seen = o /\ known.charge = run[p].charge
              /\ known.step = "window" => known.round \in 1..2
    <3> HIDE DEF recorded
    <3> QED BY <2>6, IdleFits DEF Payable, Run, Step
  <2> HIDE DEF known
  <2>8. PICK r \in Run : r = known
    BY <2>7
  <2>9. CASE r = Idle
    BY <2>1, <2>5, <2>8, <2>9, IdleFitsLater, Carry DEF Become
  <2>10. CASE r # Idle
    <3>1. Fits(r)'
      BY <1>1, <2>1, <2>3, <2>7, <2>8, <2>10 DEF Run, OrderDocument, Fits, ReadStatus, RoundsLeft,
         ReadOrder, ReadPayment, SoldFirst, BeforePayment, outside
    <3> QED BY <2>1, <2>5, <2>8, <3>1, Carry DEF Become
  <2> QED BY <2>9, <2>10
<1> QED BY <1>2, <1>3

-----------------------------------------------------------------------------
(* The payment.                                                            *)

(* What the payment record may become while nothing else changes.          *)
Receipt ==
  /\ payment' \in PaymentStatus
  /\ payment \in Taken => payment' \in Taken
  /\ payment \in {"REFUNDED", "FAILED"} => payment' = payment
  /\ asking' => payment' = "PENDING" /\ order.method = "card"
  /\ order.status \in BeforePayment => payment' = "NONE"
  /\ order.marked => payment' = "REFUNDED" \/ (payment' = "SUCCEEDED" /\ "refund" \in commands')

LEMMA SoundReceipt ==
  ASSUME IInv, Receipt, UNCHANGED <<now, order, lock>>, commands' \subseteq {"cancel", "refund"},
         challenged' \in BOOLEAN, asking' \in BOOLEAN,
         calls' \in Nat, failures' \in Nat, crashes' \in Nat
  PROVE  World' /\ Onward
<1>1. Onward
  BY DEF Receipt, Onward
<1>2. WorldTypes' /\ AskingIsPending'
  BY DEF IInv, World, WorldTypes, AskingIsPending, Receipt
<1>3. OnlyCancelledIsMarked' /\ PaidOnlyWithStock' /\ FailedOnlyWithoutMoney'
      /\ ChargedOnlyAfterRisk' /\ RefundMarkIsBacked'
  BY DEF IInv, World, OnlyCancelledIsMarked, PaidOnlyWithStock, FailedOnlyWithoutMoney,
     ChargedOnlyAfterRisk, RefundMarkIsBacked, Receipt, BeforePayment
<1> QED BY <1>1, <1>2, <1>3 DEF World

(* What a settled call does next.                                          *)
LEMMA SettleCases ==
  ASSUME NEW r \in Run, NEW status \in PaymentStatus
  PROVE  /\ Settle(r, status) \in Run
         /\ \/ Settle(r, status) = Idle
            \/ /\ Settle(r, status) = [r EXCEPT !.step = "commit", !.charge = "taken"]
               /\ status = "SUCCEEDED"
            \/ Settle(r, status) = [r EXCEPT !.step = "commit"] /\ status = "PENDING"
            \/ Settle(r, status) = [r EXCEPT !.step = "fail"] /\ status = "FAILED"
<1>1. CASE status = "SUCCEEDED"
  BY <1>1 DEF Settle, Run, Step, Charge
<1>2. CASE status = "PENDING" /\ r.seen.method = "cash"
  BY <1>2 DEF Settle, Run, Step
<1>3. CASE status = "FAILED"
  BY <1>3 DEF Settle, Run, Step
<1>4. CASE /\ status # "SUCCEEDED" /\ status # "FAILED"
           /\ ~(status = "PENDING" /\ r.seen.method = "cash")
  BY <1>4, IdleFits DEF Settle
<1> QED BY <1>1, <1>2, <1>3, <1>4

(* Once the record has become what the call is told, the call fits it.     *)
LEMMA SettleFitsLater ==
  ASSUME NEW r \in Run, Fits(r)', r.step \in {"charge", "charging", "confirm"},
         NEW status \in PaymentStatus, payment' = status,
         NEW s \in Run, s = Settle(r, status)
  PROVE  Fits(s)'
<1>1. CASE s = Idle
  BY <1>1, IdleFitsLater
<1>2. CASE s = [r EXCEPT !.step = "commit", !.charge = "taken"] /\ status = "SUCCEEDED"
  BY <1>2 DEF Run, Fits, ReadStatus, RoundsLeft, ReadOrder, ReadPayment, SoldFirst, Taken
<1>3. CASE s = [r EXCEPT !.step = "commit"] /\ status = "PENDING"
  BY <1>3 DEF Run, Fits, ReadStatus, RoundsLeft, ReadOrder, ReadPayment, SoldFirst
<1>4. CASE s = [r EXCEPT !.step = "fail"] /\ status = "FAILED"
  BY <1>4 DEF Run, Fits, ReadStatus, RoundsLeft, ReadOrder, ReadPayment, SoldFirst
<1> QED BY <1>1, <1>2, <1>3, <1>4, SettleCases

(* A call that makes the payment record what it is told settles by it.     *)
LEMMA Settles ==
  ASSUME IInv, World', Onward, NEW p \in Process, NEW status \in PaymentStatus, payment' = status,
         run[p].step \in {"charge", "charging", "confirm"}, run'[p] = Settle(run[p], status)
  PROVE  run'[p] \in Run /\ Fits(run[p])'
<1>1. PICK r \in Run : r = run[p]
  BY DEF IInv
<1>2. Fits(r)'
  BY <1>1, FitsOnward DEF IInv, World
<1>3. PICK s \in Run : s = Settle(r, status)
  BY SettleCases
<1>4. Fits(s)'
  BY <1>1, <1>2, <1>3, SettleFitsLater
<1> QED BY <1>1, <1>3, <1>4, FitsLater

LEMMA SettlesAlone ==
  ASSUME IInv, World', Onward, NEW p \in Process, NEW status \in PaymentStatus, payment' = status,
         run[p].step \in {"charge", "charging", "confirm"}, Become(p, Settle(run[p], status))
  PROVE  IInv'
<1>1. run'[p] = Settle(run[p], status)
  BY DEF Become, IInv
<1>2. run'[p] \in Run /\ Fits(run[p])'
  BY <1>1, Settles
<1>3. run' \in [Process -> Run]
  BY <1>2 DEF IInv, Become
<1>4. ASSUME NEW q \in Process PROVE Fits(run[q])'
  <2>1. CASE q = p
    BY <1>2, <2>1
  <2>2. CASE q # p
    BY <2>2, OtherCalls DEF Become, IInv
  <2> QED BY <2>1, <2>2
<1> QED BY <1>3, <1>4 DEF IInv

LEMMA ChargeOrderKeeps ==
  ASSUME IInv, NEW p \in Process, ChargeOrder(p)
  PROVE  IInv'
<1>1. run[p] \in Run /\ Fits(run[p]) /\ WorldTypes /\ run[p].step = "charge"
  BY Known DEF ChargeOrder, At
<1>2. calls' \in Nat /\ failures' \in Nat /\ crashes' \in Nat
  BY <1>1 DEF ChargeOrder, Answered, WorldTypes
<1>3. UNCHANGED <<now, order, lock, challenged, commands>>
  BY DEF ChargeOrder
<1>4. CASE payment # "NONE"
  <2>1. Become(p, Settle(run[p], payment)) /\ UNCHANGED <<payment, asking>>
    BY <1>4 DEF ChargeOrder
  <2>2. Receipt
    BY <2>1, <1>3 DEF Receipt, IInv, World, WorldTypes, AskingIsPending, ChargedOnlyAfterRisk,
       BeforePayment, RefundMarkIsBacked
  <2>3. World' /\ Onward
    BY <1>1, <1>2, <1>3, <2>1, <2>2, SoundReceipt DEF WorldTypes
  <2> QED BY <1>1, <2>1, <2>3, SettlesAlone DEF WorldTypes
<1>5. CASE payment = "NONE"
  <2>1. order.status \notin BeforePayment /\ order.method = run[p].seen.method
    BY <1>1 DEF Fits, ReadStatus, ReadOrder
  <2>2. ~order.marked /\ ~asking
    BY <1>5 DEF IInv, World, RefundMarkIsBacked, AskingIsPending
  <2>3. payment' = "PENDING"
    BY <1>5 DEF ChargeOrder
  <2>4. asking' = asking \/ (asking' /\ run[p].seen.method = "card")
    BY <1>5 DEF ChargeOrder
  <2>5. Receipt
    BY <1>5, <2>1, <2>2, <2>3, <2>4 DEF Receipt, Taken, PaymentStatus
  <2>6. World' /\ Onward
    BY <1>1, <1>2, <1>3, <2>4, <2>5, SoundReceipt DEF WorldTypes
  <2>7. CASE Answered(p, Settle(run[p], "PENDING"))
    BY <1>1, <2>3, <2>6, <2>7, SettlesAlone, Stay DEF Answered, PaymentStatus
  <2>8. CASE Goto(p, "charging")
    <3>1. [run[p] EXCEPT !.step = "charging"] \in Run
      BY <1>1 DEF Run, Step
    <3>2. PICK r \in Run : r = [run[p] EXCEPT !.step = "charging"]
      BY <3>1
    <3>3. Fits(r)
      BY <1>1, <3>2 DEF Run, Fits, ReadStatus, RoundsLeft, ReadOrder, ReadPayment, SoldFirst
    <3>4. Fits(r)'
      BY <1>1, <2>6, <3>3, FitsOnward DEF World
    <3>5. Become(p, r)
      BY <2>8, <3>2 DEF Goto, Become, IInv
    <3> QED BY <2>6, <3>4, <3>5, Carry DEF Become
  <2> QED BY <1>5, <2>7, <2>8 DEF ChargeOrder
<1> QED BY <1>4, <1>5

(* A record that waits for the provider may take any answer.               *)
LEMMA Answering ==
  ASSUME IInv, asking \/ payment = "REQUIRES_3DS", UNCHANGED <<order, commands>>,
         payment' \in PaymentStatus, ~asking' \/ (payment' = payment /\ asking' = asking)
  PROVE  Receipt
BY DEF Receipt, Taken, IInv, World, AskingIsPending, ChargedOnlyAfterRisk, BeforePayment,
   RefundMarkIsBacked

LEMMA ProviderAnswersKeeps ==
  ASSUME IInv, NEW outcome \in {"SUCCEEDED", "REQUIRES_3DS", "FAILED"}, ProviderAnswers(outcome)
  PROVE  IInv'
<1>1. Receipt
  BY Answering DEF ProviderAnswers, PaymentStatus
<1>2. World' /\ Onward
  BY <1>1, SoundReceipt DEF ProviderAnswers, bounded, IInv, World, WorldTypes
<1>3. ASSUME NEW q \in Process PROVE run'[q] \in Run /\ Fits(run[q])'
  <2>1. CASE run[q].step = "charging"
    <3>1. run'[q] = Settle(run[q], outcome) /\ payment' = outcome
      BY <2>1 DEF ProviderAnswers, At
    <3> QED BY <1>2, <2>1, <3>1, Settles DEF PaymentStatus
  <2>2. CASE run[q].step # "charging"
    <3>1. run'[q] = run[q] /\ run[q] \in Run
      BY <2>2 DEF ProviderAnswers, At, IInv
    <3> QED BY <1>2, <3>1, OtherCalls
  <2> QED BY <2>1, <2>2
<1>4. run' \in [Process -> Run]
  BY <1>3 DEF ProviderAnswers
<1> QED BY <1>2, <1>3, <1>4 DEF IInv

(* A call that goes on to a step without learning or doing anything.       *)
LEMMA GoesOn ==
  ASSUME IInv, NEW p \in Process, NEW step \in Step, Goto(p, step),
         Fits([run[p] EXCEPT !.step = step]), UNCHANGED <<now, order, outside, commands>>,
         calls' \in Nat, failures' \in Nat, crashes' \in Nat
  PROVE  IInv'
<1>1. [run[p] EXCEPT !.step = step] \in Run
  BY Known DEF Run
<1>2. Become(p, [run[p] EXCEPT !.step = step])
  BY DEF Goto, Become, IInv
<1> QED BY <1>1, <1>2, Local

LEMMA ChargeTimesOutKeeps ==
  ASSUME IInv, NEW p \in Process, ChargeTimesOut(p)
  PROVE  IInv'
<1>1. run[p] \in Run /\ Fits(run[p]) /\ WorldTypes /\ run[p].step = "charging"
  BY Known DEF ChargeTimesOut, At
<1>2. Fits([run[p] EXCEPT !.step = "charge"])
  BY <1>1 DEF Run, Fits, ReadStatus, RoundsLeft, ReadOrder, ReadPayment, SoldFirst
<1>3. calls' \in Nat /\ failures' \in Nat /\ crashes' \in Nat
  BY <1>1 DEF ChargeTimesOut, WorldTypes
<1> QED BY <1>2, <1>3, GoesOn DEF ChargeTimesOut, Step

LEMMA PaymentCrashKeeps ==
  ASSUME IInv, PaymentCrash
  PROVE  IInv'
<1>1. Receipt
  <2>1. payment' \in PaymentStatus
    BY DEF PaymentCrash, IInv, World, WorldTypes
  <2>2. asking /\ ~asking' /\ UNCHANGED <<order, commands>>
    BY DEF PaymentCrash
  <2> QED BY <2>1, <2>2, Answering
<1>2. /\ UNCHANGED <<now, order, lock>> /\ commands' \subseteq {"cancel", "refund"}
      /\ challenged' \in BOOLEAN /\ asking' \in BOOLEAN
      /\ calls' \in Nat /\ failures' \in Nat /\ crashes' \in Nat
  <2>1. WorldTypes
    BY DEF IInv, World
  <2>2. asking' \in BOOLEAN
    BY DEF PaymentCrash
  <2>3. UNCHANGED <<now, order, lock, payment, challenged, commands, calls, failures>>
        /\ crashes' = crashes + 1
    BY DEF PaymentCrash
  <2> QED BY <2>1, <2>2, <2>3 DEF WorldTypes
<1>3. World' /\ Onward
  BY <1>1, <1>2, SoundReceipt
<1>4. ASSUME NEW q \in Process PROVE run'[q] \in Run /\ Fits(run[q])'
  <2>1. CASE run[q].step = "charging"
    <3>1. run[q] \in Run /\ Fits(run[q])
      BY Known
    <3>2. [run[q] EXCEPT !.step = "charge"] \in Run
      BY <3>1 DEF Run, Step
    <3>3. PICK r \in Run : r = [run[q] EXCEPT !.step = "charge"]
      BY <3>2
    <3>4. Fits(r)
      BY <2>1, <3>1, <3>3 DEF Run, Fits, ReadStatus, RoundsLeft, ReadOrder, ReadPayment, SoldFirst
    <3>5. Fits(r)'
      BY <1>3, <3>4, FitsOnward DEF IInv, World
    <3>6. run'[q] = r
      BY <2>1, <3>3 DEF PaymentCrash, At
    <3> QED BY <3>5, <3>6, FitsLater
  <2>2. CASE run[q].step # "charging"
    <3>1. run'[q] = run[q] /\ run[q] \in Run
      BY <2>2 DEF PaymentCrash, At, IInv
    <3> QED BY <1>3, <3>1, OtherCalls
  <2> QED BY <2>1, <2>2
<1>5. run' \in [Process -> Run]
  BY <1>4 DEF PaymentCrash
<1> QED BY <1>3, <1>4, <1>5 DEF IInv

(* A step of a call that then ends.                                        *)
LEMMA LastStep ==
  ASSUME IInv, World', Onward, NEW p \in Process, Finish(p)
  PROVE  IInv'
BY IdleFits, IdleFitsLater, Carry DEF Finish, Become

LEMMA ConfirmKeeps ==
  ASSUME IInv, NEW p \in Process, Confirm(p)
  PROVE  IInv'
<1>1. run[p] \in Run /\ Fits(run[p]) /\ WorldTypes /\ run[p].step = "confirm"
  BY Known DEF Confirm, At
<1>2. calls' \in Nat /\ failures' \in Nat /\ crashes' \in Nat
  BY <1>1 DEF Confirm, WorldTypes
<1>3. UNCHANGED <<now, order, lock, challenged, asking, commands>>
  BY DEF Confirm
<1>4. CASE payment = "REQUIRES_3DS"
  <2>1. ~asking
    BY <1>4 DEF IInv, World, AskingIsPending
  <2>2. payment' \in {"SUCCEEDED", "FAILED", "REQUIRES_3DS"}
    BY <1>4 DEF Confirm
  <2>3. Receipt
    BY <1>3, <1>4, <2>1, <2>2, Answering DEF PaymentStatus
  <2>4. World' /\ Onward
    BY <1>1, <1>2, <1>3, <2>3, SoundReceipt DEF WorldTypes
  <2>5. CASE payment' = "SUCCEEDED" /\ Become(p, Settle(run[p], "SUCCEEDED"))
    BY <1>1, <2>4, <2>5, SettlesAlone DEF PaymentStatus
  <2>6. CASE payment' = "FAILED" /\ Goto(p, "fail")
    <3>1. Settle(run[p], "FAILED") = [run[p] EXCEPT !.step = "fail"]
      BY DEF Settle
    <3>2. Become(p, Settle(run[p], "FAILED"))
      BY <2>6, <3>1 DEF Become, Goto, IInv
    <3> QED BY <1>1, <2>4, <2>6, <3>2, SettlesAlone DEF PaymentStatus
  <2>7. CASE Finish(p)
    BY <2>4, <2>7, LastStep
  <2> QED BY <1>4, <2>5, <2>6, <2>7 DEF Confirm
<1>5. CASE payment # "REQUIRES_3DS"
  <2>1. payment' = payment
    BY <1>5 DEF Confirm
  <2>2. World' /\ Onward
    BY <1>2, <1>3, <2>1 DEF Onward, IInv, World, WorldTypes, AskingIsPending, OnlyCancelledIsMarked,
       PaidOnlyWithStock, FailedOnlyWithoutMoney, ChargedOnlyAfterRisk, RefundMarkIsBacked
  <2>3. CASE Become(p, Settle(run[p], payment))
    BY <1>1, <2>1, <2>2, <2>3, SettlesAlone DEF WorldTypes
  <2>4. CASE Finish(p)
    BY <2>2, <2>4, LastStep
  <2> QED BY <1>5, <2>3, <2>4 DEF Confirm
<1> QED BY <1>4, <1>5

-----------------------------------------------------------------------------
(* Writing the outcome.                                                    *)

(* Steps that promise nothing.                                             *)
LEMMA PlainStep ==
  ASSUME NEW r \in Run, Fits(r), r.step # "idle",
         NEW step \in {"release", "refundNow", "paidReread", "closeReread", "append"}
  PROVE  Fits([r EXCEPT !.step = step]) /\ step \in Step
BY DEF Run, Fits, ReadStatus, RoundsLeft, ReadOrder, ReadPayment, SoldFirst, Step

(* A step of a call that then goes on.                                     *)
LEMMA NextStep ==
  ASSUME IInv, World', Onward, NEW p \in Process, NEW step \in Step, Goto(p, step),
         Fits([run[p] EXCEPT !.step = step])
  PROVE  IInv'
<1>1. [run[p] EXCEPT !.step = step] \in Run
  BY Known DEF Run
<1>2. PICK r \in Run : r = [run[p] EXCEPT !.step = step]
  BY <1>1
<1>3. Fits(r)'
  BY <1>2, FitsOnward DEF IInv, World
<1>4. run' = [run EXCEPT ![p] = r]
  BY <1>2 DEF Goto, IInv
<1> QED BY <1>2, <1>3, <1>4, Carry

(* What a call writes over the order it has read.                          *)
LEMMA SeenWritten ==
  ASSUME IInv, NEW p \in Process, run[p].step \in {"fail", "markPaid", "close", "cancel"}, Fresh(p),
         NEW status \in Status
  PROVE  LET o == Written(run[p].seen, status, 1)
         IN  /\ o \in OrderDocument /\ o.status = status /\ ~o.marked
             /\ o.version > order.version
             /\ order.status \notin BeforePayment => o.method = order.method
<1>1. run[p] \in Run /\ Fits(run[p])
  BY Known
<1>2. /\ run[p].seen \in OrderDocument /\ ~run[p].seen.marked
      /\ order.version = run[p].seen.version
      /\ run[p].seen.status = order.status
      /\ run[p].seen.status \in {"DRAFT", "AWAITING_PAYMENT"}
      /\ run[p].seen.status = "AWAITING_PAYMENT" => order.method = run[p].seen.method
  BY <1>1 DEF Run, Fits, ReadStatus, ReadOrder, Fresh
<1>3. order.status \notin BeforePayment => order.method = run[p].seen.method
  BY <1>2 DEF BeforePayment
<1> QED BY <1>2, <1>3, WrittenType

LEMMA FailPaymentKeeps ==
  ASSUME IInv, NEW p \in Process, FailPayment(p)
  PROVE  IInv'
<1>1. /\ run[p] \in Run /\ Fits(run[p]) /\ WorldTypes /\ run[p].step = "fail"
      /\ payment = "FAILED"
  BY Known DEF FailPayment, At, Fits, ReadPayment
<1>2. CASE ~Fresh(p)
  <2>1. [run[p] EXCEPT !.step = "failReread"] \in Run /\ Fits([run[p] EXCEPT !.step = "failReread"])
    BY <1>1 DEF Run, Step, Fits, ReadStatus, RoundsLeft, ReadOrder, ReadPayment, SoldFirst
  <2> QED BY <1>1, <1>2, <2>1, GoesOn DEF FailPayment, Step, bounded, WorldTypes
<1>3. CASE Fresh(p)
  <2> DEFINE o == Written(run[p].seen, "PAYMENT_FAILED", 1)
  <2>1. order' = o /\ commands' = commands /\ Goto(p, "release")
        /\ UNCHANGED <<now, outside, bounded>>
    BY <1>3 DEF FailPayment
  <2>2. /\ o \in OrderDocument /\ o.status = "PAYMENT_FAILED" /\ ~o.marked
        /\ o.version > order.version /\ (order.status \notin BeforePayment => o.method = order.method)
    BY <1>1, <1>3, SeenWritten DEF Status
  <2> HIDE DEF o
  <2>3. Sound(o, commands)
    BY <1>1, <2>2 DEF Sound, BeforePayment
  <2>4. World' /\ Onward
    BY <1>1, <2>1, <2>3, SoundWrite DEF WorldTypes
  <2> QED BY <1>1, <2>1, <2>4, PlainStep, NextStep
<1> QED BY <1>2, <1>3

LEMMA FailRereadKeeps ==
  ASSUME IInv, NEW p \in Process, FailReread(p)
  PROVE  IInv'
<1>1. run[p] \in Run /\ Fits(run[p]) /\ WorldTypes /\ run[p].step = "failReread"
  BY Known DEF FailReread, At
<1>2. CASE Goto(p, "release")
  BY <1>1, <1>2, PlainStep, GoesOn DEF FailReread, bounded, WorldTypes
<1>3. CASE Finish(p)
  BY <1>3, Refused DEF FailReread
<1> QED BY <1>2, <1>3 DEF FailReread

LEMMA MarkPaidKeeps ==
  ASSUME IInv, NEW p \in Process, MarkPaid(p)
  PROVE  IInv'
<1>1. /\ run[p] \in Run /\ Fits(run[p]) /\ WorldTypes /\ run[p].step = "markPaid"
      /\ lock.state = "sold"
  BY Known DEF MarkPaid, At, Fits, SoldFirst
<1>2. CASE ~Fresh(p)
  BY <1>1, <1>2, PlainStep, GoesOn DEF MarkPaid, bounded, WorldTypes
<1>3. CASE Fresh(p)
  <2> DEFINE o == Written(run[p].seen, "PAID", 1)
  <2>1. order' = o /\ commands' = commands /\ Finish(p) /\ UNCHANGED <<now, outside, bounded>>
    BY <1>3 DEF MarkPaid
  <2>2. /\ o \in OrderDocument /\ o.status = "PAID" /\ ~o.marked
        /\ o.version > order.version /\ (order.status \notin BeforePayment => o.method = order.method)
    BY <1>1, <1>3, SeenWritten DEF Status
  <2> HIDE DEF o
  <2>3. Sound(o, commands)
    BY <1>1, <2>2 DEF Sound, BeforePayment
  <2>4. World' /\ Onward
    BY <1>1, <2>1, <2>3, SoundWrite DEF WorldTypes
  <2> QED BY <2>1, <2>4, LastStep
<1> QED BY <1>2, <1>3

LEMMA PaidRereadKeeps ==
  ASSUME IInv, NEW p \in Process, PaidReread(p)
  PROVE  IInv'
<1>1. run[p] \in Run /\ Fits(run[p]) /\ WorldTypes /\ run[p].step = "paidReread"
  BY Known DEF PaidReread, At
<1>2. CASE Goto(p, "refund") /\ run[p].charge = "taken"
  <2>1. Fits([run[p] EXCEPT !.step = "refund"])
    BY <1>1, <1>2 DEF Run, Fits, ReadStatus, RoundsLeft, ReadOrder, ReadPayment, SoldFirst
  <2> QED BY <1>1, <1>2, <2>1, GoesOn DEF PaidReread, Step, bounded, WorldTypes
<1>3. CASE Finish(p)
  BY <1>3, Refused DEF PaidReread
<1> QED BY <1>2, <1>3 DEF PaidReread

(* The lock moves, the rest of the world does not.                         *)
LEMMA SoundLock ==
  ASSUME IInv, lock' \in Lock, lock.state = "sold" => lock'.state = "sold",
         UNCHANGED <<now, order, payment, challenged, asking, commands>>,
         calls' \in Nat, failures' \in Nat, crashes' \in Nat
  PROVE  World' /\ Onward
BY DEF Onward, IInv, World, WorldTypes, AskingIsPending, OnlyCancelledIsMarked,
   PaidOnlyWithStock, FailedOnlyWithoutMoney, ChargedOnlyAfterRisk, RefundMarkIsBacked

LEMMA CommitKeeps ==
  ASSUME IInv, NEW p \in Process, Commit(p)
  PROVE  IInv'
<1>1. run[p] \in Run /\ Fits(run[p]) /\ WorldTypes /\ run[p].step = "commit"
  BY Known DEF Commit, At
<1>2. calls' \in Nat /\ failures' \in Nat /\ crashes' \in Nat
  BY <1>1 DEF Commit, Answered, WorldTypes
<1>3. UNCHANGED <<now, order, payment, challenged, asking, commands>>
  BY DEF Commit
<1>4. CASE lock.state = "free"
  <2>1. Fits([run[p] EXCEPT !.step = "close"])
    BY <1>1 DEF Run, Fits, ReadStatus, RoundsLeft, ReadOrder, ReadPayment, SoldFirst
  <2>2. Goto(p, "close") /\ lock' = lock
    BY <1>4 DEF Commit
  <2> QED BY <1>2, <1>3, <2>1, <2>2, GoesOn DEF Step, outside
<1>5. CASE lock.state # "free"
  <2>1. lock' = [lock EXCEPT !.state = "sold"]
        /\ Answered(p, [run[p] EXCEPT !.step = "markPaid"])
    BY <1>5 DEF Commit
  <2>2. lock' \in Lock /\ lock'.state = "sold"
    BY <1>1, <2>1 DEF WorldTypes, Lock
  <2>3. World' /\ Onward
    BY <1>2, <1>3, <2>2, SoundLock
  <2>4. [run[p] EXCEPT !.step = "markPaid"] \in Run
    BY <1>1 DEF Run, Step
  <2>5. PICK r \in Run : r = [run[p] EXCEPT !.step = "markPaid"]
    BY <2>4
  <2>6. Fits(r)'
    BY <1>1, <1>3, <2>2, <2>5 DEF Run, Fits, ReadStatus, RoundsLeft, ReadOrder, ReadPayment, SoldFirst
  <2> QED BY <2>1, <2>3, <2>5, <2>6, Carry, Stay DEF Answered, Become
<1> QED BY <1>4, <1>5

LEMMA LapseKeeps ==
  ASSUME IInv, NEW p \in Process, Lapse(p)
  PROVE  IInv'
<1> DEFINE taken == [[run[p] EXCEPT !.goal = "lapse"] EXCEPT !.step = "commit", !.charge = "taken"]
           closing == [[run[p] EXCEPT !.goal = "lapse"] EXCEPT !.step = "close",
                         !.charge = IF payment = "REFUNDED" THEN "refunded" ELSE "none"]
<1>1. run[p] \in Run /\ Fits(run[p]) /\ WorldTypes /\ run[p].step = "lapse"
  BY Known DEF Lapse, At
<1>2. calls' \in Nat /\ failures' \in Nat /\ crashes' \in Nat
      /\ UNCHANGED <<now, order, outside, commands>>
  BY <1>1 DEF Lapse, bounded, WorldTypes
<1>3. CASE Finish(p)
  BY <1>2, <1>3, Ends
<1>4. CASE payment = "SUCCEEDED" /\ Become(p, taken)
  <2>1. taken \in Run
    BY <1>1 DEF Run, Step, Goal, Charge
  <2>2. Fits(taken)
    BY <1>1, <1>4 DEF Run, Fits, ReadStatus, RoundsLeft, ReadOrder, ReadPayment, SoldFirst, Taken
  <2> HIDE DEF taken
  <2> QED BY <1>2, <1>4, <2>1, <2>2, Local
<1>5. CASE Become(p, closing)
  <2>1. closing \in Run
    BY <1>1 DEF Run, Step, Goal, Charge
  <2>2. Fits(closing)
    BY <1>1 DEF Run, Fits, ReadStatus, RoundsLeft, ReadOrder, ReadPayment, SoldFirst
  <2> HIDE DEF closing
  <2> QED BY <1>2, <1>5, <2>1, <2>2, Local
<1> QED BY <1>3, <1>4, <1>5 DEF Lapse

LEMMA CloseKeeps ==
  ASSUME IInv, NEW p \in Process, Close(p)
  PROVE  IInv'
<1>1. /\ run[p] \in Run /\ Fits(run[p]) /\ WorldTypes /\ run[p].step = "close"
      /\ run[p].charge \in Charge
      /\ run[p].charge = "taken" => payment \in Taken
      /\ run[p].charge = "refunded" => payment = "REFUNDED"
  BY Known DEF Close, At, Fits, ReadPayment, Run
<1>2. CASE ~Fresh(p)
  BY <1>1, <1>2, PlainStep, GoesOn DEF Close, bounded, WorldTypes
<1>3. CASE Fresh(p)
  <2> DEFINE w == Written(run[p].seen, "CANCELLED", 1)
             o == [w EXCEPT !.marked = run[p].charge # "none"]
             c == commands \cup ClosingCommands(run[p].seen, run[p].charge)
  <2>1. order' = o /\ commands' = c /\ Goto(p, "release") /\ UNCHANGED <<now, outside, bounded>>
    BY <1>3 DEF Close
  <2>2. /\ w \in OrderDocument /\ w.status = "CANCELLED" /\ ~w.marked
        /\ w.version > order.version /\ (order.status \notin BeforePayment => w.method = order.method)
    BY <1>1, <1>3, SeenWritten DEF Status
  <2> HIDE DEF w
  <2>3. /\ o \in OrderDocument /\ o.status = "CANCELLED" /\ o.version = w.version
        /\ o.method = w.method /\ (o.marked <=> run[p].charge # "none")
    BY <2>2 DEF OrderDocument
  <2>4. c \in SUBSET {"cancel", "refund"} /\ (run[p].charge = "taken" => "refund" \in c)
    BY <1>1 DEF ClosingCommands, WorldTypes
  <2> HIDE DEF o, c
  <2>5. Sound(o, c)
    BY <1>1, <2>2, <2>3, <2>4 DEF Sound, BeforePayment, Charge, Taken
  <2>6. World' /\ Onward
    BY <2>1, <2>4, <2>5, SoundWrite
  <2> QED BY <1>1, <2>1, <2>6, PlainStep, NextStep
<1> QED BY <1>2, <1>3

LEMMA CloseRereadKeeps ==
  ASSUME IInv, NEW p \in Process, CloseReread(p)
  PROVE  IInv'
<1>1. run[p] \in Run /\ Fits(run[p]) /\ WorldTypes /\ run[p].step = "closeReread"
  BY Known DEF CloseReread, At
<1>2. CASE run[p].charge = "taken" /\ Goto(p, "refund")
  <2>1. Fits([run[p] EXCEPT !.step = "refund"])
    BY <1>1, <1>2 DEF Run, Fits, ReadStatus, RoundsLeft, ReadOrder, ReadPayment, SoldFirst
  <2> QED BY <1>1, <1>2, <2>1, GoesOn DEF CloseReread, Step, bounded, WorldTypes
<1>3. CASE run[p].charge = "refunded" /\ Goto(p, "mark")
  <2>1. Fits([run[p] EXCEPT !.step = "mark"])
    BY <1>1, <1>3 DEF Run, Fits, ReadStatus, RoundsLeft, ReadOrder, ReadPayment, SoldFirst
  <2> QED BY <1>1, <1>3, <2>1, GoesOn DEF CloseReread, Step, bounded, WorldTypes
<1>4. CASE Finish(p)
  BY <1>4, Refused DEF CloseReread
<1> QED BY <1>1, <1>2, <1>3, <1>4 DEF CloseReread, Run, Charge

(* A call whose answer may be lost: it goes on, or is where it was.        *)
LEMMA AnsweredStep ==
  ASSUME IInv, World', Onward, NEW p \in Process, NEW r \in Run, Fits(r)', Answered(p, r)
  PROVE  IInv'
BY Carry, Stay DEF Answered, Become

LEMMA AfterReleaseFits ==
  ASSUME NEW r \in Run, Fits(r), r.step # "idle"
  PROVE  AfterRelease(r) \in Run /\ Fits(AfterRelease(r))
<1>1. [r EXCEPT !.step = "refundNow"] \in Run /\ Fits([r EXCEPT !.step = "refundNow"])
  BY PlainStep DEF Run
<1> QED BY <1>1, IdleFits DEF AfterRelease

LEMMA ReleaseKeeps ==
  ASSUME IInv, NEW p \in Process, Release(p)
  PROVE  IInv'
<1>1. run[p] \in Run /\ Fits(run[p]) /\ WorldTypes /\ run[p].step = "release"
  BY Known DEF Release, At
<1>2. calls' \in Nat /\ failures' \in Nat /\ crashes' \in Nat
  BY <1>1 DEF Release, Answered, WorldTypes
<1>3. lock' \in Lock /\ (lock.state = "sold" => lock'.state = "sold")
  BY <1>1 DEF Release, WorldTypes, Lock
<1>4. World' /\ Onward
  BY <1>2, <1>3, SoundLock DEF Release
<1>5. PICK r \in Run : r = AfterRelease(run[p])
  BY <1>1, AfterReleaseFits
<1>6. Fits(r)'
  BY <1>1, <1>4, <1>5, AfterReleaseFits, FitsOnward DEF World
<1> QED BY <1>4, <1>5, <1>6, AnsweredStep DEF Release

-----------------------------------------------------------------------------
(* Giving money back.                                                      *)

(* Money is only given back: nothing else the record says is lost.         *)
LEMMA Giving ==
  ASSUME IInv, payment' \in {payment, GivenBack}, UNCHANGED <<now, order, lock, challenged, asking>>,
         \/ commands' = commands
         \/ (payment' = GivenBack /\ commands' \subseteq commands),
         calls' \in Nat, failures' \in Nat, crashes' \in Nat
  PROVE  World' /\ Onward
<1>1. WorldTypes /\ AskingIsPending /\ ChargedOnlyAfterRisk /\ RefundMarkIsBacked
  BY DEF IInv, World
<1>2. payment' \in PaymentStatus /\ commands' \subseteq {"cancel", "refund"}
  BY <1>1 DEF WorldTypes, GivenBack, PaymentStatus
<1>3. Receipt
  BY <1>1, <1>2 DEF GivenBack, Receipt, Taken, AskingIsPending, ChargedOnlyAfterRisk,
     RefundMarkIsBacked, BeforePayment
<1> QED BY <1>1, <1>2, <1>3, SoundReceipt DEF WorldTypes

LEMMA RefundNowKeeps ==
  ASSUME IInv, NEW p \in Process, RefundNow(p)
  PROVE  IInv'
<1>1. calls' \in Nat /\ failures' \in Nat /\ crashes' \in Nat
  BY Known DEF RefundNow, Answered, WorldTypes
<1>2. World' /\ Onward
  BY <1>1, Giving DEF RefundNow
<1> QED BY <1>2, IdleFits, IdleFitsLater, AnsweredStep DEF RefundNow

LEMMA RefundKeeps ==
  ASSUME IInv, NEW p \in Process, Refund(p)
  PROVE  IInv'
<1>1. run[p] \in Run /\ Fits(run[p]) /\ run[p].step = "refund"
  BY Known DEF Refund, At
<1>2. calls' \in Nat /\ failures' \in Nat /\ crashes' \in Nat
  BY Known DEF Refund, Answered, WorldTypes
<1>3. payment' = GivenBack /\ payment' = "REFUNDED"
  BY DEF Refund, GivenBack
<1>4. World' /\ Onward
  BY <1>2, <1>3, Giving DEF Refund
<1>5. [run[p] EXCEPT !.step = "mark"] \in Run
  BY <1>1 DEF Run, Step
<1>6. PICK r \in Run : r = [run[p] EXCEPT !.step = "mark"]
  BY <1>5
<1>7. Fits(r)'
  <2>1. PICK before \in Run : before = run[p]
    BY <1>1
  <2>2. Fits(before)'
    BY <1>1, <1>4, <2>1, FitsOnward DEF IInv, World
  <2> QED BY <1>1, <1>3, <1>6, <2>1, <2>2 DEF Run, Fits, ReadStatus, RoundsLeft, ReadOrder,
       ReadPayment, SoldFirst, Taken
<1> QED BY <1>4, <1>6, <1>7, AnsweredStep DEF Refund

(* The mark on a cancelled order whose money is back, or will be.          *)
LEMMA SoundMark ==
  ASSUME IInv, NeedsMark, NEW c \in SUBSET {"cancel", "refund"},
         payment = "REFUNDED" \/ (payment = "SUCCEEDED" /\ "refund" \in c)
  PROVE  Sound(Marked, c)
<1> DEFINE w == Written(order, order.status, 1)
<1>1. order \in OrderDocument /\ order.status = "CANCELLED" /\ 1 \in Nat \ {0}
  BY DEF IInv, World, WorldTypes, NeedsMark
<1>2. "CANCELLED" \in Status
  BY DEF Status
<1>3. /\ w \in OrderDocument /\ w.status = "CANCELLED" /\ w.version > order.version
      /\ w.method = order.method
  BY <1>1, <1>2, WrittenType
<1> HIDE DEF w
<1>4. /\ Marked \in OrderDocument /\ Marked.status = "CANCELLED" /\ Marked.version > order.version
      /\ Marked.method = order.method
  <2>1. Marked = [w EXCEPT !.marked = TRUE]
    BY DEF Marked, w
  <2> QED BY <1>3, <2>1 DEF OrderDocument
<1> QED BY <1>4 DEF Sound, BeforePayment

LEMMA MarkKeeps ==
  ASSUME IInv, NEW p \in Process, Mark(p)
  PROVE  IInv'
<1>1. payment = "REFUNDED" /\ WorldTypes
  BY Known DEF Mark, At, Fits, ReadPayment
<1>2. CASE NeedsMark
  <2>1. Sound(Marked, commands)
    BY <1>1, <1>2, SoundMark DEF WorldTypes
  <2>2. World' /\ Onward
    BY <1>1, <1>2, <2>1, SoundWrite DEF Mark, WorldTypes
  <2> QED BY <2>2, LastStep DEF Mark
<1>3. CASE ~NeedsMark
  BY <1>3, Refused DEF Mark
<1> QED BY <1>2, <1>3

LEMMA MarkAndCommandKeeps ==
  ASSUME IInv, NEW p \in Process, MarkAndCommand(p)
  PROVE  IInv'
<1>1. /\ run[p] \in Run /\ Fits(run[p]) /\ WorldTypes /\ run[p].step = "markAndCommand"
      /\ payment \in Taken
  BY Known DEF MarkAndCommand, At, Fits, ReadPayment
<1>2. CASE NeedsMark
  <2> DEFINE c == commands \cup {"refund"}
  <2>1. c \in SUBSET {"cancel", "refund"} /\ "refund" \in c
    BY <1>1 DEF WorldTypes
  <2>2. Sound(Marked, c)
    BY <1>1, <1>2, <2>1, SoundMark DEF Taken
  <2>3. order' = Marked /\ commands' = c /\ Finish(p) /\ UNCHANGED <<now, outside, bounded>>
    BY <1>2 DEF MarkAndCommand
  <2> HIDE DEF c
  <2>4. World' /\ Onward
    BY <2>1, <2>2, <2>3, SoundWrite
  <2> QED BY <2>3, <2>4, LastStep
<1>3. CASE ~NeedsMark
  BY <1>1, <1>3, PlainStep, GoesOn DEF MarkAndCommand, bounded, WorldTypes
<1> QED BY <1>2, <1>3

LEMMA AppendKeeps ==
  ASSUME IInv, NEW p \in Process, Append(p)
  PROVE  IInv'
<1>1. World'
  BY DEF Append, outside, bounded, IInv, World, WorldTypes, AskingIsPending, OnlyCancelledIsMarked,
     PaidOnlyWithStock, FailedOnlyWithoutMoney, ChargedOnlyAfterRisk, RefundMarkIsBacked
<1>2. Onward
  BY DEF Onward, Append, outside
<1> QED BY <1>1, <1>2, LastStep DEF Append

-----------------------------------------------------------------------------
(* The user's cancellation, failures and the world around.                 *)

LEMMA CancelLookKeeps ==
  ASSUME IInv, NEW p \in Process, CancelLook(p)
  PROVE  IInv'
<1> DEFINE looked == [run[p] EXCEPT !.step = "cancel",
                        !.charge = IF payment = "REFUNDED" THEN "refunded" ELSE "none"]
<1>1. run[p] \in Run /\ Fits(run[p]) /\ WorldTypes /\ run[p].step = "cancelLook"
  BY Known DEF CancelLook, At
<1>2. CASE Finish(p)
  BY <1>2, Refused DEF CancelLook
<1>3. CASE Become(p, looked)
  <2>1. looked \in Run
    BY <1>1 DEF Run, Step, Charge
  <2>2. Fits(looked)
    BY <1>1 DEF Run, Fits, ReadStatus, RoundsLeft, ReadOrder, ReadPayment, SoldFirst
  <2>3. calls' \in Nat /\ failures' \in Nat /\ crashes' \in Nat
        /\ UNCHANGED <<now, order, outside, commands>>
    BY <1>1 DEF CancelLook, bounded, WorldTypes
  <2> HIDE DEF looked
  <2> QED BY <1>3, <2>1, <2>2, <2>3, Local
<1> QED BY <1>2, <1>3 DEF CancelLook

LEMMA CancelKeeps ==
  ASSUME IInv, NEW p \in Process, Cancel(p)
  PROVE  IInv'
<1>1. /\ run[p] \in Run /\ Fits(run[p]) /\ WorldTypes /\ run[p].step = "cancel"
      /\ run[p].charge = "refunded" => payment = "REFUNDED"
  BY Known DEF Cancel, At, Fits, ReadPayment
<1>2. CASE ~Fresh(p)
  BY <1>2, Refused DEF Cancel
<1>3. CASE Fresh(p)
  <2> DEFINE w == Written(run[p].seen, "CANCELLED", 1)
             o == [w EXCEPT !.marked = (run[p].charge = "refunded")]
             c == commands \cup ClosingCommands(run[p].seen, "none")
  <2>1. order' = o /\ commands' = c /\ Goto(p, "release") /\ UNCHANGED <<now, outside, bounded>>
    BY <1>3 DEF Cancel
  <2>2. /\ w \in OrderDocument /\ w.status = "CANCELLED" /\ ~w.marked
        /\ w.version > order.version /\ (order.status \notin BeforePayment => w.method = order.method)
    BY <1>1, <1>3, SeenWritten DEF Status
  <2> HIDE DEF w
  <2>3. /\ o \in OrderDocument /\ o.status = "CANCELLED" /\ o.version = w.version
        /\ o.method = w.method /\ (o.marked <=> run[p].charge = "refunded")
    BY <2>2 DEF OrderDocument
  <2>4. c \in SUBSET {"cancel", "refund"}
    BY <1>1 DEF ClosingCommands, WorldTypes
  <2> HIDE DEF o, c
  <2>5. Sound(o, c)
    BY <1>1, <2>2, <2>3, <2>4 DEF Sound, BeforePayment
  <2>6. World' /\ Onward
    BY <2>1, <2>4, <2>5, SoundWrite
  <2> QED BY <1>1, <2>1, <2>6, PlainStep, NextStep
<1> QED BY <1>2, <1>3

LEMMA StepFailsKeeps ==
  ASSUME IInv, NEW p \in Process, StepFails(p)
  PROVE  IInv'
<1>1. run[p] \in Run /\ Fits(run[p]) /\ WorldTypes /\ run[p].step # "idle"
  BY Known DEF StepFails, At
<1>2. calls' \in Nat /\ failures' \in Nat /\ crashes' \in Nat
      /\ UNCHANGED <<now, order, outside, commands>>
  BY <1>1 DEF StepFails, WorldTypes
<1>3. AfterFailure(run[p]) \in Run /\ Fits(AfterFailure(run[p]))
  <2>1. CASE run[p].step = "release"
    BY <1>1, <2>1, AfterReleaseFits DEF AfterFailure
  <2>2. CASE run[p].step = "refund"
    <3>1. AfterFailure(run[p]) = [run[p] EXCEPT !.step = "markAndCommand"]
      BY <2>2 DEF AfterFailure
    <3>2. [run[p] EXCEPT !.step = "markAndCommand"] \in Run
      BY <1>1 DEF Run, Step
    <3>3. Fits([run[p] EXCEPT !.step = "markAndCommand"])
      BY <1>1, <2>2 DEF Run, Fits, ReadStatus, RoundsLeft, ReadOrder, ReadPayment, SoldFirst
    <3> QED BY <3>1, <3>2, <3>3
  <2>3. CASE run[p].step = "markAndCommand"
    <3>1. AfterFailure(run[p]) = [run[p] EXCEPT !.step = "append"]
      BY <2>3 DEF AfterFailure
    <3>2. [run[p] EXCEPT !.step = "append"] \in Run
      BY <1>1 DEF Run, Step
    <3> QED BY <1>1, <3>1, <3>2, PlainStep
  <2>4. CASE run[p].step \notin {"release", "refund", "markAndCommand"}
    BY <2>4, IdleFits DEF AfterFailure
  <2> QED BY <2>1, <2>2, <2>3, <2>4
<1> QED BY <1>2, <1>3, Local DEF StepFails

LEMMA CrashKeeps ==
  ASSUME IInv, NEW p \in Process, Crash(p)
  PROVE  IInv'
BY Known, Ends DEF Crash, WorldTypes

LEMMA TickKeeps ==
  ASSUME IInv, Tick
  PROVE  IInv'
<1>1. now' \in Nat
  BY Known DEF Tick, IInv, World, WorldTypes
<1>2. World'
  BY <1>1 DEF Tick, outside, bounded, IInv, World, WorldTypes, AskingIsPending,
     OnlyCancelledIsMarked, PaidOnlyWithStock, FailedOnlyWithoutMoney, ChargedOnlyAfterRisk,
     RefundMarkIsBacked
<1>3. Onward /\ run' = run
  BY DEF Onward, Tick, outside
<1> QED BY <1>2, <1>3, Stay

LEMMA ExpireLockKeeps ==
  ASSUME IInv, ExpireLock
  PROVE  IInv'
<1>1. WorldTypes
  BY DEF IInv, World
<1>2. lock' \in Lock /\ lock.state # "sold"
  BY <1>1 DEF ExpireLock, WorldTypes, Lock
<1>3. World' /\ Onward
  BY <1>1, <1>2, SoundLock DEF ExpireLock, bounded, WorldTypes
<1> QED BY <1>3, Stay DEF ExpireLock

LEMMA StartPreparingKeeps ==
  ASSUME IInv, StartPreparing
  PROVE  IInv'
<1> DEFINE o == Written(order, "PREPARING", 1)
<1>1. order' = o /\ commands' = commands /\ UNCHANGED <<now, outside, bounded>> /\ run' = run
  BY DEF StartPreparing
<1>2. /\ WorldTypes /\ order \in OrderDocument /\ order.status = "PAID" /\ ~order.marked
      /\ lock.state = "sold"
  BY DEF StartPreparing, IInv, World, WorldTypes, OnlyCancelledIsMarked, PaidOnlyWithStock
<1>3. /\ o \in OrderDocument /\ o.status = "PREPARING" /\ ~o.marked /\ o.version > order.version
      /\ o.method = order.method
  <2>1. "PREPARING" \in Status /\ 1 \in Nat \ {0}
    BY DEF Status
  <2> QED BY <1>2, <2>1, WrittenType
<1> HIDE DEF o
<1>4. Sound(o, commands)
  BY <1>2, <1>3 DEF Sound, BeforePayment
<1>5. World' /\ Onward
  BY <1>1, <1>2, <1>4, SoundWrite DEF WorldTypes
<1> QED BY <1>1, <1>5, Stay

LEMMA DeliverRefundKeeps ==
  ASSUME IInv, NEW acknowledged \in BOOLEAN, DeliverRefund(acknowledged)
  PROVE  IInv'
<1>1. calls' \in Nat /\ failures' \in Nat /\ crashes' \in Nat
  BY DEF DeliverRefund, bounded, IInv, World, WorldTypes
<1>2. commands' \subseteq commands /\ payment' = GivenBack
  BY DEF DeliverRefund
<1>3. World' /\ Onward
  BY <1>1, <1>2, Giving DEF DeliverRefund
<1> QED BY <1>3, Stay DEF DeliverRefund

LEMMA DeliverCancelKeeps ==
  ASSUME IInv, NEW acknowledged \in BOOLEAN, DeliverCancel(acknowledged)
  PROVE  IInv'
<1>1. calls' \in Nat /\ failures' \in Nat /\ crashes' \in Nat
  BY DEF DeliverCancel, bounded, IInv, World, WorldTypes
<1>2. WorldTypes /\ AskingIsPending /\ ChargedOnlyAfterRisk /\ RefundMarkIsBacked /\ ~InFlight
  BY DEF IInv, World, DeliverCancel
<1>3. /\ commands' \subseteq commands /\ ("refund" \in commands => "refund" \in commands')
      /\ payment' = CancelledPayment
      /\ UNCHANGED <<now, order, lock, challenged, asking>>
  BY DEF DeliverCancel
<1>4. payment' \in PaymentStatus
  BY <1>2, <1>3 DEF CancelledPayment, WorldTypes, PaymentStatus
<1>5. Receipt
  BY <1>2, <1>3, <1>4 DEF CancelledPayment, Receipt, Taken, AskingIsPending, InFlight,
     ChargedOnlyAfterRisk, RefundMarkIsBacked, BeforePayment
<1>6. World' /\ Onward
  BY <1>1, <1>2, <1>3, <1>5, SoundReceipt DEF WorldTypes
<1> QED BY <1>6, Stay DEF DeliverCancel

-----------------------------------------------------------------------------
(* The invariant holds throughout.                                         *)

LEMMA Starts == Init => IInv
<1> SUFFICES ASSUME Init PROVE IInv
  OBVIOUS
<1>1. Draft \in OrderDocument
  BY Constants DEF Draft, OrderDocument, Status
<1>2. World
  BY <1>1, Constants DEF Init, Draft, World, WorldTypes, AskingIsPending, OnlyCancelledIsMarked,
     PaidOnlyWithStock, FailedOnlyWithoutMoney, ChargedOnlyAfterRisk, RefundMarkIsBacked, Lock,
     PaymentStatus
<1>3. \A p \in Process : run[p] = Idle
  BY DEF Init
<1>4. run \in [Process -> Run]
  BY IdleFits DEF Init
<1>5. ASSUME NEW p \in Process PROVE Fits(run[p])
  BY <1>3, IdleFits
<1> QED BY <1>2, <1>4, <1>5 DEF IInv

LEMMA Keeps == IInv /\ [Next]_vars => IInv'
<1> SUFFICES ASSUME IInv, [Next]_vars PROVE IInv'
  OBVIOUS
<1>1. CASE UNCHANGED vars
  <2>1. World' /\ Onward /\ run' = run
    BY <1>1 DEF vars, IInv, World, WorldTypes, AskingIsPending, OnlyCancelledIsMarked,
       PaidOnlyWithStock, FailedOnlyWithoutMoney, ChargedOnlyAfterRisk, RefundMarkIsBacked, Onward
  <2> QED BY <2>1, Stay
<1>2. ASSUME NEW p \in Request, CreateOrder(p) \/ ConfirmPayment(p) \/ CancelOrder(p) PROVE IInv'
  BY <1>2, CallsBegin
<1>3. ASSUME NEW p \in Sweeper, Sweep(p) PROVE IInv'
  BY <1>3, CallsBegin
<1>4. ASSUME NEW p \in Process, Advance(p) PROVE IInv'
  BY <1>4, EvaluateRiskKeeps, ShortenKeeps, DecideKeeps, WindowKeeps, RecordExpiryKeeps,
     ChargeOrderKeeps, ConfirmKeeps, FailPaymentKeeps, FailRereadKeeps, CommitKeeps, MarkPaidKeeps,
     PaidRereadKeeps, LapseKeeps, CloseKeeps, CloseRereadKeeps, ReleaseKeeps, RefundNowKeeps,
     RefundKeeps, MarkKeeps, MarkAndCommandKeeps, AppendKeeps, CancelLookKeeps, CancelKeeps
     DEF Advance
<1>5. ASSUME NEW p \in Process, ChargeTimesOut(p) \/ StepFails(p) \/ Crash(p) PROVE IInv'
  BY <1>5, ChargeTimesOutKeeps, StepFailsKeeps, CrashKeeps
<1>6. ASSUME NEW outcome \in {"SUCCEEDED", "REQUIRES_3DS", "FAILED"}, ProviderAnswers(outcome)
      PROVE  IInv'
  BY <1>6, ProviderAnswersKeeps
<1>7. CASE PaymentCrash
  BY <1>7, PaymentCrashKeeps
<1>8. CASE Tick \/ ExpireLock \/ StartPreparing
  BY <1>8, TickKeeps, ExpireLockKeeps, StartPreparingKeeps
<1>9. ASSUME NEW acknowledged \in BOOLEAN, Deliver(acknowledged) PROVE IInv'
  BY <1>9, DeliverRefundKeeps, DeliverCancelKeeps DEF Deliver
<1> QED BY <1>1, <1>2, <1>3, <1>4, <1>5, <1>6, <1>7, <1>8, <1>9 DEF Next

LEMMA Always == Spec => []IInv
BY Starts, Keeps, PTL DEF Spec

-----------------------------------------------------------------------------
(* How the status moves.                                                   *)

MovesBy(transitions) == order'.version = order.version + transitions
Moves ==
  \/ UNCHANGED <<order.status, order.version>>
  \/ UNCHANGED order.status /\ MovesBy(1)
  \/ order.status = "DRAFT" /\ order'.status = "AWAITING_PAYMENT" /\ MovesBy(3)
  \/ order.status = "DRAFT" /\ order'.status \in {"REVIEW", "REJECTED"} /\ MovesBy(2)
  \/ order.status = "DRAFT" /\ order'.status = "CANCELLED" /\ MovesBy(1)
  \/ /\ order.status = "AWAITING_PAYMENT" /\ MovesBy(1)
     /\ order'.status \in {"PAID", "PAYMENT_FAILED", "CANCELLED"}
  \/ order.status = "PAID" /\ order'.status = "PREPARING" /\ MovesBy(1)

(* A call that writes over what it has read knows the stored status.       *)
LEMMA FreshIsRead ==
  ASSUME IInv, NEW p \in Process, run[p].step # "idle", Fresh(p)
  PROVE  /\ run[p] \in Run /\ Fits(run[p]) /\ run[p].seen \in OrderDocument
         /\ run[p].seen.status = order.status /\ run[p].seen.version = order.version
BY Known DEF Run, Fits, ReadOrder, Fresh

LEMMA WriteMoves ==
  ASSUME IInv, NEW p \in Process, run[p].step # "idle", Fresh(p),
         NEW status \in Status, NEW transitions \in Nat \ {0}
  PROVE  LET o == Written(run[p].seen, status, transitions)
         IN  o \in OrderDocument /\ o.status = status /\ o.version = order.version + transitions
<1>1. run[p].seen \in OrderDocument /\ run[p].seen.version = order.version
  BY FreshIsRead
<1>2. LET o == Written(run[p].seen, status, transitions)
      IN  o \in OrderDocument /\ o.status = status /\ o.version = run[p].seen.version + transitions
  BY <1>1, WrittenType
<1> QED BY <1>1, <1>2

(* The steps of a call that do not write the order.                        *)
LEMMA OthersDoNotWrite ==
  ASSUME NEW p \in Process, Advance(p)
  PROVE  \/ order' = order
         \/ Decide(p) \/ RecordExpiry(p) \/ FailPayment(p) \/ MarkPaid(p)
         \/ Close(p) \/ Cancel(p) \/ Mark(p) \/ MarkAndCommand(p)
<1>1. EvaluateRisk(p) => order' = order
  BY Zenon DEF EvaluateRisk
<1>2. Shorten(p) \/ Window(p) \/ ChargeOrder(p) \/ Confirm(p) => order' = order
  BY Zenon DEF Shorten, Window, ChargeOrder, Confirm
<1>3. FailReread(p) \/ Commit(p) \/ PaidReread(p) \/ Lapse(p) \/ CloseReread(p) => order' = order
  BY Zenon DEF FailReread, Commit, PaidReread, Lapse, CloseReread
<1>4. Release(p) \/ RefundNow(p) \/ Refund(p) \/ Append(p) \/ CancelLook(p) => order' = order
  BY Zenon DEF Release, RefundNow, Refund, Append, CancelLook
<1> QED BY <1>1, <1>2, <1>3, <1>4 DEF Advance

LEMMA WritesMove ==
  ASSUME IInv, NEW p \in Process, Advance(p)
  PROVE  Moves
<1>1. order \in OrderDocument
  BY DEF IInv, World, WorldTypes
<1>2. 1 \in Nat \ {0} /\ 2 \in Nat \ {0} /\ 3 \in Nat \ {0}
  BY DEF Status
<1>3. CASE order' = order
  BY <1>3 DEF Moves
<1>4. CASE Decide(p) /\ order' # order
  <2>1. Fresh(p) /\ run[p].step = "decide" /\ order' = Decision(run[p].seen)
    BY <1>4 DEF Decide, At
  <2>2. order.status = "DRAFT"
    BY <2>1, FreshIsRead DEF Fits, ReadStatus
  <2>3. CASE order' = Written(run[p].seen, "AWAITING_PAYMENT", 3)
    <3>1. order'.status = "AWAITING_PAYMENT" /\ order'.version = order.version + 3
      BY <1>2, <2>1, <2>3, WriteMoves DEF Status
    <3> QED BY <2>2, <3>1 DEF Moves, MovesBy
  <2>4. CASE \/ order' = Written(run[p].seen, "REVIEW", 2)
             \/ order' = Written(run[p].seen, "REJECTED", 2)
    <3>1. order'.status \in {"REVIEW", "REJECTED"} /\ order'.version = order.version + 2
      BY <1>2, <2>1, <2>4, WriteMoves DEF Status
    <3> QED BY <2>2, <3>1 DEF Moves, MovesBy
  <2> QED BY <2>1, <2>3, <2>4 DEF Decision
<1>5. CASE RecordExpiry(p) /\ order' # order
  <2>1. Fresh(p) /\ run[p].step # "idle" /\ order' = Written(run[p].seen, run[p].seen.status, 1)
    BY <1>5 DEF RecordExpiry
  <2>2. run[p].seen.status = order.status /\ order.status \in Status
    BY <1>1, <2>1, FreshIsRead DEF OrderDocument
  <2>3. order'.status = order.status /\ order'.version = order.version + 1
    BY <1>2, <2>1, <2>2, WriteMoves
  <2> QED BY <2>3 DEF Moves, MovesBy
<1>6. CASE FailPayment(p) /\ order' # order
  <2>1. Fresh(p) /\ run[p].step = "fail" /\ order' = Written(run[p].seen, "PAYMENT_FAILED", 1)
    BY <1>6 DEF FailPayment, At
  <2>2. order.status = "AWAITING_PAYMENT"
    BY <2>1, FreshIsRead DEF Fits, ReadStatus
  <2>3. order'.status = "PAYMENT_FAILED" /\ order'.version = order.version + 1
    BY <1>2, <2>1, WriteMoves DEF Status
  <2> QED BY <2>2, <2>3 DEF Moves, MovesBy
<1>7. CASE MarkPaid(p) /\ order' # order
  <2>1. Fresh(p) /\ run[p].step = "markPaid" /\ order' = Written(run[p].seen, "PAID", 1)
    BY <1>7 DEF MarkPaid, At
  <2>2. order.status = "AWAITING_PAYMENT"
    BY <2>1, FreshIsRead DEF Fits, ReadStatus
  <2>3. order'.status = "PAID" /\ order'.version = order.version + 1
    BY <1>2, <2>1, WriteMoves DEF Status
  <2> QED BY <2>2, <2>3 DEF Moves, MovesBy
<1>8. CASE (Close(p) \/ Cancel(p)) /\ order' # order
  <2> DEFINE w == Written(run[p].seen, "CANCELLED", 1)
  <2>1. Fresh(p) /\ run[p].step \in {"close", "cancel"}
    BY <1>8 DEF Close, Cancel, At
  <2>2. PICK marked \in BOOLEAN : order' = [w EXCEPT !.marked = marked]
    BY <1>8 DEF Close, Cancel
  <2>3. w \in OrderDocument /\ w.status = "CANCELLED" /\ w.version = order.version + 1
    BY <1>2, <2>1, WriteMoves DEF Status
  <2>4. order.status \in {"DRAFT", "AWAITING_PAYMENT"}
    BY <2>1, FreshIsRead DEF Fits, ReadStatus
  <2> HIDE DEF w
  <2>5. order'.status = "CANCELLED" /\ order'.version = order.version + 1
    BY <2>2, <2>3 DEF OrderDocument
  <2> QED BY <2>4, <2>5 DEF Moves, MovesBy
<1>9. CASE (Mark(p) \/ MarkAndCommand(p)) /\ order' # order
  <2> DEFINE w == Written(order, order.status, 1)
  <2>1. order' = [w EXCEPT !.marked = TRUE]
    BY <1>9 DEF Mark, MarkAndCommand, Marked
  <2>2. w \in OrderDocument /\ w.status = order.status /\ w.version = order.version + 1
    BY <1>1, <1>2, WrittenType DEF OrderDocument
  <2> HIDE DEF w
  <2> QED BY <2>1, <2>2 DEF Moves, MovesBy, OrderDocument
<1> QED BY <1>3, <1>4, <1>5, <1>6, <1>7, <1>8, <1>9, OthersDoNotWrite

LEMMA StatusMoves ==
  ASSUME IInv, [Next]_vars
  PROVE  Moves
<1>1. ASSUME NEW p \in Process, Advance(p) PROVE Moves
  BY <1>1, WritesMove
<1>2. CASE StartPreparing
  <2>1. order \in OrderDocument /\ "PREPARING" \in Status /\ 1 \in Nat \ {0}
    BY DEF IInv, World, WorldTypes, Status
  <2> QED BY <1>2, <2>1, WrittenType DEF StartPreparing, Moves, MovesBy
<1>3. CASE order' = order
  BY <1>3 DEF Moves
<1>4. ASSUME NEW p \in Request, CreateOrder(p) \/ ConfirmPayment(p) \/ CancelOrder(p)
      PROVE  order' = order
  BY <1>4 DEF CreateOrder, ConfirmPayment, CancelOrder, Begin
<1>5. ASSUME NEW p \in Sweeper, Sweep(p) PROVE order' = order
  BY <1>5 DEF Sweep, Begin
<1>6. ASSUME NEW p \in Process, ChargeTimesOut(p) \/ StepFails(p) \/ Crash(p) PROVE order' = order
  BY <1>6 DEF ChargeTimesOut, StepFails, Crash
<1>7. ASSUME NEW outcome, ProviderAnswers(outcome) PROVE order' = order
  BY <1>7 DEF ProviderAnswers
<1>8. PaymentCrash \/ Tick \/ ExpireLock \/ UNCHANGED vars => order' = order
  BY Zenon DEF PaymentCrash, Tick, ExpireLock, vars
<1>9. ASSUME NEW acknowledged, Deliver(acknowledged) PROVE order' = order
  BY <1>9 DEF Deliver, DeliverRefund, DeliverCancel
<1> QED BY <1>1, <1>2, <1>3, <1>4, <1>5, <1>6, <1>7, <1>8, <1>9 DEF Next

(* Every move is in the table of the order state machine.                  *)
LEMMA MovesAreTransitions == Moves => [Lifecycle!Next]_<<order.status, order.version>>
<1> SUFFICES ASSUME Moves, ~UNCHANGED <<order.status, order.version>> PROVE Lifecycle!Next
  OBVIOUS
<1>1. ASSUME NEW from, NEW s \in from, NEW t \in Lifecycle!ORDER_TRANSITIONS[s]
      PROVE  t \in Lifecycle!Successors(from)
  BY <1>1 DEF Lifecycle!Successors
<1>2. /\ {"RISK_CHECK", "CANCELLED"} \subseteq Lifecycle!ORDER_TRANSITIONS["DRAFT"]
      /\ {"REVIEW", "REJECTED", "RESERVED"} \subseteq Lifecycle!ORDER_TRANSITIONS["RISK_CHECK"]
      /\ "AWAITING_PAYMENT" \in Lifecycle!ORDER_TRANSITIONS["RESERVED"]
      /\ {"PAID", "PAYMENT_FAILED", "CANCELLED"}
           \subseteq Lifecycle!ORDER_TRANSITIONS["AWAITING_PAYMENT"]
      /\ "PREPARING" \in Lifecycle!ORDER_TRANSITIONS["PAID"]
  BY DEF Lifecycle!ORDER_TRANSITIONS
<1>3. CASE UNCHANGED order.status /\ MovesBy(1)
  BY <1>3 DEF Lifecycle!Next, Lifecycle!Annotate, MovesBy
<1>4. CASE order.status = "DRAFT" /\ order'.status = "AWAITING_PAYMENT" /\ MovesBy(3)
  <2>1. "RISK_CHECK" \in Lifecycle!Successors({order.status})
    BY <1>1, <1>2, <1>4
  <2>2. "RESERVED" \in Lifecycle!Successors(Lifecycle!Successors({order.status}))
    BY <1>1, <1>2, <2>1
  <2>3. order'.status \in
          Lifecycle!Successors(Lifecycle!Successors(Lifecycle!Successors({order.status})))
    BY <1>1, <1>2, <1>4, <2>2
  <2> QED BY <1>4, <2>3 DEF Lifecycle!Next, Lifecycle!Transition, MovesBy
<1>5. CASE order.status = "DRAFT" /\ order'.status \in {"REVIEW", "REJECTED"} /\ MovesBy(2)
  <2>1. "RISK_CHECK" \in Lifecycle!Successors({order.status})
    BY <1>1, <1>2, <1>5
  <2>2. order'.status \in Lifecycle!Successors(Lifecycle!Successors({order.status}))
    BY <1>1, <1>2, <1>5, <2>1
  <2> QED BY <1>5, <2>2 DEF Lifecycle!Next, Lifecycle!Transition, MovesBy
<1>6. ASSUME order'.status \in Lifecycle!ORDER_TRANSITIONS[order.status], MovesBy(1)
      PROVE  Lifecycle!Next
  <2>1. order'.status \in Lifecycle!Successors({order.status})
    BY <1>1, <1>6
  <2> QED BY <1>6, <2>1 DEF Lifecycle!Next, Lifecycle!Transition, MovesBy
<1> QED BY <1>2, <1>3, <1>4, <1>5, <1>6 DEF Moves

-----------------------------------------------------------------------------
(* The theorems.                                                           *)

(* Every variable keeps its type.                                          *)
THEOREM SagaTypeCorrect == Spec => []TypeOK
<1>1. IInv => TypeOK
  BY DEF IInv, World, WorldTypes, TypeOK
<1> QED BY <1>1, Always, PTL

(* An order that is paid or further has its stock sold, whatever cancels,  *)
(* expires, fails or crashes in between.                                   *)
THEOREM PaidHasStock == Spec => []PaidOnlyWithStock
<1>1. IInv => PaidOnlyWithStock
  BY DEF IInv, World
<1> QED BY <1>1, Always, PTL

(* PAYMENT_FAILED is written only when no money was taken and none will be. *)
THEOREM FailedHasNoMoney == Spec => []FailedOnlyWithoutMoney
<1>1. IInv => FailedOnlyWithoutMoney
  BY DEF IInv, World
<1> QED BY <1>1, Always, PTL

(* An order that risk stopped, or a draft, was never charged.              *)
THEOREM RiskComesFirst == Spec => []ChargedOnlyAfterRisk
<1>1. IInv => ChargedOnlyAfterRisk
  BY DEF IInv, World
<1> QED BY <1>1, Always, PTL

(* The refund mark is written only when the money is back or its command    *)
(* is stored.                                                              *)
THEOREM MarkIsBacked == Spec => []RefundMarkIsBacked
<1>1. IInv => RefundMarkIsBacked
  BY DEF IInv, World
<1> QED BY <1>1, Always, PTL

(* A call that still runs never reopens an order that was closed.          *)
THEOREM StaysClosed == Spec => ClosedForGood
<1>1. IInv /\ [Next]_vars =>
        [order.status \in {"CANCELLED", "PAYMENT_FAILED", "REJECTED", "REVIEW"}
           => order'.status = order.status]_vars
  BY StatusMoves DEF Moves
<1> QED BY <1>1, Always, PTL DEF Spec, ClosedForGood

(* The saga implements the order state machine: each of its writes is one   *)
(* to three transitions of the table, counted by the version.              *)
THEOREM SagaFollowsLifecycle == Spec => FollowsLifecycle
<1>1. Init => Lifecycle!Init
  BY DEF Init, Draft, Lifecycle!Init
<1>2. IInv /\ [Next]_vars => [Lifecycle!Next]_<<order.status, order.version>>
  BY StatusMoves, MovesAreTransitions
<1> QED BY <1>1, <1>2, Always, PTL DEF Spec, FollowsLifecycle, Lifecycle!Spec
=============================================================================
