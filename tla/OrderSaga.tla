------------------------------ MODULE OrderSaga ------------------------------
(***************************************************************************)
(* order-service: the checkout of one order, from its saved draft on.      *)
(*                                                                         *)
(* Concurrent calls (CreateOrder, ConfirmPayment, CancelOrder) and the     *)
(* expiry sweeper each read the order, talk to risk, payment and inventory *)
(* one call at a time, and write the order back with a version check: the  *)
(* write is refused when another path wrote in between.  A step is one     *)
(* remote call or one database write; everything may happen in between.    *)
(* Orders share nothing here (rows, locks, payments and commands are keyed *)
(* by the order), so one order is modelled.                                *)
(*                                                                         *)
(* Abstractions: inventory is the lock of this order as the module         *)
(* StockReservation describes it (held until its expiry, then the sweeper  *)
(* may give it back any time; a settled lock stays settled).  payment-svc  *)
(* is its record of this order; a card charge is two steps because the     *)
(* record is inserted before the provider is asked.  RISK_CHECK and        *)
(* RESERVED only occur inside one write, they are never stored.  The       *)
(* outbox, the stream and the consumer are a set of commands delivered at  *)
(* least once, in any order.                                               *)
(***************************************************************************)
EXTENDS Integers, FiniteSets

CONSTANTS
  Request,         \* concurrent calls of users
  Sweeper,         \* instances whose expiry sweeper runs
  Ttl,             \* remaining life of the lock when the draft is saved
  ExtendBy,        \* RESERVATION_EXTEND_SECONDS, also the wanted payment window
  MaxExtensions,   \* extensions inventory grants
  MaxRemaining,    \* RESERVATION_TTL_MEDIUM_RISK_SECONDS
  MaxTime, MaxCalls, MaxFailures, MaxCrashes   \* bounds of the model

Process == Request \cup Sweeper

ASSUME ParameterAssumption ==
  /\ Request \cap Sweeper = {}
  /\ {Ttl, ExtendBy} \subseteq Nat \ {0}
  /\ {MaxExtensions, MaxRemaining, MaxTime, MaxCalls, MaxFailures, MaxCrashes} \subseteq Nat

Status ==
  {"DRAFT", "AWAITING_PAYMENT", "PAID", "PREPARING", "PAYMENT_FAILED", "CANCELLED", "REJECTED",
   "REVIEW"}
Method == {"card", "cash"}
PaymentStatus ==
  {"NONE", "PENDING", "REQUIRES_3DS", "SUCCEEDED", "FAILED", "REFUNDED", "CANCELLED"}

VARIABLES
  now,
  order,       \* the document: status, version, lock expiry, refund mark, payment choice, band
  lock,        \* inventory: the stock lock of the order
  payment,     \* payment-svc: the status of the payment of the order, "NONE" without a record
  challenged,  \* the payment has a 3DS challenge
  asking,      \* payment-svc is waiting for the card provider
  commands,    \* outbox commands that payment-svc has not acknowledged
  run,         \* run[p]: the step a call is at, and what it knows
  calls, failures, crashes

vars == <<now, order, lock, payment, challenged, asking, commands, run, calls, failures, crashes>>
outside == <<lock, payment, challenged, asking>>
bounded == <<calls, failures, crashes>>

OrderDocument ==
  [status : Status, version : Nat, expiresAt : Nat, marked : BOOLEAN,
   method : Method \cup {"none"}, band : {"none", "LOW", "MEDIUM", "HIGH", "CRITICAL"}]
Lock == [state : {"held", "sold", "free"}, expiresAt : Nat, extensions : Nat]
Goal == {"none", "create", "change", "confirm", "cancel", "lapse"}
Charge == {"none", "taken", "refunded"}
Step ==
  {"idle", "risk", "shorten", "decide", "window", "recordMoved", "recordExtended", "charge",
   "charging", "confirm", "fail", "failReread", "commit", "markPaid", "paidReread", "lapse",
   "close", "closeReread", "release", "refundNow", "refund", "mark", "markAndCommand", "append",
   "cancelLook", "cancel"}
Run == [step : Step, goal : Goal, seen : OrderDocument, charge : Charge, round : 1..3]

Draft ==
  [status |-> "DRAFT", version |-> 1, expiresAt |-> Ttl, marked |-> FALSE, method |-> "none",
   band |-> "none"]
Idle == [step |-> "idle", goal |-> "none", seen |-> Draft, charge |-> "none", round |-> 1]

Init ==
  /\ now = 0
  /\ order = Draft
  /\ lock = [state |-> "held", expiresAt |-> Ttl, extensions |-> 0]
  /\ payment = "NONE" /\ challenged = FALSE /\ asking = FALSE
  /\ commands = {}
  /\ run = [p \in Process |-> Idle]
  /\ calls = 0 /\ failures = 0 /\ crashes = 0

-----------------------------------------------------------------------------
At(p, step) == run[p].step = step
Become(p, r) == run' = [run EXCEPT ![p] = r]
Goto(p, step) == run' = [run EXCEPT ![p].step = step]
Finish(p) == Become(p, Idle)

(* The version check of replaceIfVersion, and mutants: no check at all.    *)
FreshAlways(p) == TRUE
Fresh(p) == order.version = run[p].seen.version

(* A remote call whose effect is made and whose answer is lost: the client *)
(* repeats it, so the call is still at the same step.                      *)
Answered(p, r) ==
  \/ Become(p, r) /\ UNCHANGED failures
  \/ failures < MaxFailures /\ failures' = failures + 1 /\ UNCHANGED run

LockActive == lock.state = "held" /\ now < lock.expiresAt
LiveReservation(o) == o.expiresAt > now
(* A card charge without a result; mutant: any payment without a result.   *)
InFlightAnyMethod == payment = "PENDING"
InFlight == payment = "PENDING" /\ order.method = "card"

(* The commands written with a cancellation (statusChangedEvents): cancel   *)
(* when the order had reached the payment, refund when money was taken.    *)
RefundCommandForgotten(before, charge) ==
  IF before.status = "AWAITING_PAYMENT" THEN {"cancel"} ELSE {}
ClosingCommands(before, charge) ==
  (IF before.status = "AWAITING_PAYMENT" THEN {"cancel"} ELSE {})
  \cup (IF charge = "taken" THEN {"refund"} ELSE {})

Written(seen, status, transitions) ==
  [seen EXCEPT !.status = status, !.version = @ + transitions]

-----------------------------------------------------------------------------
(* The calls.  Statuses a call refuses at once are left out: no step.      *)

Begin(p, step, goal, charge) ==
  /\ At(p, "idle")
  /\ Become(p, [step |-> step, goal |-> goal, seen |-> order, charge |-> charge, round |-> 1])
  /\ UNCHANGED <<now, order, outside, commands, failures, crashes>>

(* A retry of a waiting order may name another payment method ("change"):  *)
(* it is refused, after the payment window was secured.                    *)
CreateOrder(p) ==
  /\ calls < MaxCalls /\ calls' = calls + 1
  /\ \/ /\ order.status = "DRAFT"
        /\ \/ ~LiveReservation(order) /\ Begin(p, "close", "lapse", "none")
           \/ LiveReservation(order) /\ Begin(p, "risk", "create", "none")
     \/ /\ order.status = "AWAITING_PAYMENT"
        /\ \E goal \in {"create", "change"} : Begin(p, "window", goal, "none")

ConfirmPayment(p) ==
  /\ calls < MaxCalls /\ calls' = calls + 1
  /\ order.status = "AWAITING_PAYMENT"
  /\ Begin(p, "window", "confirm", "none")

CancelOrder(p) ==
  /\ calls < MaxCalls /\ calls' = calls + 1
  /\ \/ order.status = "DRAFT" /\ Begin(p, "cancel", "cancel", "none")
     \/ order.status = "AWAITING_PAYMENT" /\ Begin(p, "cancelLook", "cancel", "none")

(* The sweeper reads the expired orders and applies the table of           *)
(* lapsed-order.ts to each.                                                *)
Sweep(p) ==
  /\ UNCHANGED calls
  /\ ~LiveReservation(order)
  /\ \/ order.status = "DRAFT" /\ Begin(p, "close", "lapse", "none")
     \/ order.status = "AWAITING_PAYMENT" /\ Begin(p, "lapse", "lapse", "none")

-----------------------------------------------------------------------------
(* Risk.                                                                   *)

EvaluateRisk(p) ==
  /\ At(p, "risk")
  /\ \E band \in {"LOW", "MEDIUM", "HIGH", "CRITICAL"}, method \in Method \cup {"none"} :
       /\ band = "MEDIUM" => method = "card"
       /\ band \in {"HIGH", "CRITICAL"} <=> method = "none"
       /\ Become(p, [run[p] EXCEPT !.step = IF band = "MEDIUM" THEN "shorten" ELSE "decide",
                                   !.seen.band = band, !.seen.method = method])
  /\ UNCHANGED <<now, order, outside, commands, bounded>>

Shorten(p) ==
  /\ At(p, "shorten")
  /\ \/ /\ LockActive
        /\ LET until == IF lock.expiresAt > now + MaxRemaining THEN now + MaxRemaining
                                                               ELSE lock.expiresAt
           IN /\ lock' = [lock EXCEPT !.expiresAt = until]
              /\ Answered(p, [run[p] EXCEPT !.step = "decide", !.seen.expiresAt = until])
     \/ /\ ~LockActive
        /\ Become(p, [run[p] EXCEPT !.step = "close", !.goal = "lapse"])
        /\ UNCHANGED <<lock, failures>>
  /\ UNCHANGED <<now, order, payment, challenged, asking, commands, calls, crashes>>

(* The order as the band of the risk check leaves it.                      *)
Decision(seen) ==
  CASE seen.band = "HIGH"     -> Written(seen, "REVIEW", 2)
    [] seen.band = "CRITICAL" -> Written(seen, "REJECTED", 2)
    [] OTHER                  -> Written(seen, "AWAITING_PAYMENT", 3)

Decide(p) ==
  LET next == Decision(run[p].seen)
  IN /\ At(p, "decide")
     /\ \/ /\ Fresh(p)
           /\ order' = next
           /\ Become(p, [run[p] EXCEPT !.seen = next,
                           !.step = IF next.status = "AWAITING_PAYMENT" THEN "window"
                                                                        ELSE "release"])
        \/ ~Fresh(p) /\ Finish(p) /\ UNCHANGED order
     /\ UNCHANGED <<now, outside, commands, bounded>>

-----------------------------------------------------------------------------
(* securePaymentWindow: at most two rounds.                                *)

Payable(r) ==
  CASE r.goal = "create"  -> [r EXCEPT !.step = "charge"]
    [] r.goal = "confirm" -> [r EXCEPT !.step = "confirm"]
    [] OTHER              -> Idle

Window(p) ==
  LET r == run[p]
      extended == [lock EXCEPT !.expiresAt = @ + ExtendBy, !.extensions = @ + 1]
  IN /\ At(p, "window")
     /\ \/ /\ r.seen.expiresAt - now >= ExtendBy
           /\ Become(p, Payable(r)) /\ UNCHANGED <<lock, failures>>
        \/ /\ r.seen.expiresAt - now < ExtendBy
           /\ \/ ~LockActive /\ Goto(p, "lapse") /\ UNCHANGED <<lock, failures>>
              \/ /\ LockActive /\ lock.expiresAt # r.seen.expiresAt
                 /\ Become(p, [r EXCEPT !.step = "recordMoved", !.seen.expiresAt = lock.expiresAt,
                                        !.round = @ + 1])
                 /\ UNCHANGED <<lock, failures>>
              \/ /\ LockActive /\ lock.expiresAt = r.seen.expiresAt
                 /\ lock.extensions >= MaxExtensions
                 /\ Become(p, Payable(r)) /\ UNCHANGED <<lock, failures>>
              \/ /\ LockActive /\ lock.expiresAt = r.seen.expiresAt
                 /\ lock.extensions < MaxExtensions
                 /\ lock' = extended
                 /\ Answered(p, [r EXCEPT !.step = "recordExtended",
                                          !.seen.expiresAt = extended.expiresAt])
     /\ UNCHANGED <<now, order, payment, challenged, asking, commands, calls, crashes>>

RecordExpiry(p) ==
  LET r == run[p]
      next == Written(r.seen, r.seen.status, 1)
      recorded == [r EXCEPT !.seen = next]
  IN /\ r.step \in {"recordMoved", "recordExtended"}
     /\ \/ /\ Fresh(p)
           /\ order' = next
           /\ Become(p, IF r.step = "recordMoved" /\ r.round <= 2
                        THEN [recorded EXCEPT !.step = "window"]
                        ELSE Payable(recorded))
        \/ ~Fresh(p) /\ Finish(p) /\ UNCHANGED order
     /\ UNCHANGED <<now, outside, commands, bounded>>

-----------------------------------------------------------------------------
(* The payment.                                                            *)

(* Mutants of what a call does with the answer: the order is paid first and *)
(* the stock committed afterwards; an open challenge counts as a refusal.  *)
SettlePaidFirst(r, status) ==
  CASE status = "SUCCEEDED" -> [r EXCEPT !.step = "markPaid", !.charge = "taken"]
    [] OTHER -> Idle
SettleChallengeAsRefusal(r, status) ==
  CASE status = "SUCCEEDED" -> [r EXCEPT !.step = "commit", !.charge = "taken"]
    [] OTHER -> [r EXCEPT !.step = "fail"]

(* What a call does with the payment status it is answered (decidePayment). *)
Settle(r, status) ==
  CASE status = "SUCCEEDED" -> [r EXCEPT !.step = "commit", !.charge = "taken"]
    [] status = "PENDING" /\ r.seen.method = "cash" -> [r EXCEPT !.step = "commit"]
    [] status = "FAILED" -> [r EXCEPT !.step = "fail"]
    [] OTHER -> Idle

(* Charge: a repeated call is answered the record of the first.            *)
ChargeOrder(p) ==
  /\ At(p, "charge")
  /\ \/ /\ payment = "NONE"
        /\ payment' = "PENDING"
        /\ \/ /\ run[p].seen.method = "cash"
              /\ Answered(p, Settle(run[p], "PENDING")) /\ UNCHANGED asking
           \/ /\ run[p].seen.method = "card"
              /\ asking' = TRUE /\ Goto(p, "charging") /\ UNCHANGED failures
     \/ /\ payment # "NONE"
        /\ Become(p, Settle(run[p], payment))
        /\ UNCHANGED <<payment, asking, failures>>
  /\ UNCHANGED <<now, order, lock, challenged, commands, calls, crashes>>

(* The provider answers and payment-svc stores it; the call that waits, if  *)
(* it still does, is told.  A medium-risk card never goes without 3DS.     *)
ProviderAnswers(outcome) ==
  /\ asking
  /\ order.band = "MEDIUM" => outcome # "SUCCEEDED"
  /\ asking' = FALSE
  /\ payment' = outcome
  /\ challenged' = (outcome = "REQUIRES_3DS")
  /\ run' = [p \in Process |->
               IF At(p, "charging") THEN Settle(run[p], outcome) ELSE run[p]]
  /\ UNCHANGED <<now, order, lock, commands, bounded>>

(* The deadline of a Charge passes: the client repeats it.                 *)
ChargeTimesOut(p) ==
  /\ At(p, "charging")
  /\ failures < MaxFailures /\ failures' = failures + 1
  /\ Goto(p, "charge")
  /\ UNCHANGED <<now, order, outside, commands, calls, crashes>>

(* payment-svc dies, or cannot write the result, while the record waits    *)
(* for the provider: nobody settles the record any more.                   *)
PaymentCrash ==
  /\ asking /\ crashes < MaxCrashes
  /\ crashes' = crashes + 1
  /\ asking' = FALSE
  /\ run' = [p \in Process |->
               IF At(p, "charging") THEN [run[p] EXCEPT !.step = "charge"] ELSE run[p]]
  /\ UNCHANGED <<now, order, lock, payment, challenged, commands, calls, failures>>

(* Confirm3Ds: the code is right, wrong, or the attempt that closes the     *)
(* challenge (attempts used up, or the challenge timed out).  An answer may *)
(* be lost; order-service does not repeat this call.                       *)
Confirm(p) ==
  /\ At(p, "confirm")
  /\ \/ /\ challenged /\ payment = "REQUIRES_3DS"
        /\ \/ /\ payment' = "SUCCEEDED"
              /\ \/ Become(p, Settle(run[p], "SUCCEEDED")) /\ UNCHANGED failures
                 \/ /\ failures < MaxFailures /\ failures' = failures + 1 /\ Finish(p)
           \/ /\ payment' = "FAILED"
              /\ \/ Goto(p, "fail") /\ UNCHANGED failures
                 \/ /\ failures < MaxFailures /\ failures' = failures + 1 /\ Finish(p)
           \/ Finish(p) /\ UNCHANGED <<payment, failures>>
     \/ /\ challenged /\ payment \in {"SUCCEEDED", "FAILED"}
        /\ Become(p, Settle(run[p], payment)) /\ UNCHANGED <<payment, failures>>
     \/ /\ ~challenged \/ payment \notin {"REQUIRES_3DS", "SUCCEEDED", "FAILED"}
        /\ Finish(p) /\ UNCHANGED <<payment, failures>>
  /\ UNCHANGED <<now, order, lock, challenged, asking, commands, calls, crashes>>

(* failPayment: the write comes before the lock is let go.                 *)
FailPayment(p) ==
  LET next == Written(run[p].seen, "PAYMENT_FAILED", 1)
  IN /\ At(p, "fail")
     /\ \/ Fresh(p) /\ order' = next /\ Goto(p, "release")
        \/ ~Fresh(p) /\ Goto(p, "failReread") /\ UNCHANGED order
     /\ UNCHANGED <<now, outside, commands, bounded>>

FailReread(p) ==
  /\ At(p, "failReread")
  /\ IF order.status = "PAYMENT_FAILED" THEN Goto(p, "release") ELSE Finish(p)
  /\ UNCHANGED <<now, order, outside, commands, bounded>>

-----------------------------------------------------------------------------
(* Commit before PAID.                                                     *)

Commit(p) ==
  /\ At(p, "commit")
  /\ \/ /\ lock.state \in {"held", "sold"}
        /\ lock' = [lock EXCEPT !.state = "sold"]
        /\ Answered(p, [run[p] EXCEPT !.step = "markPaid"])
     \/ /\ lock.state = "free"
        /\ Goto(p, "close") /\ UNCHANGED <<lock, failures>>
  /\ UNCHANGED <<now, order, payment, challenged, asking, commands, calls, crashes>>

MarkPaid(p) ==
  /\ At(p, "markPaid")
  /\ \/ Fresh(p) /\ order' = Written(run[p].seen, "PAID", 1) /\ Finish(p)
     \/ ~Fresh(p) /\ Goto(p, "paidReread") /\ UNCHANGED order
  /\ UNCHANGED <<now, outside, commands, bounded>>

(* The write was refused.  Another call may have written PAID; otherwise   *)
(* markPaid gives charged money back whatever the order has become, the    *)
(* lapse table only when the order is cancelled.                           *)
PaidReread(p) ==
  LET refunds == /\ order.status # "PAID"
                 /\ run[p].charge = "taken"
                 /\ run[p].goal = "lapse" => order.status = "CANCELLED"
  IN /\ At(p, "paidReread")
     /\ IF refunds THEN Goto(p, "refund") ELSE Finish(p)
     /\ UNCHANGED <<now, order, outside, commands, bounded>>

-----------------------------------------------------------------------------
(* closeLapsedOrder for a waiting order: the payment record decides.       *)

Lapse(p) ==
  LET r == [run[p] EXCEPT !.goal = "lapse"]
  IN /\ At(p, "lapse")
     /\ \/ InFlight /\ Finish(p)
        \/ /\ payment = "SUCCEEDED"
           /\ Become(p, [r EXCEPT !.step = "commit", !.charge = "taken"])
        \/ /\ ~InFlight /\ payment # "SUCCEEDED"
           /\ Become(p, [r EXCEPT !.step = "close",
                           !.charge = IF payment = "REFUNDED" THEN "refunded" ELSE "none"])
     /\ UNCHANGED <<now, order, outside, commands, bounded>>

(* closeWithoutStock: CANCELLED, the refund mark and the commands are one   *)
(* write.                                                                  *)
Close(p) ==
  LET r == run[p]
      next == [Written(r.seen, "CANCELLED", 1) EXCEPT !.marked = r.charge # "none"]
  IN /\ At(p, "close")
     /\ \/ /\ Fresh(p)
           /\ order' = next
           /\ commands' = commands \cup ClosingCommands(r.seen, r.charge)
           /\ Goto(p, "release")
        \/ ~Fresh(p) /\ Goto(p, "closeReread") /\ UNCHANGED <<order, commands>>
     /\ UNCHANGED <<now, outside, bounded>>

CloseReread(p) ==
  /\ At(p, "closeReread")
  /\ \/ /\ order.status = "CANCELLED" /\ run[p].charge # "none"
        /\ Goto(p, IF run[p].charge = "taken" THEN "refund" ELSE "mark")
     \/ /\ order.status # "CANCELLED" \/ run[p].charge = "none"
        /\ Finish(p)
  /\ UNCHANGED <<now, order, outside, commands, bounded>>

(* releaseStock never fails its caller.  After a lapse that took money the  *)
(* refund is tried at once.                                                *)
AfterRelease(r) == IF r.charge = "taken" THEN [r EXCEPT !.step = "refundNow"] ELSE Idle

Release(p) ==
  /\ At(p, "release")
  /\ lock' = IF lock.state = "held" THEN [lock EXCEPT !.state = "free"] ELSE lock
  /\ Answered(p, AfterRelease(run[p]))
  /\ UNCHANGED <<now, order, payment, challenged, asking, commands, calls, crashes>>

-----------------------------------------------------------------------------
(* Giving money back: directly, else by a command in the outbox.           *)

GivenBack == IF payment = "SUCCEEDED" THEN "REFUNDED" ELSE payment

RefundNow(p) ==
  /\ At(p, "refundNow")
  /\ payment' = GivenBack
  /\ Answered(p, Idle)
  /\ UNCHANGED <<now, order, lock, challenged, asking, commands, calls, crashes>>

Refund(p) ==
  /\ At(p, "refund")
  /\ payment \in {"SUCCEEDED", "REFUNDED"}
  /\ payment' = "REFUNDED"
  /\ Answered(p, [run[p] EXCEPT !.step = "mark"])
  /\ UNCHANGED <<now, order, lock, challenged, asking, commands, calls, crashes>>

NeedsMark == order.status = "CANCELLED" /\ ~order.marked
Marked == [Written(order, order.status, 1) EXCEPT !.marked = TRUE]

(* recordRefund: read and written again until it fits, so one step here.   *)
Mark(p) ==
  /\ At(p, "mark")
  /\ order' = IF NeedsMark THEN Marked ELSE order
  /\ Finish(p)
  /\ UNCHANGED <<now, outside, commands, bounded>>

MarkAndCommand(p) ==
  /\ At(p, "markAndCommand")
  /\ \/ /\ NeedsMark
        /\ order' = Marked /\ commands' = commands \cup {"refund"} /\ Finish(p)
     \/ ~NeedsMark /\ Goto(p, "append") /\ UNCHANGED <<order, commands>>
  /\ UNCHANGED <<now, outside, bounded>>

Append(p) ==
  /\ At(p, "append")
  /\ commands' = commands \cup {"refund"}
  /\ Finish(p)
  /\ UNCHANGED <<now, order, outside, bounded>>

-----------------------------------------------------------------------------
(* CancelOrder of a waiting order looks at the payment first.              *)

CancelLook(p) ==
  /\ At(p, "cancelLook")
  /\ \/ (InFlight \/ payment = "SUCCEEDED") /\ Finish(p)
     \/ /\ ~InFlight /\ payment # "SUCCEEDED"
        /\ Become(p, [run[p] EXCEPT !.step = "cancel",
                        !.charge = IF payment = "REFUNDED" THEN "refunded" ELSE "none"])
  /\ UNCHANGED <<now, order, outside, commands, bounded>>

Cancel(p) ==
  LET r == run[p]
      next == [Written(r.seen, "CANCELLED", 1) EXCEPT !.marked = r.charge = "refunded"]
  IN /\ At(p, "cancel")
     /\ \/ /\ Fresh(p)
           /\ order' = next
           /\ commands' = commands \cup ClosingCommands(r.seen, "none")
           /\ Goto(p, "release")
        \/ ~Fresh(p) /\ Finish(p) /\ UNCHANGED <<order, commands>>
     /\ UNCHANGED <<now, outside, bounded>>

-----------------------------------------------------------------------------
(* A remote call or a write fails without effect.  Most steps give the     *)
(* call up; the best-effort ones go on.                                    *)
AfterFailure(r) ==
  CASE r.step = "release"        -> AfterRelease(r)
    [] r.step = "refund"         -> [r EXCEPT !.step = "markAndCommand"]
    [] r.step = "markAndCommand" -> [r EXCEPT !.step = "append"]
    [] OTHER                     -> Idle

StepFails(p) ==
  /\ ~At(p, "idle")
  /\ failures < MaxFailures /\ failures' = failures + 1
  /\ Become(p, AfterFailure(run[p]))
  /\ UNCHANGED <<now, order, outside, commands, calls, crashes>>

(* The instance that runs the call dies.                                   *)
Crash(p) ==
  /\ ~At(p, "idle")
  /\ crashes < MaxCrashes /\ crashes' = crashes + 1
  /\ Finish(p)
  /\ UNCHANGED <<now, order, outside, commands, calls, failures>>

-----------------------------------------------------------------------------
(* The world around.                                                       *)

Tick ==
  /\ now < MaxTime /\ now' = now + 1
  /\ UNCHANGED <<order, outside, commands, run, bounded>>

(* inventory's sweeper gives an expired lock back.                         *)
ExpireLock ==
  /\ lock.state = "held" /\ lock.expiresAt <= now
  /\ lock' = [lock EXCEPT !.state = "free"]
  /\ UNCHANGED <<now, order, payment, challenged, asking, commands, run, bounded>>

(* A courier is asked for as soon as the order is paid.                    *)
StartPreparing ==
  /\ order.status = "PAID"
  /\ order' = Written(order, "PREPARING", 1)
  /\ UNCHANGED <<now, outside, commands, run, bounded>>

(* payment-svc takes a command; without the acknowledgement it comes again. *)
DeliverRefund(acknowledged) ==
  /\ "refund" \in commands
  /\ payment' = GivenBack
  /\ commands' = IF acknowledged THEN commands \ {"refund"} ELSE commands
  /\ UNCHANGED <<now, order, lock, challenged, asking, run, bounded>>

(* Mutant: a cancel command does not touch money that was taken.            *)
CancelledPaymentKept ==
  CASE payment \in {"REQUIRES_3DS", "PENDING"} -> "CANCELLED"
    [] OTHER                                   -> payment
CancelledPayment ==
  CASE payment \in {"REQUIRES_3DS", "PENDING"} -> "CANCELLED"
    [] payment = "SUCCEEDED"                   -> "REFUNDED"
    [] OTHER                                   -> payment

DeliverCancel(acknowledged) ==
  /\ "cancel" \in commands /\ ~InFlight
  /\ payment' = CancelledPayment
  /\ commands' = IF acknowledged THEN commands \ {"cancel"} ELSE commands
  /\ UNCHANGED <<now, order, lock, challenged, asking, run, bounded>>

-----------------------------------------------------------------------------
Advance(p) ==
  \/ EvaluateRisk(p) \/ Shorten(p) \/ Decide(p)
  \/ Window(p) \/ RecordExpiry(p)
  \/ ChargeOrder(p) \/ Confirm(p) \/ FailPayment(p) \/ FailReread(p)
  \/ Commit(p) \/ MarkPaid(p) \/ PaidReread(p)
  \/ Lapse(p) \/ Close(p) \/ CloseReread(p) \/ Release(p)
  \/ RefundNow(p) \/ Refund(p) \/ Mark(p) \/ MarkAndCommand(p) \/ Append(p)
  \/ CancelLook(p) \/ Cancel(p)

Deliver(acknowledged) == DeliverRefund(acknowledged) \/ DeliverCancel(acknowledged)

Next ==
  \/ \E p \in Request : CreateOrder(p) \/ ConfirmPayment(p) \/ CancelOrder(p)
  \/ \E p \in Sweeper : Sweep(p)
  \/ \E p \in Process : Advance(p) \/ ChargeTimesOut(p) \/ StepFails(p) \/ Crash(p)
  \/ \E outcome \in {"SUCCEEDED", "REQUIRES_3DS", "FAILED"} : ProviderAnswers(outcome)
  \/ PaymentCrash
  \/ Tick \/ ExpireLock \/ StartPreparing
  \/ \E acknowledged \in BOOLEAN : Deliver(acknowledged)

Spec == Init /\ [][Next]_vars

(* What keeps going: calls that were accepted, time, inventory's sweeper,  *)
(* the provider, the command stream, and the order sweeper on its timer.   *)
FairSpec ==
  /\ Spec
  /\ \A p \in Process : WF_vars(Advance(p))
  /\ \A p \in Sweeper : WF_vars(Sweep(p))
  /\ WF_vars(\E outcome \in {"SUCCEEDED", "REQUIRES_3DS", "FAILED"} : ProviderAnswers(outcome))
  /\ WF_vars(Tick) /\ WF_vars(ExpireLock)
  /\ WF_vars(DeliverRefund(TRUE)) /\ WF_vars(DeliverCancel(TRUE))

-----------------------------------------------------------------------------
(* Types of the state.                                                     *)
TypeOK ==
  /\ now \in Nat
  /\ order \in OrderDocument
  /\ lock \in Lock
  /\ payment \in PaymentStatus /\ challenged \in BOOLEAN /\ asking \in BOOLEAN
  /\ commands \subseteq {"cancel", "refund"}
  /\ run \in [Process -> Run]
  /\ calls \in Nat /\ failures \in Nat /\ crashes \in Nat

(* An order that is paid or further has its stock sold: the lock is         *)
(* committed before PAID is written (payment-step.ts).                     *)
PaidOnlyWithStock == order.status \in {"PAID", "PREPARING"} => lock.state = "sold"

(* PAYMENT_FAILED is told to the user only when no money was taken, and      *)
(* none is taken afterwards.                                               *)
FailedOnlyWithoutMoney == order.status = "PAYMENT_FAILED" => payment = "FAILED"

(* A rejected order, one under review or a draft was never charged.         *)
ChargedOnlyAfterRisk == order.status \in {"DRAFT", "REJECTED", "REVIEW"} => payment = "NONE"

(* The refund mark never stands for money that is neither returned nor      *)
(* certain to be: the money is back or its command is stored.              *)
RefundMarkIsBacked ==
  order.marked => \/ payment = "REFUNDED"
                  \/ payment = "SUCCEEDED" /\ "refund" \in commands

(* A cancelled order never leaves that status, nor does one whose payment   *)
(* failed, nor one that risk stopped, whatever calls are still under way.   *)
ClosedForGood ==
  [][order.status \in {"CANCELLED", "PAYMENT_FAILED", "REJECTED", "REVIEW"}
       => order'.status = order.status]_vars

(* The status moves along the order state machine only.                    *)
Lifecycle == INSTANCE OrderLifecycle WITH status <- order.status, version <- order.version
FollowsLifecycle == Lifecycle!Spec

(* The sweeper closes every checkout that nobody finishes.                 *)
CheckoutEnds == <>[](order.status \notin {"DRAFT", "AWAITING_PAYMENT"})

(* Money taken for an order that was cancelled comes back.                 *)
MoneyComesBack == [](order.status = "CANCELLED" /\ payment = "SUCCEEDED" => <>(payment = "REFUNDED"))
=============================================================================
