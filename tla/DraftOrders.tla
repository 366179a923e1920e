----------------------------- MODULE DraftOrders ------------------------------
(* Opening the draft order of a cart in order-service: the stock is locked    *)
(* before the draft is written, inventory allows a user one lock, and a new   *)
(* cart may take the place of the user's previous draft. All orders are of    *)
(* one user; each action is one call to inventory or Mongo of one request.    *)
EXTENDS Integers

CONSTANTS
  Order,         \* each request opens an order of its own
  MarketOf(_),   \* the market of its cart
  NoOrder,
  MaxFailures    \* bound: calls that fail or lose their answer

ASSUME OrderAssumption == NoOrder \notin Order
ASSUME FailuresAssumption == MaxFailures \in Nat

VARIABLES
  lock,       \* inventory: the order that holds the user's lock, and its age
  ended,      \* orders whose lock was released, sold or ran out
  expired,    \* those whose lock ran out
  late,       \* orders whose Reserve inventory has not seen when the caller gave up
  status,     \* the record of an order
  call,       \* request -> the step it is at and what it read
  stranded,   \* orders whose lock a failed or overtaken Release left behind
  failures

stock == <<lock, ended, expired, late>>
draftVars == <<stock, status, call, stranded, failures>>

------------------------------------------------------------------------------
Status == {"none", "DRAFT", "PLACING", "PAID", "CLOSED"}
Step == {"idle", "reserve", "undo", "look", "orphan", "cancel", "free", "insert", "drop",
         "opened", "refused", "failed"}
NoLock == [order |-> NoOrder, young |-> FALSE]
Idle == [at |-> "idle", again |-> FALSE, other |-> NoOrder, old |-> FALSE]
Ended == {"opened", "refused", "failed"}

DraftInit ==
  /\ lock = NoLock /\ ended = {} /\ expired = {} /\ late = {}
  /\ status = [o \in Order |-> "none"] /\ call = [o \in Order |-> Idle]
  /\ stranded = {} /\ failures = 0

\* The next step; what was read of another lock is dropped, kept, or noted.
Goes(r, step) == call' = [call EXCEPT ![r] = [Idle EXCEPT !.at = step]]
Handles(r, step, other) == call' = [call EXCEPT ![r] = [Idle EXCEPT !.at = step, !.other = other]]
Fails == failures < MaxFailures /\ failures' = failures + 1
At(r, step) == call[r].at = step

------------------------------------------------------------------------------
(* inventory-service, one script each. *)

Lock(o) ==
  /\ lock = NoLock
  /\ lock' = [order |-> o, young |-> TRUE]
  /\ UNCHANGED <<ended, expired>>

Unlock(o) ==
  /\ lock' = IF lock.order = o THEN NoLock ELSE lock
  /\ ended' = IF lock.order = o THEN ended \cup {o} ELSE ended

\* Release in a market: a lock of another market is not found there.
Known(o, market) == MarketOf(o) = market /\ (lock.order = o \/ o \in ended)
Release(o, market) ==
  /\ IF MarketOf(o) = market THEN Unlock(o) ELSE UNCHANGED <<lock, ended>>
  /\ UNCHANGED <<expired, late>>

\* It fails before or after it is done.
ReleaseFails(o, market) == Fails /\ (Release(o, market) \/ UNCHANGED stock)

\* The lock grows older than ORPHAN_LOCK_MIN_AGE_SECONDS: by then the request that
\* took it has written its draft or given up.
Ages ==
  /\ lock # NoLock /\ lock.young /\ ~At(lock.order, "insert")
  /\ lock' = [lock EXCEPT !.young = FALSE]
  /\ UNCHANGED <<ended, expired, late, status, call, stranded, failures>>

Expires ==
  /\ lock # NoLock /\ ~lock.young
  /\ Unlock(lock.order)
  /\ expired' = expired \cup {lock.order}
  /\ UNCHANGED <<late, status, call, stranded, failures>>

\* The Reserve its caller gave up on: it locks, or finds another lock.
ReservesLate(o) ==
  /\ o \in late
  /\ late' = late \ {o}
  /\ \/ Lock(o) /\ stranded' = stranded \cup {o}
     \/ lock # NoLock /\ UNCHANGED <<lock, ended, expired, stranded>>
  /\ UNCHANGED <<status, call, failures>>

------------------------------------------------------------------------------
(* reserveDraftStock. *)

Start(r) ==
  /\ At(r, "idle") /\ Goes(r, "reserve")
  /\ UNCHANGED <<stock, status, stranded, failures>>

Reserves(r) ==
  /\ At(r, "reserve") /\ Lock(r)
  /\ Goes(r, "insert")
  /\ UNCHANGED <<late, status, stranded, failures>>

\* The stock does not suffice: the draft is written cancelled, as a trace.
FindsTooLittle(r) ==
  /\ At(r, "reserve") /\ lock = NoLock
  /\ status' = [status EXCEPT ![r] = "CLOSED"]
  /\ Goes(r, "refused")
  /\ UNCHANGED <<stock, stranded, failures>>

\* The user's other lock: looked at once, the second time it is the answer.
FindsLock(r) ==
  /\ At(r, "reserve") /\ lock.order \notin {NoOrder, r}
  /\ \/ call[r].again /\ Goes(r, "refused")
     \/ /\ ~call[r].again
        /\ call' = [call EXCEPT ![r] = [Idle EXCEPT !.at = "look", !.other = lock.order,
                                                   !.old = ~lock.young]]
  /\ UNCHANGED <<stock, status, stranded, failures>>

\* The answer is lost: inventory may have locked, or will.
LosesReserve(r) ==
  /\ At(r, "reserve") /\ Fails
  /\ \/ Lock(r) /\ UNCHANGED late
     \/ UNCHANGED stock
     \/ late' = late \cup {r} /\ UNCHANGED <<lock, ended, expired>>
  /\ Goes(r, "undo")
  /\ UNCHANGED <<status, stranded>>

\* releaseUncertainLock, and the release of a draft that could not be written.
Releases(r) ==
  /\ At(r, "undo") \/ At(r, "drop")
  /\ \/ Release(r, MarketOf(r)) /\ UNCHANGED <<stranded, failures>>
     \/ ReleaseFails(r, MarketOf(r)) /\ stranded' = stranded \cup {r}
  /\ Goes(r, "failed")
  /\ UNCHANGED status

------------------------------------------------------------------------------
(* freePreviousLock. *)

\* Mutant: an order without a record is an orphan at any age.
NextOfAnyAge(r) ==
  CASE status[call[r].other] = "none"   -> "orphan"
    [] status[call[r].other] = "DRAFT"  -> "cancel"
    [] status[call[r].other] = "CLOSED" -> "free"
    [] OTHER -> "refused"

\* What the record of the other order says: a lock without one is an orphan when it
\* is old enough, a draft gives way, a closed order holds nothing.
NextOf(r) ==
  CASE status[call[r].other] = "none"   -> IF call[r].old THEN "orphan" ELSE "refused"
    [] status[call[r].other] = "DRAFT"  -> "cancel"
    [] status[call[r].other] = "CLOSED" -> "free"
    [] OTHER -> "refused"

Look(r) ==
  /\ At(r, "look")
  /\ \/ NextOf(r) = "refused" /\ Goes(r, "refused")
     \/ NextOf(r) # "refused" /\ Handles(r, NextOf(r), call[r].other)
  /\ UNCHANGED <<stock, status, stranded, failures>>

Again(r) == call' = [call EXCEPT ![r] = [Idle EXCEPT !.at = "reserve", !.again = TRUE]]

\* The orphan's market is unknown: the new cart's is tried.
FreesOrphan(r) ==
  LET orphan == call[r].other IN
  /\ At(r, "orphan")
  /\ \/ Release(orphan, MarketOf(r)) /\ UNCHANGED failures
        /\ IF Known(orphan, MarketOf(r)) THEN Again(r) ELSE Goes(r, "refused")
     \/ ReleaseFails(orphan, MarketOf(r)) /\ Goes(r, "failed")
  /\ UNCHANGED <<status, stranded>>

\* Mutant: the stock of the draft is freed before its record is cancelled.
FreesFirst(r) ==
  /\ At(r, "cancel")
  /\ Release(call[r].other, MarketOf(call[r].other))
  /\ Again(r)
  /\ status' = [status EXCEPT ![call[r].other] = IF @ = "DRAFT" THEN "CLOSED" ELSE @]
  /\ UNCHANGED <<stranded, failures>>

\* The write names the version that was read: an order that has moved on stays.
Cancels(r) ==
  LET previous == call[r].other IN
  /\ At(r, "cancel")
  /\ \/ status[previous] = "DRAFT" /\ Handles(r, "free", previous) /\ UNCHANGED failures
     \/ status[previous] = "DRAFT" /\ Goes(r, "failed") /\ Fails
  /\ status' = [status EXCEPT ![previous] = "CLOSED"]
  /\ UNCHANGED <<stock, stranded>>

CancelFails(r) ==
  /\ At(r, "cancel")
  /\ \/ status[call[r].other] # "DRAFT" /\ Goes(r, "refused") /\ UNCHANGED failures
     \/ Goes(r, "failed") /\ Fails
  /\ UNCHANGED <<stock, status, stranded>>

Frees(r) ==
  LET previous == call[r].other IN
  /\ At(r, "free")
  /\ \/ Release(previous, MarketOf(previous)) /\ UNCHANGED failures /\ Again(r)
     \/ ReleaseFails(previous, MarketOf(previous)) /\ Goes(r, "failed")
  /\ UNCHANGED <<status, stranded>>

------------------------------------------------------------------------------
(* The write of the draft. *)

Insert(r) ==
  /\ At(r, "insert")
  /\ status' = [status EXCEPT ![r] = "DRAFT"]
  /\ Goes(r, "opened")
  /\ UNCHANGED <<stock, stranded, failures>>

\* It fails, or its answer is lost after the record was written.
InsertFails(r) ==
  /\ At(r, "insert") /\ Fails
  /\ \/ status' = [status EXCEPT ![r] = "DRAFT"]
     \/ UNCHANGED status
  /\ Goes(r, "drop")
  /\ UNCHANGED <<stock, stranded>>

\* A read fails, or order-service ends: nothing is undone.
BreaksOff(r) ==
  /\ call[r].at \notin Ended \cup {"idle"} /\ Fails
  /\ Goes(r, "failed")
  /\ stranded' = stranded \cup {r}
  /\ UNCHANGED <<stock, status>>

Works(r) ==
  \/ Reserves(r) \/ FindsTooLittle(r) \/ FindsLock(r) \/ LosesReserve(r) \/ Releases(r)
  \/ Look(r) \/ FreesOrphan(r) \/ Cancels(r) \/ CancelFails(r) \/ Frees(r)
  \/ Insert(r) \/ InsertFails(r) \/ BreaksOff(r)

------------------------------------------------------------------------------
(* What the checkout does with a draft the user was told of (module OrderSaga), *)
(* as far as the lock shows it.                                                 *)

Moves(o, from, to) ==
  /\ At(o, "opened") /\ status[o] \in from
  /\ status' = [status EXCEPT ![o] = to]
  /\ UNCHANGED <<late, call, stranded, failures>>

Place(o) == Moves(o, {"DRAFT"}, "PLACING") /\ UNCHANGED stock
Pay(o) == Moves(o, {"PLACING"}, "PAID") /\ lock.order = o /\ Unlock(o) /\ UNCHANGED expired

\* Cancelled, rejected, failed or run out; the release follows, or never comes.
Close(o) == Moves(o, {"DRAFT", "PLACING"}, "CLOSED") /\ UNCHANGED stock
LetsGo(o) ==
  /\ status[o] = "CLOSED" /\ lock.order = o /\ Unlock(o)
  /\ UNCHANGED <<expired, late, status, call, stranded, failures>>

Elsewhere ==
  \/ Ages \/ Expires
  \/ \E o \in Order : ReservesLate(o) \/ Place(o) \/ Pay(o) \/ Close(o) \/ LetsGo(o)

DraftNext == Elsewhere \/ \E r \in Order : Start(r) \/ Works(r)

DraftSpec == DraftInit /\ [][DraftNext]_draftVars

------------------------------------------------------------------------------
(* Properties. *)

DraftTypeOK ==
  /\ lock \in [order : Order \cup {NoOrder}, young : BOOLEAN]
  /\ ended \subseteq Order /\ expired \subseteq ended /\ late \subseteq Order
  /\ status \in [Order -> Status]
  /\ call \in [Order -> [at : Step, again : BOOLEAN, other : Order \cup {NoOrder}, old : BOOLEAN]]
  /\ stranded \subseteq Order
  /\ failures \in 0..MaxFailures

(* draft-reservation.ts:188-193 and 232-240: no other cart, retry or second tab *)
(* takes the stock of a draft the user was told of, or of a checkout under way, *)
(* before its own time runs out.                                                *)
DraftKeepsStock ==
  \A o \in Order :
    At(o, "opened") /\ status[o] \in {"DRAFT", "PLACING"} /\ o \notin expired => lock.order = o

(* draft-reservation.ts:15-17: the user's lock stands for an order with a       *)
(* record, or for a request at work, unless a Release failed or came too early. *)
LockHasOwner ==
  lock # NoLock /\ status[lock.order] = "none" =>
    lock.order \in stranded \/ call[lock.order].at \in {"insert", "undo", "drop"}

(* The lock of the user and the draft of the user stand for each other.         *)
LockFitsDraft == DraftKeepsStock /\ LockHasOwner
==============================================================================
