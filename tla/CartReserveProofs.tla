-------------------------- MODULE CartReserveProofs ---------------------------
(***************************************************************************)
(* What holds of POST /v1/cart/reserve for any number of requests, keys,    *)
(* markets and failures.  The inductive invariant has three parts: what a   *)
(* step of order-service says about the lock and the record of its order,   *)
(* what a phase of the gateway says about the record of its key, and what   *)
(* an answer says about the request it came from.                           *)
(***************************************************************************)
EXTENDS CartReserve, TLAPS

-----------------------------------------------------------------------------
(* The inductive invariant: order-service *)

(* A request that has not come to the write of its draft. *)
Before(o) == call[o].at \in {"idle", "reserve", "look", "orphan", "cancel", "free", "refused"}

(* One that is past it and does not hold the lock for it any more. *)
Past(o) == call[o].at \in {"undo", "drop", "opened", "failed"}

(* The record of an order follows the request that writes it. *)
RecordInv(o) ==
  /\ call[o].at \in {"idle", "reserve", "look", "orphan", "cancel", "free", "insert", "undo"}
       => status[o] = "none"
  /\ At(o, "opened") => status[o] # "none"

(* Inventory meets an order once: a request reserves before it writes. *)
StockInv(o) ==
  /\ lock.order = o \/ o \in late \/ o \in ended => ~Before(o)
  /\ lock.order = o => o \notin ended
  /\ o \in late => Past(o) /\ lock.order # o /\ o \notin ended
  /\ lock.order = o /\ ~lock.young => Past(o)
  /\ At(o, "insert") => lock.order = o /\ lock.young

(* What a request has read of the lock in its way stays true of it. *)
ReadInv(r) ==
  /\ call[r].at \in {"look", "orphan", "cancel", "free"} => call[r].other \in Order
  /\ At(r, "look") /\ call[r].old => Past(call[r].other)
  /\ At(r, "orphan") => call[call[r].other].at \in {"undo", "drop", "failed"}
  /\ At(r, "free") => status[call[r].other] = "CLOSED"

DraftInv ==
  /\ DraftTypeOK
  /\ lock # NoLock => lock.order \in Order
  /\ \A o \in Order : RecordInv(o) /\ StockInv(o) /\ ReadInv(o)
  /\ LockFitsDraft

-----------------------------------------------------------------------------
(* The inductive invariant: gateway and both together *)

(* A key is claimed as long as its handler works, and an order that was given *)
(* out is the one that is stored.                                             *)
KeyInv(r) ==
  /\ Working(r) => Owned(r)
  /\ Has(r) /\ keyOf[r] \notin unwritten => record[keyOf[r]] = Stored(answer[r])

(* An order that is named in an answer was opened. *)
AnswerInv ==
  /\ \A r \in Request : answer[r].kind = "done" => At(answer[r].of, "opened")
  /\ \A k \in Key, r \in Request :
       record[k] = Stored(Answer("done", r)) => At(r, "opened")

IInv == DraftInv /\ KeyTypeOK /\ (\A r \in Request : KeyInv(r)) /\ AnswerInv

-----------------------------------------------------------------------------
(* A step of a request *)

StepType == [at : Step, again : BOOLEAN, other : Order \cup {NoOrder}, old : BOOLEAN]

LEMMA GoesTo ==
  ASSUME NEW r \in Order, NEW step \in Step, DraftTypeOK, Goes(r, step)
  PROVE  /\ call' \in [Order -> StepType]
         /\ call'[r].at = step
         /\ \A o \in Order \ {r} : call'[o] = call[o]
  BY DEF DraftTypeOK, Goes, Idle, StepType, Step

LEMMA HandlesNow ==
  ASSUME NEW r \in Order, NEW step \in Step, NEW other \in Order \cup {NoOrder}, DraftTypeOK,
         Handles(r, step, other)
  PROVE  /\ call' \in [Order -> StepType]
         /\ call'[r].at = step /\ call'[r].other = other /\ call'[r].old = FALSE
         /\ \A o \in Order \ {r} : call'[o] = call[o]
  BY DEF DraftTypeOK, Handles, Idle, StepType, Step

LEMMA AsksAgain ==
  ASSUME NEW r \in Order, DraftTypeOK, Again(r)
  PROVE  /\ call' \in [Order -> StepType]
         /\ call'[r].at = "reserve"
         /\ \A o \in Order \ {r} : call'[o] = call[o]
  BY DEF DraftTypeOK, Again, Idle, StepType, Step

(* What a Release leaves of the stock, whatever becomes of it.               *)
Freed(o) ==
  /\ \/ lock' = lock /\ ended' = ended
     \/ lock.order = o /\ lock' = NoLock /\ ended' = ended \cup {o}
  /\ expired' = expired /\ late' = late

LEMMA ReleaseFrees ==
  ASSUME NEW o, NEW market, Release(o, market) \/ ReleaseFails(o, market)
  PROVE  Freed(o)
BY DEF Freed, Release, ReleaseFails, Unlock, stock

LEMMA FailuresAreCounted ==
  ASSUME DraftTypeOK, Fails
  PROVE  failures' \in 0 .. MaxFailures
BY FailuresAssumption DEF DraftTypeOK, Fails

(* The types of what a step writes.                                          *)
LockType == [order : Order \cup {NoOrder}, young : BOOLEAN]

LEMMA FreedTypeOK ==
  ASSUME NEW o \in Order, DraftTypeOK, Freed(o)
  PROVE  lock' \in LockType /\ ended' \subseteq Order /\ expired' \subseteq ended' /\ late' \subseteq Order
<1>1. NoLock \in LockType
  BY DEF NoLock, LockType
<1> QED BY <1>1 DEF DraftTypeOK, Freed, LockType

LEMMA ReservesKeeps ==
  ASSUME NEW r \in Order, DraftInv, Reserves(r)
  PROVE  DraftInv'
<1> USE DEF DraftInv, Reserves
<1>1. /\ call' \in [Order -> StepType] /\ call'[r].at = "insert"
      /\ \A o \in Order \ {r} : call'[o] = call[o]
  BY GoesTo DEF Step
<1>2. DraftTypeOK'
  BY <1>1 DEF DraftTypeOK, StepType, Lock
<1>3. ASSUME NEW o \in Order
      PROVE  RecordInv(o)' /\ StockInv(o)' /\ ReadInv(o)'
  BY <1>1, OrderAssumption DEF DraftTypeOK, RecordInv, StockInv, ReadInv, Before, Past, At,
       Lock, NoLock
<1>4. LockFitsDraft'
  BY <1>1, OrderAssumption DEF DraftTypeOK, LockFitsDraft, DraftKeepsStock, LockHasOwner,
       RecordInv, StockInv, Before, Past, At, Lock, NoLock
<1> QED BY <1>2, <1>3, <1>4 DEF Lock

LEMMA FindsTooLittleKeeps ==
  ASSUME NEW r \in Order, DraftInv, FindsTooLittle(r)
  PROVE  DraftInv'
<1> USE DEF DraftInv, FindsTooLittle, stock
<1>1. /\ call' \in [Order -> StepType] /\ call'[r].at = "refused"
      /\ \A o \in Order \ {r} : call'[o] = call[o]
  BY GoesTo DEF Step
<1>2. DraftTypeOK'
  BY <1>1 DEF DraftTypeOK, StepType, Status
<1>3. ASSUME NEW o \in Order
      PROVE  RecordInv(o)' /\ StockInv(o)' /\ ReadInv(o)'
  BY <1>1, OrderAssumption DEF DraftTypeOK, RecordInv, StockInv, ReadInv, Before, Past, At,
       NoLock
<1>4. LockFitsDraft'
  BY <1>1, OrderAssumption DEF DraftTypeOK, LockFitsDraft, DraftKeepsStock, LockHasOwner,
       RecordInv, StockInv, Before, Past, At, NoLock
<1> QED BY <1>2, <1>3, <1>4

LEMMA FindsLockKeeps ==
  ASSUME NEW r \in Order, DraftInv, FindsLock(r)
  PROVE  DraftInv'
<1> USE DEF DraftInv
<1>1. /\ call' \in [Order -> StepType]
      /\ \A o \in Order \ {r} : call'[o] = call[o]
      /\ \/ call'[r].at = "refused"
         \/ call'[r].at = "look" /\ call'[r].other = lock.order /\ call'[r].old = ~lock.young
  <2>1. CASE call[r].again
    BY <2>1, GoesTo DEF Step, FindsLock
  <2>2. CASE ~call[r].again
    <3>1. lock.order \in Order /\ lock.young \in BOOLEAN
      BY OrderAssumption DEF DraftTypeOK, FindsLock
    <3>2. /\ call' = [call EXCEPT ![r] = [at |-> "look", again |-> FALSE, other |-> lock.order,
                                        old |-> ~lock.young]]
          /\ call \in [Order -> StepType]
      BY <2>2 DEF Idle, FindsLock, DraftTypeOK, StepType
    <3>3. [at |-> "look", again |-> FALSE, other |-> lock.order, old |-> ~lock.young] \in StepType
      BY <3>1 DEF StepType, Step
    <3> QED BY <3>2, <3>3
  <2> QED BY <2>1, <2>2
<1>2. /\ At(r, "reserve") /\ lock.order \in Order \ {r}
      /\ UNCHANGED <<lock, ended, expired, late, status, stranded, failures>>
  BY DEF FindsLock, DraftTypeOK, stock
<1>3. DraftTypeOK'
  BY <1>1, <1>2 DEF DraftTypeOK, StepType
<1>4. ASSUME NEW o \in Order
      PROVE  RecordInv(o)' /\ StockInv(o)' /\ ReadInv(o)'
  <2>1. RecordInv(o)' /\ StockInv(o)'
    BY <1>1, <1>2 DEF RecordInv, StockInv, Before, Past, At
  <2>2. CASE o = r
    <3>1. ReadInv(o)'
      BY <1>1, <1>2, <2>2 DEF DraftTypeOK, StockInv, ReadInv, Past, At
    <3> QED BY <2>1, <3>1
  <2>3. CASE o # r
    <3>1. ReadInv(o)'
      BY <1>1, <1>2, <2>3 DEF ReadInv, Past, At
    <3> QED BY <2>1, <3>1
  <2> QED BY <2>2, <2>3
<1>5. LockFitsDraft'
  BY <1>1, <1>2 DEF LockFitsDraft, DraftKeepsStock, LockHasOwner, At
<1> QED BY <1>2, <1>3, <1>4, <1>5

(* What a request that waits for inventory does to the lock, late or not.    *)
LEMMA LosesReserveKeeps ==
  ASSUME NEW r \in Order, DraftInv, LosesReserve(r)
  PROVE  DraftInv'
<1> USE DEF DraftInv
<1>1. /\ call' \in [Order -> StepType] /\ call'[r].at = "undo"
      /\ \A o \in Order \ {r} : call'[o] = call[o]
  BY GoesTo DEF Step, LosesReserve
<1>2. /\ At(r, "reserve") /\ UNCHANGED <<ended, expired, status, stranded>>
      /\ failures' \in 0 .. MaxFailures
      /\ \/ lock = NoLock /\ lock' = [order |-> r, young |-> TRUE] /\ late' = late
         \/ lock' = lock /\ late' = late
         \/ lock' = lock /\ late' = late \cup {r}
  BY FailuresAreCounted DEF LosesReserve, Lock, stock
<1>3. DraftTypeOK'
  <2>1. [order |-> r, young |-> TRUE] \in LockType
    BY DEF LockType
  <2>2. lock' \in LockType /\ late' \subseteq Order
    BY <1>2, <2>1 DEF DraftTypeOK, LockType
  <2> QED BY <1>1, <1>2, <2>2 DEF DraftTypeOK, StepType, LockType
<1>4. ASSUME NEW o \in Order
      PROVE  RecordInv(o)' /\ StockInv(o)' /\ ReadInv(o)'
  <2>1. RecordInv(o)'
    BY <1>1, <1>2 DEF RecordInv, At
  <2>2. CASE o = r
    <3>1. StockInv(o)'
      BY <1>1, <1>2, <2>2 DEF StockInv, Before, Past, At
    <3>2. ReadInv(o)'
      BY <1>1, <2>2 DEF ReadInv, At
    <3> QED BY <2>1, <3>1, <3>2
  <2>3. CASE o # r
    <3>1. StockInv(o)'
      BY <1>1, <1>2, <2>3, OrderAssumption DEF StockInv, Before, Past, At, NoLock
    <3>2. ReadInv(o)'
      BY <1>1, <1>2, <2>3 DEF ReadInv, Past, At
    <3> QED BY <2>1, <3>1, <3>2
  <2> QED BY <2>2, <2>3
<1>5. LockFitsDraft'
  <2>1. DraftKeepsStock'
    BY <1>1, <1>2, OrderAssumption DEF LockFitsDraft, DraftKeepsStock, NoLock, At
  <2>2. LockHasOwner'
    BY <1>1, <1>2, OrderAssumption DEF DraftTypeOK, LockFitsDraft, LockHasOwner, NoLock, At
  <2> QED BY <2>1, <2>2 DEF LockFitsDraft
<1> QED BY <1>2, <1>3, <1>4, <1>5

LEMMA ReleasesKeeps ==
  ASSUME NEW r \in Order, DraftInv, Releases(r)
  PROVE  DraftInv'
<1> USE DEF DraftInv
<1>1. /\ call' \in [Order -> StepType] /\ call'[r].at = "failed"
      /\ \A o \in Order \ {r} : call'[o] = call[o]
  BY GoesTo DEF Step, Releases
<1>2. /\ Freed(r) /\ status' = status /\ call[r].at \in {"undo", "drop"}
      /\ \/ lock'.order # r /\ stranded' = stranded /\ failures' = failures
         \/ stranded' = stranded \cup {r} /\ failures' \in 0 .. MaxFailures
  <2>1. CASE Release(r, MarketOf(r)) /\ UNCHANGED <<stranded, failures>>
    BY <2>1, ReleaseFrees, OrderAssumption DEF Releases, Release, Unlock, NoLock, At
  <2>2. CASE ReleaseFails(r, MarketOf(r)) /\ stranded' = stranded \cup {r}
    BY <2>2, ReleaseFrees, FailuresAreCounted DEF Releases, ReleaseFails, At
  <2> QED BY <2>1, <2>2 DEF Releases
<1>3. DraftTypeOK'
  <2>1. stranded' \subseteq Order /\ failures' \in 0 .. MaxFailures
    BY <1>2 DEF DraftTypeOK
  <2> QED BY <1>1, <1>2, <2>1, FreedTypeOK DEF DraftTypeOK, StepType, LockType
<1>4. ASSUME NEW o \in Order
      PROVE  RecordInv(o)' /\ StockInv(o)' /\ ReadInv(o)'
  <2>1. RecordInv(o)'
    BY <1>1, <1>2 DEF RecordInv, At
  <2>2. CASE o = r
    <3>1. StockInv(o)'
      BY <1>1, <1>2, <2>2, OrderAssumption DEF StockInv, Before, Past, At, Freed, NoLock
    <3>2. ReadInv(o)'
      BY <1>1, <2>2 DEF ReadInv, At
    <3> QED BY <2>1, <3>1, <3>2
  <2>3. CASE o # r
    <3>1. StockInv(o)'
      BY <1>1, <1>2, <2>3, OrderAssumption DEF StockInv, Before, Past, At, Freed, NoLock
    <3>2. ReadInv(o)'
      BY <1>1, <1>2, <2>3 DEF ReadInv, Past, At
    <3> QED BY <2>1, <3>1, <3>2
  <2> QED BY <2>2, <2>3
<1>5. LockFitsDraft'
  <2>1. DraftKeepsStock'
    BY <1>1, <1>2, OrderAssumption DEF LockFitsDraft, DraftKeepsStock, NoLock, At, Freed
  <2>2. LockHasOwner'
    BY <1>1, <1>2, OrderAssumption DEF DraftTypeOK, LockFitsDraft, LockHasOwner, NoLock, At, Freed
  <2> QED BY <2>1, <2>2 DEF LockFitsDraft
<1> QED BY <1>2, <1>3, <1>4, <1>5 DEF Freed

LEMMA LookKeeps ==
  ASSUME NEW r \in Order, DraftInv, Look(r)
  PROVE  DraftInv'
<1> USE DEF DraftInv
<1>1. /\ call' \in [Order -> StepType]
      /\ \A o \in Order \ {r} : call'[o] = call[o]
      /\ At(r, "look") /\ UNCHANGED <<lock, ended, expired, late, status, stranded, failures>>
      /\ \/ call'[r].at = "refused"
         \/ /\ call'[r].other = call[r].other /\ call'[r].old = FALSE
            /\ \/ call'[r].at = "orphan" /\ status[call[r].other] = "none" /\ call[r].old
               \/ call'[r].at = "cancel"
               \/ call'[r].at = "free" /\ status[call[r].other] = "CLOSED"
  <2>0. At(r, "look") /\ UNCHANGED <<lock, ended, expired, late, status, stranded, failures>>
    BY DEF Look, stock
  <2>1. CASE NextOf(r) = "refused" /\ Goes(r, "refused")
    BY <2>0, <2>1, GoesTo DEF Step
  <2>2. CASE NextOf(r) # "refused" /\ Handles(r, NextOf(r), call[r].other)
    <3>1. NextOf(r) \in Step /\ call[r].other \in Order \cup {NoOrder}
      BY DEF NextOf, Step, DraftTypeOK
    <3>2. /\ call' \in [Order -> StepType]
          /\ call'[r].at = NextOf(r) /\ call'[r].other = call[r].other /\ call'[r].old = FALSE
          /\ \A o \in Order \ {r} : call'[o] = call[o]
      BY <2>2, <3>1, HandlesNow
    <3> QED BY <2>0, <2>2, <3>2 DEF NextOf
  <2> QED BY <2>1, <2>2 DEF Look
<1>2. DraftTypeOK'
  BY <1>1 DEF DraftTypeOK, StepType
<1>3. ASSUME NEW o \in Order
      PROVE  RecordInv(o)' /\ StockInv(o)' /\ ReadInv(o)'
  <2>1. RecordInv(o)' /\ StockInv(o)'
    BY <1>1 DEF RecordInv, StockInv, Before, Past, At
  <2>2. CASE o = r
    <3>1. ReadInv(o)'
      BY <1>1, <2>2 DEF RecordInv, ReadInv, Past, At
    <3> QED BY <2>1, <3>1
  <2>3. CASE o # r
    <3>1. ReadInv(o)'
      BY <1>1, <2>3 DEF ReadInv, Past, At
    <3> QED BY <2>1, <3>1
  <2> QED BY <2>2, <2>3
<1>4. LockFitsDraft'
  BY <1>1 DEF LockFitsDraft, DraftKeepsStock, LockHasOwner, At
<1> QED BY <1>1, <1>2, <1>3, <1>4

LEMMA FreesOrphanKeeps ==
  ASSUME NEW r \in Order, DraftInv, FreesOrphan(r)
  PROVE  DraftInv'
<1> USE DEF DraftInv
<1> DEFINE orphan == call[r].other
<1>1. At(r, "orphan") /\ orphan \in Order /\ call[orphan].at \in {"undo", "drop", "failed"}
  BY DEF FreesOrphan, ReadInv, At
<1>2. Freed(orphan) /\ UNCHANGED <<status, stranded>> /\ failures' \in 0 .. MaxFailures
  <2>1. CASE Release(orphan, MarketOf(r)) /\ UNCHANGED failures
    BY <2>1, ReleaseFrees DEF FreesOrphan, DraftTypeOK
  <2>2. CASE ReleaseFails(orphan, MarketOf(r))
    BY <2>2, ReleaseFrees, FailuresAreCounted DEF FreesOrphan, ReleaseFails
  <2> QED BY <2>1, <2>2 DEF FreesOrphan
<1>3. /\ call' \in [Order -> StepType] /\ call'[r].at \in {"reserve", "refused", "failed"}
      /\ \A o \in Order \ {r} : call'[o] = call[o]
  <2>1. CASE Again(r)
    BY <2>1, AsksAgain
  <2>2. CASE Goes(r, "refused")
    BY <2>2, GoesTo DEF Step
  <2>3. CASE Goes(r, "failed")
    BY <2>3, GoesTo DEF Step
  <2> QED BY <2>1, <2>2, <2>3 DEF FreesOrphan
<1> HIDE DEF orphan
<1>4. DraftTypeOK'
  BY <1>1, <1>2, <1>3, FreedTypeOK DEF DraftTypeOK, StepType, LockType
<1>5. ASSUME NEW o \in Order
      PROVE  RecordInv(o)' /\ StockInv(o)' /\ ReadInv(o)'
  <2>1. RecordInv(o)'
    BY <1>1, <1>2, <1>3 DEF RecordInv, At
  <2>2. StockInv(o)'
    <3>1. CASE o = r
      BY <1>1, <1>2, <1>3, <3>1, OrderAssumption DEF StockInv, Before, Past, At, Freed, NoLock
    <3>2. CASE o # r /\ o = orphan
      BY <1>1, <1>2, <1>3, <3>2, OrderAssumption DEF StockInv, Before, Past, At, Freed, NoLock
    <3>3. CASE o # r /\ o # orphan
      BY <1>1, <1>2, <1>3, <3>3, OrderAssumption DEF StockInv, Before, Past, At, Freed, NoLock
    <3> QED BY <3>1, <3>2, <3>3
  <2>3. ReadInv(o)'
    <3>1. CASE o = r
      BY <1>3, <3>1 DEF ReadInv, At
    <3>2. CASE o # r
      BY <1>1, <1>2, <1>3, <3>2 DEF ReadInv, Past, At
    <3> QED BY <3>1, <3>2
  <2> QED BY <2>1, <2>2, <2>3
<1>6. LockFitsDraft'
  <2>1. DraftKeepsStock'
    BY <1>1, <1>2, <1>3 DEF LockFitsDraft, DraftKeepsStock, At, Freed
  <2>2. LockHasOwner'
    BY <1>1, <1>2, <1>3 DEF LockFitsDraft, LockHasOwner, At, Freed
  <2> QED BY <2>1, <2>2 DEF LockFitsDraft
<1> QED BY <1>2, <1>4, <1>5, <1>6 DEF Freed

(* A draft is cancelled from DRAFT only, and by nobody's lock.               *)
LEMMA CancelsKeeps ==
  ASSUME NEW r \in Order, DraftInv, Cancels(r)
  PROVE  DraftInv'
<1> USE DEF DraftInv
<1> DEFINE previous == call[r].other
<1>1. /\ At(r, "cancel") /\ previous \in Order /\ status[previous] = "DRAFT"
      /\ status' = [status EXCEPT ![previous] = "CLOSED"]
      /\ UNCHANGED <<lock, ended, expired, late, stranded>>
  BY DEF Cancels, ReadInv, At, stock
<1>2. /\ call' \in [Order -> StepType]
      /\ \/ call'[r].at = "free" /\ call'[r].other = previous
         \/ call'[r].at = "failed"
      /\ \A o \in Order \ {r} : call'[o] = call[o]
      /\ failures' \in 0 .. MaxFailures
  <2>1. CASE Handles(r, "free", previous) /\ UNCHANGED failures
    <3>1. "free" \in Step /\ previous \in Order \cup {NoOrder}
      BY <1>1 DEF Step
    <3>2. failures' \in 0 .. MaxFailures
      BY <2>1 DEF DraftTypeOK
    <3> QED BY <2>1, <3>1, <3>2, HandlesNow
  <2>2. CASE Goes(r, "failed") /\ Fails
    BY <2>2, GoesTo, FailuresAreCounted DEF Step
  <2> QED BY <2>1, <2>2 DEF Cancels
<1> HIDE DEF previous
<1>3. DraftTypeOK'
  BY <1>1, <1>2 DEF DraftTypeOK, StepType, Status
<1>4. ASSUME NEW o \in Order
      PROVE  RecordInv(o)' /\ StockInv(o)' /\ ReadInv(o)'
  <2>0. status'[o] = IF o = previous THEN "CLOSED" ELSE status[o]
    BY <1>1 DEF DraftTypeOK
  <2>1. RecordInv(o)'
    <3>1. CASE o = r
      BY <1>1, <1>2, <2>0, <3>1 DEF RecordInv, At
    <3>2. CASE o # r
      BY <1>1, <1>2, <2>0, <3>2 DEF RecordInv, At
    <3> QED BY <3>1, <3>2
  <2>2. StockInv(o)'
    BY <1>1, <1>2 DEF StockInv, Before, Past, At
  <2>3. ReadInv(o)'
    <3>0. \A p \in Order : status[p] = "CLOSED" => status'[p] = "CLOSED"
      BY <1>1 DEF DraftTypeOK
    <3>1. CASE o = r
      BY <1>1, <1>2, <3>1 DEF ReadInv, At, DraftTypeOK
    <3>2. CASE o # r
      BY <1>1, <1>2, <3>0, <3>2 DEF ReadInv, Past, At
    <3> QED BY <3>1, <3>2
  <2> QED BY <2>1, <2>2, <2>3
<1>5. LockFitsDraft'
  <2>1. DraftKeepsStock'
    BY <1>1, <1>2 DEF LockFitsDraft, DraftKeepsStock, At, DraftTypeOK
  <2>2. LockHasOwner'
    <3>1. \A o \in Order : status'[o] = "none" => status[o] = "none"
      BY <1>1 DEF DraftTypeOK
    <3>2. call'[r].at \notin {"insert", "undo", "drop"} /\ call[r].at = "cancel"
      BY <1>1, <1>2 DEF At
    <3>3. CASE lock # NoLock /\ status'[lock.order] = "none"
      BY <1>1, <1>2, <3>1, <3>2, <3>3 DEF LockFitsDraft, LockHasOwner
    <3> QED BY <1>1, <3>3 DEF LockHasOwner
  <2> QED BY <2>1, <2>2 DEF LockFitsDraft
<1> QED BY <1>1, <1>3, <1>4, <1>5

LEMMA CancelFailsKeeps ==
  ASSUME NEW r \in Order, DraftInv, CancelFails(r)
  PROVE  DraftInv'
<1> USE DEF DraftInv
<1>1. At(r, "cancel") /\ UNCHANGED <<lock, ended, expired, late, status, stranded>>
  BY DEF CancelFails, stock
<1>2. /\ call' \in [Order -> StepType] /\ call'[r].at \in {"refused", "failed"}
      /\ \A o \in Order \ {r} : call'[o] = call[o]
      /\ failures' \in 0 .. MaxFailures
  <2>1. CASE Goes(r, "refused") /\ UNCHANGED failures
    BY <2>1, GoesTo DEF Step, DraftTypeOK
  <2>2. CASE Goes(r, "failed") /\ Fails
    BY <2>2, GoesTo, FailuresAreCounted DEF Step
  <2> QED BY <2>1, <2>2 DEF CancelFails
<1>3. DraftTypeOK'
  BY <1>1, <1>2 DEF DraftTypeOK, StepType
<1>4. ASSUME NEW o \in Order
      PROVE  RecordInv(o)' /\ StockInv(o)' /\ ReadInv(o)'
  <2>1. RecordInv(o)'
    BY <1>1, <1>2 DEF RecordInv, At
  <2>2. StockInv(o)'
    BY <1>1, <1>2 DEF StockInv, Before, Past, At
  <2>3. ReadInv(o)'
    <3>1. CASE o = r
      BY <1>2, <3>1 DEF ReadInv, At
    <3>2. CASE o # r
      BY <1>1, <1>2, <3>2 DEF ReadInv, Past, At
    <3> QED BY <3>1, <3>2
  <2> QED BY <2>1, <2>2, <2>3
<1>5. LockFitsDraft'
  BY <1>1, <1>2 DEF LockFitsDraft, DraftKeepsStock, LockHasOwner, At
<1> QED BY <1>1, <1>3, <1>4, <1>5

LEMMA FreesKeeps ==
  ASSUME NEW r \in Order, DraftInv, Frees(r)
  PROVE  DraftInv'
<1> USE DEF DraftInv
<1> DEFINE previous == call[r].other
<1>1. At(r, "free") /\ previous \in Order /\ status[previous] = "CLOSED"
  BY DEF Frees, ReadInv, At
<1>2. Freed(previous) /\ UNCHANGED <<status, stranded>> /\ failures' \in 0 .. MaxFailures
  <2>1. CASE Release(previous, MarketOf(previous)) /\ UNCHANGED failures
    BY <2>1, ReleaseFrees DEF Frees, DraftTypeOK
  <2>2. CASE ReleaseFails(previous, MarketOf(previous))
    BY <2>2, ReleaseFrees, FailuresAreCounted DEF Frees, ReleaseFails
  <2> QED BY <2>1, <2>2 DEF Frees
<1>3. /\ call' \in [Order -> StepType] /\ call'[r].at \in {"reserve", "failed"}
      /\ \A o \in Order \ {r} : call'[o] = call[o]
  <2>1. CASE Again(r)
    BY <2>1, AsksAgain
  <2>2. CASE Goes(r, "failed")
    BY <2>2, GoesTo DEF Step
  <2> QED BY <2>1, <2>2 DEF Frees
<1> HIDE DEF previous
<1>4. DraftTypeOK'
  BY <1>1, <1>2, <1>3, FreedTypeOK DEF DraftTypeOK, StepType, LockType
<1>5. ASSUME NEW o \in Order
      PROVE  RecordInv(o)' /\ StockInv(o)' /\ ReadInv(o)'
  <2>1. RecordInv(o)'
    BY <1>1, <1>2, <1>3 DEF RecordInv, At
  <2>2. StockInv(o)'
    <3>0. previous # r /\ ~At(previous, "insert")
      BY <1>1 DEF RecordInv, At
    <3>1. CASE o = r
      BY <1>1, <1>2, <1>3, <3>0, <3>1, OrderAssumption
      DEF StockInv, Before, Past, At, Freed, NoLock
    <3>2. CASE o # r
      <4>1. CASE lock' = lock /\ ended' = ended
        BY <1>2, <1>3, <3>2, <4>1 DEF StockInv, Before, Past, At, Freed
      <4>2. CASE lock.order = previous /\ lock' = NoLock /\ ended' = ended \cup {previous}
        BY <1>2, <1>3, <3>0, <3>2, <4>2, OrderAssumption
        DEF StockInv, Before, Past, At, Freed, NoLock
      <4> QED BY <1>2, <4>1, <4>2 DEF Freed
    <3> QED BY <3>1, <3>2
  <2>3. ReadInv(o)'
    <3>1. CASE o = r
      BY <1>3, <3>1 DEF ReadInv, At
    <3>2. CASE o # r
      BY <1>1, <1>2, <1>3, <3>2 DEF ReadInv, Past, At
    <3> QED BY <3>1, <3>2
  <2> QED BY <2>1, <2>2, <2>3
<1>6. LockFitsDraft'
  <2>1. DraftKeepsStock'
    BY <1>1, <1>2, <1>3 DEF LockFitsDraft, DraftKeepsStock, At, Freed
  <2>2. LockHasOwner'
    BY <1>1, <1>2, <1>3 DEF LockFitsDraft, LockHasOwner, At, Freed
  <2> QED BY <2>1, <2>2 DEF LockFitsDraft
<1> QED BY <1>2, <1>4, <1>5, <1>6 DEF Freed

LEMMA InsertKeeps ==
  ASSUME NEW r \in Order, DraftInv, Insert(r) \/ InsertFails(r)
  PROVE  DraftInv'
<1> USE DEF DraftInv
<1>1. /\ At(r, "insert") /\ UNCHANGED <<lock, ended, expired, late, stranded>>
      /\ failures' \in 0 .. MaxFailures
  <2>1. CASE Insert(r)
    BY <2>1 DEF Insert, stock, DraftTypeOK
  <2>2. CASE InsertFails(r)
    BY <2>2, FailuresAreCounted DEF InsertFails, stock
  <2> QED BY <2>1, <2>2
<1>2. /\ call' \in [Order -> StepType]
      /\ \A o \in Order \ {r} : call'[o] = call[o]
      /\ \/ status' = [status EXCEPT ![r] = "DRAFT"] /\ call'[r].at \in {"opened", "drop"}
         \/ status' = status /\ call'[r].at = "drop"
  BY GoesTo DEF Step, Insert, InsertFails
<1>3. status[r] = "none" /\ lock.order = r
  BY <1>1 DEF RecordInv, StockInv, At
<1>4. /\ status' \in [Order -> Status]
      /\ \A o \in Order \ {r} : status'[o] = status[o]
      /\ call'[r].at = "opened" => status'[r] = "DRAFT"
  BY <1>2 DEF DraftTypeOK, Status
<1>5. DraftTypeOK'
  BY <1>1, <1>2, <1>4 DEF DraftTypeOK, StepType
<1>6. ASSUME NEW o \in Order
      PROVE  RecordInv(o)' /\ StockInv(o)' /\ ReadInv(o)'
  <2>1. RecordInv(o)'
    <3>1. CASE o = r
      BY <1>2, <1>4, <3>1 DEF RecordInv, At
    <3>2. CASE o # r
      BY <1>2, <1>4, <3>2 DEF RecordInv, At
    <3> QED BY <3>1, <3>2
  <2>2. StockInv(o)'
    BY <1>1, <1>2 DEF StockInv, Before, Past, At
  <2>3. ReadInv(o)'
    <3>1. CASE o = r
      BY <1>2, <3>1 DEF ReadInv, At
    <3>2. CASE o # r
      BY <1>1, <1>2, <1>3, <1>4, <3>2 DEF ReadInv, Past, At
    <3> QED BY <3>1, <3>2
  <2> QED BY <2>1, <2>2, <2>3
<1>7. LockFitsDraft'
  <2>1. DraftKeepsStock'
    BY <1>1, <1>2, <1>3, <1>4 DEF LockFitsDraft, DraftKeepsStock, At
  <2>2. LockHasOwner'
    BY <1>1, <1>2, <1>3, <1>4 DEF LockHasOwner
  <2> QED BY <2>1, <2>2 DEF LockFitsDraft
<1> QED BY <1>1, <1>5, <1>6, <1>7

LEMMA BreaksOffKeeps ==
  ASSUME NEW r \in Order, DraftInv, BreaksOff(r)
  PROVE  DraftInv'
<1> USE DEF DraftInv
<1>1. /\ call[r].at \notin {"idle", "opened", "refused", "failed"}
      /\ UNCHANGED <<lock, ended, expired, late, status>> /\ stranded' = stranded \cup {r}
      /\ failures' \in 0 .. MaxFailures
  BY FailuresAreCounted DEF BreaksOff, Ended, stock
<1>2. /\ call' \in [Order -> StepType] /\ call'[r].at = "failed"
      /\ \A o \in Order \ {r} : call'[o] = call[o]
  BY GoesTo DEF Step, BreaksOff
<1>3. DraftTypeOK'
  BY <1>1, <1>2 DEF DraftTypeOK, StepType
<1>4. ASSUME NEW o \in Order
      PROVE  RecordInv(o)' /\ StockInv(o)' /\ ReadInv(o)'
  <2>1. RecordInv(o)'
    BY <1>1, <1>2 DEF RecordInv, At
  <2>2. StockInv(o)'
    <3>1. CASE o = r
      BY <1>1, <1>2, <3>1 DEF StockInv, Before, Past, At
    <3>2. CASE o # r
      BY <1>1, <1>2, <3>2 DEF StockInv, Before, Past, At
    <3> QED BY <3>1, <3>2
  <2>3. ReadInv(o)'
    <3>1. CASE o = r
      BY <1>2, <3>1 DEF ReadInv, At
    <3>2. CASE o # r
      BY <1>1, <1>2, <3>2 DEF ReadInv, Past, At
    <3> QED BY <3>1, <3>2
  <2> QED BY <2>1, <2>2, <2>3
<1>5. LockFitsDraft'
  <2>1. DraftKeepsStock'
    BY <1>1, <1>2 DEF LockFitsDraft, DraftKeepsStock, At
  <2>2. LockHasOwner'
    BY <1>1, <1>2 DEF LockFitsDraft, LockHasOwner
  <2> QED BY <2>1, <2>2 DEF LockFitsDraft
<1> QED BY <1>1, <1>3, <1>4, <1>5

LEMMA StartKeeps ==
  ASSUME NEW r \in Order, DraftInv, Start(r)
  PROVE  DraftInv'
<1> USE DEF DraftInv
<1>1. At(r, "idle") /\ UNCHANGED <<lock, ended, expired, late, status, stranded, failures>>
  BY DEF Start, stock
<1>2. /\ call' \in [Order -> StepType] /\ call'[r].at = "reserve"
      /\ \A o \in Order \ {r} : call'[o] = call[o]
  BY GoesTo DEF Step, Start
<1>3. DraftTypeOK'
  BY <1>1, <1>2 DEF DraftTypeOK, StepType
<1>4. ASSUME NEW o \in Order
      PROVE  RecordInv(o)' /\ StockInv(o)' /\ ReadInv(o)'
  <2>1. RecordInv(o)' /\ StockInv(o)'
    BY <1>1, <1>2 DEF RecordInv, StockInv, Before, Past, At
  <2>2. ReadInv(o)'
    <3>1. CASE o = r
      BY <1>2, <3>1 DEF ReadInv, At
    <3>2. CASE o # r
      BY <1>1, <1>2, <3>2 DEF ReadInv, Past, At
    <3> QED BY <3>1, <3>2
  <2> QED BY <2>1, <2>2
<1>5. LockFitsDraft'
  BY <1>1, <1>2 DEF LockFitsDraft, DraftKeepsStock, LockHasOwner, At
<1> QED BY <1>1, <1>3, <1>4, <1>5

-----------------------------------------------------------------------------
(* A step of the world around: inventory's own time, and the checkout        *)

LEMMA AgesKeeps ==
  ASSUME DraftInv, Ages
  PROVE  DraftInv'
<1> USE DEF DraftInv
<1>1. /\ lock # NoLock /\ lock.order \in Order /\ ~At(lock.order, "insert")
      /\ lock' = [lock EXCEPT !.young = FALSE]
      /\ UNCHANGED <<ended, expired, late, status, call, stranded, failures>>
  BY DEF Ages
<1>2. lock' \in LockType /\ lock'.order = lock.order
  BY <1>1 DEF DraftTypeOK, LockType
<1>3. DraftTypeOK'
  BY <1>1, <1>2 DEF DraftTypeOK, LockType
<1>4. ASSUME NEW o \in Order
      PROVE  RecordInv(o)' /\ StockInv(o)' /\ ReadInv(o)'
  <2>1. RecordInv(o)' /\ ReadInv(o)'
    BY <1>1 DEF RecordInv, ReadInv, Past, At
  <2>2. StockInv(o)'
    <3>1. lock.order = o => Past(o)
      BY <1>1 DEF StockInv, Before, Past, At, DraftTypeOK, Step
    <3> QED BY <1>1, <1>2, <3>1 DEF StockInv, Before, Past, At
  <2> QED BY <2>1, <2>2
<1>5. LockFitsDraft'
  BY <1>1, <1>2 DEF LockFitsDraft, DraftKeepsStock, LockHasOwner, At
<1> QED BY <1>1, <1>2, <1>3, <1>4, <1>5

(* A lock that is given up, sold or has run out: the draft may not keep it.  *)
LEMMA GivenUpKeeps ==
  ASSUME DraftInv, lock # NoLock, ~At(lock.order, "insert"),
         lock' = NoLock, ended' = ended \cup {lock.order},
         expired' \in {expired, expired \cup {lock.order}}, late' = late, call' = call,
         stranded' = stranded, failures' = failures,
         status' \in [Order -> Status],
         \A o \in Order : status'[o] # status[o] => o = lock.order /\ At(o, "opened"),
         \A o \in Order : status'[o] = "none" => status[o] = "none",
         \A o \in Order : status[o] = "CLOSED" => status'[o] = "CLOSED",
         \/ lock.order \in expired'
         \/ status'[lock.order] \notin {"DRAFT", "PLACING"}
  PROVE  DraftInv'
<1> USE DEF DraftInv
<1>1. lock.order \in Order /\ NoOrder \notin Order
  BY OrderAssumption
<1>2. DraftTypeOK'
  <2>1. NoLock \in LockType
    BY DEF NoLock, LockType
  <2>2. ended' \subseteq Order /\ expired' \subseteq ended'
    BY <1>1 DEF DraftTypeOK
  <2> QED BY <2>1, <2>2 DEF DraftTypeOK, LockType
<1>3. ASSUME NEW o \in Order
      PROVE  RecordInv(o)' /\ StockInv(o)' /\ ReadInv(o)'
  <2>1. RecordInv(o)'
    BY DEF RecordInv, At
  <2>2. StockInv(o)'
    BY <1>1 DEF StockInv, Before, Past, At, NoLock
  <2>3. ReadInv(o)'
    BY DEF ReadInv, Past, At
  <2> QED BY <2>1, <2>2, <2>3
<1>4. LockFitsDraft'
  <2>1. DraftKeepsStock'
    BY DEF LockFitsDraft, DraftKeepsStock, At
  <2> QED BY <2>1 DEF LockFitsDraft, LockHasOwner
<1> QED BY <1>2, <1>3, <1>4

LEMMA ExpiresKeeps ==
  ASSUME DraftInv, Expires
  PROVE  DraftInv'
<1>1. lock # NoLock /\ lock.order \in Order /\ ~At(lock.order, "insert")
  BY DEF DraftInv, Expires, StockInv
<1>2. /\ lock' = NoLock /\ ended' = ended \cup {lock.order}
      /\ expired' = expired \cup {lock.order}
      /\ UNCHANGED <<late, status, call, stranded, failures>>
  BY DEF Expires, Unlock
<1> QED BY <1>1, <1>2, GivenUpKeeps DEF DraftInv, DraftTypeOK

LEMMA LetsGoKeeps ==
  ASSUME NEW o \in Order, DraftInv, LetsGo(o)
  PROVE  DraftInv'
<1>1. lock # NoLock /\ lock.order = o /\ status[o] = "CLOSED"
  BY OrderAssumption DEF LetsGo, NoLock
<1>2. ~At(lock.order, "insert")
  BY <1>1 DEF DraftInv, RecordInv, At
<1>3. /\ lock' = NoLock /\ ended' = ended \cup {lock.order}
      /\ UNCHANGED <<expired, late, status, call, stranded, failures>>
  BY <1>1 DEF LetsGo, Unlock
<1> QED BY <1>1, <1>2, <1>3, GivenUpKeeps DEF DraftInv, DraftTypeOK

LEMMA PayKeeps ==
  ASSUME NEW o \in Order, DraftInv, Pay(o)
  PROVE  DraftInv'
<1>1. /\ lock # NoLock /\ lock.order = o /\ At(o, "opened") /\ status[o] = "PLACING"
      /\ status' = [status EXCEPT ![o] = "PAID"]
      /\ UNCHANGED <<expired, late, call, stranded, failures>>
      /\ lock' = NoLock /\ ended' = ended \cup {lock.order}
  BY OrderAssumption DEF Pay, Moves, NoLock, Unlock
<1>2. /\ status' \in [Order -> Status] /\ status'[o] = "PAID"
      /\ \A p \in Order : p # o => status'[p] = status[p]
  BY <1>1 DEF DraftInv, DraftTypeOK, Status
<1>3. ~At(lock.order, "insert")
  BY <1>1 DEF At
<1> QED BY <1>1, <1>2, <1>3, GivenUpKeeps

(* The checkout writes the record and leaves the lock: Place and Close.      *)
LEMMA MovesKeeps ==
  ASSUME NEW o \in Order, DraftInv, Place(o) \/ Close(o)
  PROVE  DraftInv'
<1> USE DEF DraftInv
<1>1. /\ At(o, "opened") /\ status[o] \in {"DRAFT", "PLACING"}
      /\ UNCHANGED <<lock, ended, expired, late, call, stranded, failures>>
      /\ \/ status' = [status EXCEPT ![o] = "PLACING"]
         \/ status' = [status EXCEPT ![o] = "CLOSED"]
  BY DEF Place, Close, Moves, stock
<1>2. /\ status' \in [Order -> Status] /\ status'[o] \in {"PLACING", "CLOSED"}
      /\ \A p \in Order : p # o => status'[p] = status[p]
  BY <1>1 DEF DraftTypeOK, Status
<1>3. DraftTypeOK'
  BY <1>1, <1>2 DEF DraftTypeOK
<1>4. ASSUME NEW p \in Order
      PROVE  RecordInv(p)' /\ StockInv(p)' /\ ReadInv(p)'
  <2>1. RecordInv(p)'
    BY <1>1, <1>2 DEF RecordInv, At
  <2>2. StockInv(p)'
    BY <1>1 DEF StockInv, Before, Past, At
  <2>3. ReadInv(p)'
    BY <1>1, <1>2 DEF ReadInv, Past, At
  <2> QED BY <2>1, <2>2, <2>3
<1>5. LockFitsDraft'
  <2>1. DraftKeepsStock'
    BY <1>1, <1>2 DEF LockFitsDraft, DraftKeepsStock, At
  <2>2. LockHasOwner'
    BY <1>1, <1>2 DEF LockFitsDraft, LockHasOwner
  <2> QED BY <2>1, <2>2 DEF LockFitsDraft
<1> QED BY <1>1, <1>3, <1>4, <1>5

LEMMA ReservesLateKeeps ==
  ASSUME NEW o \in Order, DraftInv, ReservesLate(o)
  PROVE  DraftInv'
<1> USE DEF DraftInv
<1>1. /\ o \in late /\ late' = late \ {o}
      /\ UNCHANGED <<ended, expired, status, call, failures>>
      /\ \/ /\ lock = NoLock /\ lock' = [order |-> o, young |-> TRUE]
            /\ stranded' = stranded \cup {o}
         \/ lock' = lock /\ stranded' = stranded
  BY DEF ReservesLate, Lock
<1>2. DraftTypeOK'
  <2>1. [order |-> o, young |-> TRUE] \in LockType
    BY DEF LockType
  <2>2. lock' \in LockType /\ late' \subseteq Order /\ stranded' \subseteq Order
    BY <1>1, <2>1 DEF DraftTypeOK, LockType
  <2> QED BY <1>1, <2>2 DEF DraftTypeOK, LockType
<1>3. Past(o) /\ o \notin ended
  BY <1>1 DEF StockInv
<1>4. ASSUME NEW p \in Order
      PROVE  RecordInv(p)' /\ StockInv(p)' /\ ReadInv(p)'
  <2>1. RecordInv(p)' /\ ReadInv(p)'
    BY <1>1 DEF RecordInv, ReadInv, Past, At
  <2>2. StockInv(p)'
    BY <1>1, <1>3, OrderAssumption DEF StockInv, Before, Past, At, NoLock
  <2> QED BY <2>1, <2>2
<1>5. LockFitsDraft'
  <2>1. DraftKeepsStock'
    BY <1>1, OrderAssumption DEF LockFitsDraft, DraftKeepsStock, NoLock, At
  <2>2. LockHasOwner'
    BY <1>1 DEF LockFitsDraft, LockHasOwner
  <2> QED BY <2>1, <2>2 DEF LockFitsDraft
<1> QED BY <1>1, <1>2, <1>4, <1>5

-----------------------------------------------------------------------------
(* Order-service as a whole                                                  *)

LEMMA DraftInitially ==
  ASSUME DraftInit
  PROVE  DraftInv
<1> USE DEF DraftInit
<1>1. DraftTypeOK
  <2>1. NoLock \in LockType /\ Idle \in StepType /\ "none" \in Status
    BY DEF NoLock, LockType, Idle, StepType, Step, Status
  <2> QED BY <2>1, FailuresAssumption DEF DraftTypeOK, LockType, StepType
<1>2. ASSUME NEW o \in Order
      PROVE  RecordInv(o) /\ StockInv(o) /\ ReadInv(o)
  BY OrderAssumption DEF RecordInv, StockInv, ReadInv, Before, Past, At, Idle, NoLock
<1>3. LockFitsDraft
  BY DEF LockFitsDraft, DraftKeepsStock, LockHasOwner, At, Idle
<1> QED BY <1>1, <1>2, <1>3 DEF DraftInv

LEMMA DraftStutter ==
  ASSUME DraftInv, UNCHANGED draftVars
  PROVE  DraftInv'
BY DEF DraftInv, DraftTypeOK, RecordInv, StockInv, ReadInv, Before, Past, At, LockFitsDraft,
       DraftKeepsStock, LockHasOwner, draftVars, stock

LEMMA WorksKeeps ==
  ASSUME NEW r \in Order, DraftInv, Works(r)
  PROVE  DraftInv'
BY ReservesKeeps, FindsTooLittleKeeps, FindsLockKeeps, LosesReserveKeeps, ReleasesKeeps,
   LookKeeps, FreesOrphanKeeps, CancelsKeeps, CancelFailsKeeps, FreesKeeps, InsertKeeps,
   BreaksOffKeeps DEF Works

LEMMA ElsewhereKeeps ==
  ASSUME DraftInv, Elsewhere
  PROVE  DraftInv'
BY AgesKeeps, ExpiresKeeps, ReservesLateKeeps, MovesKeeps, PayKeeps, LetsGoKeeps DEF Elsewhere

(* An order that was opened stays with its request: nothing is undone for it. *)
LEMMA OpenedStays ==
  ASSUME DraftInv, \/ UNCHANGED draftVars \/ Elsewhere
                   \/ \E r \in Order : Start(r) \/ Works(r)
  PROVE  \A o \in Order : At(o, "opened") => At(o, "opened")'
<1>1. CASE UNCHANGED draftVars
  BY <1>1 DEF draftVars, At
<1>2. CASE Elsewhere
  <2>1. call' = call
    BY <1>2 DEF Elsewhere, Ages, Expires, ReservesLate, Place, Pay, Close, LetsGo, Moves
  <2> QED BY <2>1 DEF At
<1>3. ASSUME NEW r \in Order, Start(r) \/ Works(r)
      PROVE  ~At(r, "opened") /\ \A o \in Order \ {r} : call'[o] = call[o]
  <2>1. ~At(r, "opened")
    BY <1>3 DEF Start, Works, Reserves, FindsTooLittle, FindsLock, LosesReserve, Releases, Look,
         FreesOrphan, Cancels, CancelFails, Frees, Insert, InsertFails, BreaksOff, Ended, At
  <2>2. call \in [Order -> StepType] /\ \E c : call' = [call EXCEPT ![r] = c]
    <3>1. call \in [Order -> StepType]
      BY DEF DraftInv, DraftTypeOK, StepType
    <3>2. \E c : call' = [call EXCEPT ![r] = c]
      BY <1>3 DEF Start, Works, Reserves, FindsTooLittle, FindsLock, LosesReserve, Releases,
           Look, FreesOrphan, Cancels, CancelFails, Frees, Insert, InsertFails, BreaksOff,
           Goes, Handles, Again
    <3> QED BY <3>1, <3>2
  <2> QED BY <2>1, <2>2
<1> QED BY <1>1, <1>2, <1>3 DEF At

-----------------------------------------------------------------------------
(* A step of the gateway                                                     *)

RecordType == {Free} \cup {Claimed(r) : r \in Request}
                \cup {Stored(Answer(kind, r)) : kind \in Kind, r \in Request}
AnswerType == [kind : Kind, of : Request]

GatewayInv == KeyTypeOK /\ \A r \in Request : KeyInv(r)

LEMMA RecordsDiffer ==
  /\ Free.state = "free"
  /\ \A r : Claimed(r).state = "in-progress" /\ Claimed(r).by = r
  /\ \A a : Stored(a).state = "done" /\ Stored(a).answer = a
BY DEF Free, Claimed, Stored

LEMMA AnswersAreTyped ==
  ASSUME NEW kind \in Kind, NEW r \in Request
  PROVE  /\ Answer(kind, r) \in AnswerType
         /\ Answer(kind, r).kind = kind /\ Answer(kind, r).of = r
BY DEF Answer, AnswerType

LEMMA StoredIsTyped ==
  ASSUME NEW a \in AnswerType
  PROVE  Stored(a) \in RecordType
<1>1. a = Answer(a.kind, a.of) /\ a.kind \in Kind /\ a.of \in Request
  BY DEF AnswerType, Answer
<1> QED BY <1>1 DEF RecordType

LEMMA RecordIsOneOfThree ==
  ASSUME NEW x \in RecordType
  PROVE  \/ x = Free
         \/ \E r \in Request : x = Claimed(r)
         \/ \E a \in AnswerType : x = Stored(a)
<1>1. CASE x \in {Stored(Answer(kind, r)) : kind \in Kind, r \in Request}
  BY <1>1, AnswersAreTyped
<1> QED BY <1>1 DEF RecordType

(* What any step of the gateway for request r does: its own phase and answer, *)
(* and the record of its key.                                                 *)
LEMMA GatewayStepKeeps ==
  ASSUME GatewayInv, NEW r \in Request, NEW phase \in Phase, NEW a \in AnswerType,
         NEW x \in RecordType,
         keyOf' = keyOf, record' = [record EXCEPT ![keyOf[r]] = x],
         http' = [http EXCEPT ![r] = phase], answer' = [answer EXCEPT ![r] = a],
         unwritten' = unwritten \/ unwritten' = unwritten \cup {keyOf[r]},
         troubles' \in 0 .. MaxTroubles,
         phase \in {"running", "finishing"} => x = Claimed(r),
         phase = "over" /\ a.kind = "done" /\ keyOf[r] \notin unwritten' => x = Stored(a),
         x # record[keyOf[r]] => record[keyOf[r]] \in {Free, Claimed(r)}
  PROVE  GatewayInv'
<1> USE DEF GatewayInv
<1>1. KeyTypeOK'
  <2>1. /\ keyOf[r] \in Key /\ record \in [Key -> RecordType] /\ answer \in [Request -> AnswerType]
    BY DEF KeyTypeOK, RecordType, AnswerType
  <2>2. record' \in [Key -> RecordType] /\ answer' \in [Request -> AnswerType]
    BY <2>1
  <2> QED BY <2>1, <2>2 DEF KeyTypeOK, RecordType, AnswerType
<1>2. ASSUME NEW s \in Request
      PROVE  KeyInv(s)'
  <2>1. /\ keyOf[s] \in Key /\ http'[s] = (IF s = r THEN phase ELSE http[s])
        /\ answer'[s] = (IF s = r THEN a ELSE answer[s])
        /\ record'[keyOf[s]] = (IF keyOf[s] = keyOf[r] THEN x ELSE record[keyOf[s]])
    BY DEF KeyTypeOK
  <2>2. CASE s = r
    BY <2>1, <2>2 DEF KeyInv, Working, Owned, Has, In
  <2>3. CASE s # r
    <3>1. record[keyOf[s]] \notin {Free, Claimed(r)} => record'[keyOf[s]] = record[keyOf[s]]
      BY <2>1
    <3>2. Claimed(s) \notin {Free, Claimed(r)} /\ \A b : Stored(b) \notin {Free, Claimed(r)}
      BY <2>3, RecordsDiffer
    <3> QED BY <2>1, <2>3, <3>1, <3>2 DEF KeyInv, Working, Owned, Has, In
  <2> QED BY <2>2, <2>3
<1> QED BY <1>1, <1>2

(* A step that leaves a part as it was writes what was there.                *)
LEMMA SameAgain ==
  ASSUME GatewayInv, NEW r \in Request
  PROVE  /\ keyOf[r] \in Key /\ record[keyOf[r]] \in RecordType
         /\ answer[r] \in AnswerType
         /\ record = [record EXCEPT ![keyOf[r]] = record[keyOf[r]]]
         /\ answer = [answer EXCEPT ![r] = answer[r]]
         /\ Free \in RecordType /\ Claimed(r) \in RecordType
         /\ Answer("failed", r) \in AnswerType /\ Answer("failed", r).kind = "failed"
<1>1. /\ keyOf \in [Request -> Key] /\ record \in [Key -> RecordType]
      /\ answer \in [Request -> AnswerType]
  BY DEF GatewayInv, KeyTypeOK, RecordType, AnswerType
<1>2. Free \in RecordType /\ Claimed(r) \in RecordType
  BY DEF RecordType
<1> QED BY <1>1, <1>2, AnswersAreTyped DEF Kind

LEMMA TroublesAreCounted ==
  ASSUME KeyTypeOK, Trouble
  PROVE  troubles' \in 0 .. MaxTroubles
BY TroublesAssumption DEF KeyTypeOK, Trouble

LEMMA ClaimKeeps ==
  ASSUME NEW r \in Request, GatewayInv, Claim(r)
  PROVE  GatewayInv'
<1>1. /\ record[keyOf[r]] = Free /\ record' = [record EXCEPT ![keyOf[r]] = Claimed(r)]
      /\ http' = [http EXCEPT ![r] = "running"]
      /\ UNCHANGED <<keyOf, answer, unwritten, troubles>>
  BY DEF Claim, Enters
<1>2. "running" \in Phase /\ troubles' \in 0 .. MaxTroubles
  BY <1>1 DEF Phase, GatewayInv, KeyTypeOK
<1>3. /\ Claimed(r) \in RecordType
      /\ answer[r] \in AnswerType /\ answer' = [answer EXCEPT ![r] = answer[r]]
  BY <1>1, SameAgain
<1> QED BY <1>1, <1>2, <1>3, GatewayStepKeeps

LEMMA ClaimFailsKeeps ==
  ASSUME NEW r \in Request, GatewayInv, ClaimFails(r)
  PROVE  GatewayInv'
<1>1. /\ http' = [http EXCEPT ![r] = "over"]
      /\ answer' = [answer EXCEPT ![r] = Answer("failed", r)]
      /\ UNCHANGED <<keyOf, unwritten>> /\ troubles' \in 0 .. MaxTroubles
      /\ "over" \in Phase
  BY TroublesAreCounted DEF ClaimFails, Answered, Enters, Phase, GatewayInv
<1>2. CASE UNCHANGED record
  <2>1. /\ record[keyOf[r]] \in RecordType
        /\ record' = [record EXCEPT ![keyOf[r]] = record[keyOf[r]]]
        /\ Answer("failed", r) \in AnswerType /\ Answer("failed", r).kind = "failed"
    BY <1>2, SameAgain
  <2> QED BY <1>1, <2>1, GatewayStepKeeps
<1>3. CASE record[keyOf[r]] = Free /\ record' = [record EXCEPT ![keyOf[r]] = Claimed(r)]
  <2>1. /\ Claimed(r) \in RecordType
        /\ Answer("failed", r) \in AnswerType /\ Answer("failed", r).kind = "failed"
    BY SameAgain
  <2> QED BY <1>1, <1>3, <2>1, GatewayStepKeeps
<1> QED BY <1>2, <1>3 DEF ClaimFails

(* The answer that is given again is the stored one.                         *)
LEMMA RepeatsAnswers ==
  ASSUME NEW r \in Request, GatewayInv, Repeats(r)
  PROVE  \E a \in AnswerType : /\ answer' = [answer EXCEPT ![r] = a]
                               /\ a.kind = "done" => record[keyOf[r]] = Stored(a)
<1> DEFINE held == record[keyOf[r]]
<1>1. CASE answer' = [answer EXCEPT ![r] = Answer("failed", r)]
  BY <1>1, SameAgain
<1>2. CASE held.state = "done" /\ answer' = [answer EXCEPT ![r] = held.answer]
  <2>1. PICK a \in AnswerType : held = Stored(a)
    BY <1>2, SameAgain, RecordIsOneOfThree, RecordsDiffer
  <2>2. held.answer = a
    BY <2>1, RecordsDiffer
  <2> QED BY <1>2, <2>1, <2>2
<1> QED BY <1>1, <1>2 DEF Repeats, Answered

LEMMA RepeatsKeeps ==
  ASSUME NEW r \in Request, GatewayInv, Repeats(r)
  PROVE  GatewayInv'
<1>1. /\ http' = [http EXCEPT ![r] = "over"] /\ UNCHANGED <<keyOf, record, unwritten, troubles>>
      /\ "over" \in Phase /\ troubles' \in 0 .. MaxTroubles
  BY DEF Repeats, Answered, Enters, Phase, GatewayInv, KeyTypeOK
<1>2. PICK a \in AnswerType : /\ answer' = [answer EXCEPT ![r] = a]
                              /\ a.kind = "done" => record[keyOf[r]] = Stored(a)
  BY RepeatsAnswers
<1>3. /\ record[keyOf[r]] \in RecordType
      /\ record' = [record EXCEPT ![keyOf[r]] = record[keyOf[r]]]
  BY <1>1, SameAgain
<1> QED BY <1>1, <1>2, <1>3, GatewayStepKeeps

LEMMA HandlerEndsKeeps ==
  ASSUME NEW r \in Request, NEW a \in AnswerType, GatewayInv, HandlerEnds(r, a)
  PROVE  GatewayInv'
<1>1. /\ http' = [http EXCEPT ![r] = "finishing"] /\ answer' = [answer EXCEPT ![r] = a]
      /\ UNCHANGED <<keyOf, record, unwritten, troubles>>
      /\ "finishing" \in Phase /\ troubles' \in 0 .. MaxTroubles
  BY DEF HandlerEnds, Enters, Phase, GatewayInv, KeyTypeOK
<1>2. record[keyOf[r]] = Claimed(r)
  BY DEF HandlerEnds, GatewayInv, KeyInv, Working, Owned, In
<1>3. /\ record[keyOf[r]] \in RecordType
      /\ record' = [record EXCEPT ![keyOf[r]] = record[keyOf[r]]]
  BY <1>1, SameAgain
<1> QED BY <1>1, <1>2, <1>3, GatewayStepKeeps

LEMMA FinishKeeps ==
  ASSUME NEW r \in Request, GatewayInv, Finish(r)
  PROVE  GatewayInv'
<1>1. record[keyOf[r]] = Claimed(r)
  BY DEF Finish, GatewayInv, KeyInv, Working, Owned, In
<1>2. /\ http' = [http EXCEPT ![r] = "over"] /\ record' = [record EXCEPT ![keyOf[r]] = Kept(r)]
      /\ UNCHANGED <<keyOf, answer, unwritten, troubles>>
      /\ "over" \in Phase /\ troubles' \in 0 .. MaxTroubles
  BY <1>1 DEF Finish, Finished, Owned, Enters, Phase, GatewayInv, KeyTypeOK
<1>3. Kept(r) \in RecordType /\ (answer[r].kind = "done" => Kept(r) = Stored(answer[r]))
  BY SameAgain, StoredIsTyped DEF Kept, Storable
<1>4. answer[r] \in AnswerType /\ answer' = [answer EXCEPT ![r] = answer[r]]
  BY <1>2, SameAgain
<1> QED BY <1>1, <1>2, <1>3, <1>4, GatewayStepKeeps

LEMMA FinishFailsKeeps ==
  ASSUME NEW r \in Request, GatewayInv, FinishFails(r)
  PROVE  GatewayInv'
<1>1. /\ http' = [http EXCEPT ![r] = "over"] /\ UNCHANGED <<keyOf, answer>>
      /\ troubles' \in 0 .. MaxTroubles /\ "over" \in Phase
  BY TroublesAreCounted DEF FinishFails, Enters, Phase, GatewayInv
<1>2. /\ record[keyOf[r]] = Claimed(r)
      /\ record[keyOf[r]] \in RecordType
      /\ answer[r] \in AnswerType /\ answer' = [answer EXCEPT ![r] = answer[r]]
      /\ record = [record EXCEPT ![keyOf[r]] = record[keyOf[r]]]
  BY <1>1, SameAgain DEF FinishFails, GatewayInv, KeyInv, Working, Owned, In
<1>3. CASE record' = Finished(r) /\ unwritten' = unwritten
  <2>1. record' = [record EXCEPT ![keyOf[r]] = Kept(r)]
    BY <1>2, <1>3 DEF Finished, Owned
  <2>2. Kept(r) \in RecordType /\ (answer[r].kind = "done" => Kept(r) = Stored(answer[r]))
    BY SameAgain, StoredIsTyped DEF Kept, Storable
  <2> QED BY <1>1, <1>2, <1>3, <2>1, <2>2, GatewayStepKeeps
<1>4. CASE record' = record /\ unwritten' = unwritten \cup {keyOf[r]}
  <2>1. record' = [record EXCEPT ![keyOf[r]] = record[keyOf[r]]] /\ keyOf[r] \in unwritten'
    BY <1>2, <1>4
  <2> QED BY <1>1, <1>2, <1>4, <2>1, GatewayStepKeeps
<1> QED BY <1>3, <1>4 DEF FinishFails

LEMMA GatewayDiesKeeps ==
  ASSUME NEW r \in Request, GatewayInv, GatewayDies(r)
  PROVE  GatewayInv'
<1>1. /\ http' = [http EXCEPT ![r] = "over"] /\ UNCHANGED <<keyOf, record, unwritten>>
      /\ answer' = [answer EXCEPT ![r] = Answer("failed", r)]
      /\ troubles' \in 0 .. MaxTroubles /\ "over" \in Phase
  BY TroublesAreCounted DEF GatewayDies, Answered, Enters, Phase, GatewayInv
<1>2. /\ record[keyOf[r]] \in RecordType
      /\ record' = [record EXCEPT ![keyOf[r]] = record[keyOf[r]]]
      /\ Answer("failed", r) \in AnswerType /\ Answer("failed", r).kind = "failed"
  BY <1>1, SameAgain
<1> QED BY <1>1, <1>2, GatewayStepKeeps

LEMMA ClaimExpiresKeeps ==
  ASSUME NEW k \in Key, GatewayInv, ClaimExpires(k)
  PROVE  GatewayInv'
<1> USE DEF GatewayInv
<1>1. PICK r \in Request : record[k] = Claimed(r)
  <2>1. record[k] \in RecordType /\ record[k].state = "in-progress"
    BY DEF KeyTypeOK, RecordType, ClaimExpires
  <2> QED BY <2>1, RecordIsOneOfThree, RecordsDiffer
<1>2. record' = [record EXCEPT ![k] = Free] /\ UNCHANGED <<keyOf, http, answer, unwritten, troubles>>
      /\ ~Working(r)
  BY <1>1, RecordsDiffer DEF ClaimExpires
<1>3. KeyTypeOK'
  BY <1>2 DEF KeyTypeOK
<1>4. ASSUME NEW s \in Request
      PROVE  KeyInv(s)'
  <2>1. record[k] # Claimed(s) \/ ~Working(s)
    BY <1>1, <1>2, RecordsDiffer
  <2>2. \A b : record[k] # Stored(b)
    BY <1>1, RecordsDiffer
  <2>3. keyOf[s] \in Key /\ \A l \in Key : l # k => record'[l] = record[l]
    BY <1>2 DEF KeyTypeOK
  <2> QED BY <1>2, <2>1, <2>2, <2>3 DEF KeyInv, Working, Owned, Has, In
<1> QED BY <1>3, <1>4

LEMMA GatewayStutter ==
  ASSUME GatewayInv, UNCHANGED keyVars
  PROVE  GatewayInv'
BY DEF GatewayInv, KeyTypeOK, KeyInv, Working, Owned, Has, In, keyVars

LEMMA GuardsKeeps ==
  ASSUME NEW r \in Request, GatewayInv, Guards(r)
  PROVE  GatewayInv'
BY ClaimFailsKeeps, RepeatsKeeps, FinishKeeps, FinishFailsKeeps, GatewayDiesKeeps DEF Guards

LEMMA GatewayInitially ==
  ASSUME KeyInit
  PROVE  GatewayInv
<1>1. KeyTypeOK
  <2>1. \A r \in Request : NoAnswer(r) \in AnswerType
    BY DEF NoAnswer, AnswerType, Kind
  <2> QED BY <2>1, CarriedAssumption, TroublesAssumption DEF KeyInit, KeyTypeOK, AnswerType, Phase
<1>2. ASSUME NEW r \in Request
      PROVE  KeyInv(r)
  BY DEF KeyInit, KeyInv, Working, Has, In
<1> QED BY <1>1, <1>2 DEF GatewayInv

-----------------------------------------------------------------------------
(* Both together                                                             *)

(* No step of the gateway but the return of a handler makes a positive answer; *)
(* every other one was given, or is stored.                                    *)
LEMMA AnswersAreHandedOn ==
  ASSUME NEW r \in Request, GatewayInv, AnswerInv, Guards(r)
  PROVE  /\ \A s \in Request : answer'[s].kind = "done" => At(answer'[s].of, "opened")
         /\ \A k \in Key, s \in Request :
              record'[k] = Stored(Answer("done", s)) => At(s, "opened")
<1>0. /\ answer \in [Request -> AnswerType] /\ record \in [Key -> RecordType]
      /\ Answer("failed", r).kind = "failed"
      /\ \A s \in Request : Answer("done", s).kind = "done" /\ Answer("done", s).of = s
  <2>1. answer \in [Request -> AnswerType] /\ record \in [Key -> RecordType]
    BY DEF GatewayInv, KeyTypeOK, AnswerType, RecordType
  <2>2. \A kind, s : Answer(kind, s).kind = kind /\ Answer(kind, s).of = s
    BY DEF Answer
  <2> QED BY <2>1, <2>2
<1>1. CASE /\ record' = record \/ record' = [record EXCEPT ![keyOf[r]] = Claimed(r)]
           /\ answer' = answer \/ answer' = [answer EXCEPT ![r] = Answer("failed", r)]
  <2>1. \A s \in Request : answer'[s] \in {answer[s], Answer("failed", r)}
    BY <1>0, <1>1
  <2>2. \A k \in Key : record'[k] \in {record[k], Claimed(r)}
    BY <1>0, <1>1
  <2>3. \A b : Claimed(r) # Stored(b)
    BY RecordsDiffer
  <2> QED BY <1>0, <2>1, <2>2, <2>3 DEF AnswerInv
<1>2. CASE Repeats(r)
  <2>1. PICK a \in AnswerType : /\ answer' = [answer EXCEPT ![r] = a]
                                /\ a.kind = "done" => record[keyOf[r]] = Stored(a)
    BY RepeatsAnswers, <1>2
  <2>2. a.kind = "done" => a = Answer("done", a.of) /\ a.of \in Request /\ keyOf[r] \in Key
    BY DEF AnswerType, Answer, GatewayInv, KeyTypeOK
  <2>3. record' = record
    BY <1>2 DEF Repeats
  <2>4. a.kind = "done" => At(a.of, "opened")
    BY <2>1, <2>2 DEF AnswerInv
  <2>5. \A s \in Request : answer'[s] \in {answer[s], a}
    BY <1>0, <2>1
  <2> QED BY <2>3, <2>4, <2>5 DEF AnswerInv
<1>3. CASE Finish(r) \/ FinishFails(r)
  <2>1. answer' = answer
    BY <1>3 DEF Finish, FinishFails
  <2>2. \A k \in Key : record'[k] \in {record[k], Free, Stored(answer[r])}
    BY <1>0, <1>3 DEF Finish, FinishFails, Finished, Kept
  <2>3. ASSUME NEW s \in Request, Stored(answer[r]) = Stored(Answer("done", s))
        PROVE  At(s, "opened")
    <3>1. answer[r] = Answer("done", s)
      BY <2>3, RecordsDiffer
    <3> QED BY <1>0, <3>1 DEF AnswerInv
  <2> QED BY <1>0, <2>1, <2>2, <2>3, RecordsDiffer DEF AnswerInv
<1> QED BY <1>1, <1>2, <1>3 DEF Guards, ClaimFails, GatewayDies, Answered

LEMMA AnswerNamesOpened ==
  ASSUME AnswerInv, NEW r \in Request, answer[r].kind = "done"
  PROVE  At(answer[r].of, "opened")
BY DEF AnswerInv

THEOREM IInvInitially ==
  ASSUME Init
  PROVE  IInv
<1>1. AnswerInv
  <2>1. \A r \in Request : answer[r].kind = "none"
    BY DEF Init, KeyInit, NoAnswer
  <2>2. \A k \in Key : record[k] = Free
    BY DEF Init, KeyInit
  <2>3. \A a : Free # Stored(a)
    BY RecordsDiffer
  <2> QED BY <2>1, <2>2, <2>3 DEF AnswerInv
<1> QED BY <1>1, DraftInitially, GatewayInitially DEF Init, IInv, GatewayInv

(* Every step keeps the invariant: the draft's part, the key's, the answers'. *)
THEOREM IInvKept ==
  ASSUME IInv, [Next]_vars
  PROVE  IInv'
<1>0. DraftInv /\ GatewayInv /\ AnswerInv /\ Order = Request
  BY OneOrderEach DEF IInv, GatewayInv
<1>1. CASE \E r \in Request : Begins(r)
  <2>1. PICK r \in Request : Claim(r) /\ Start(r)
    BY <1>1 DEF Begins
  <2>2. DraftInv' /\ GatewayInv'
    BY <1>0, <2>1, ClaimKeeps, StartKeeps
  <2>3. \A o \in Order : At(o, "opened") => At(o, "opened")'
    BY <1>0, <2>1, OpenedStays
  <2>4. answer' = answer /\ record' = [record EXCEPT ![keyOf[r]] = Claimed(r)]
        /\ record \in [Key -> RecordType] /\ answer \in [Request -> AnswerType]
    BY <1>0, <2>1 DEF Claim, GatewayInv, KeyTypeOK, RecordType, AnswerType
  <2>5. AnswerInv'
    BY <1>0, <2>3, <2>4, RecordsDiffer DEF AnswerInv, AnswerType
  <2> QED BY <2>2, <2>5 DEF IInv, GatewayInv
<1>2. CASE \E r \in Request : Returns(r)
  <2> DEFINE kind(r) == IF call[r].at \in Ended THEN KindOf(r) ELSE "failed"
  <2>1. PICK r \in Request : HandlerEnds(r, Answer(kind(r), r)) /\ UNCHANGED draftVars
    BY <1>2 DEF Returns
  <2>2. kind(r) \in Kind /\ (kind(r) = "done" => At(r, "opened"))
    BY DEF KindOf, Kind
  <2> HIDE DEF kind
  <2>3. Answer(kind(r), r) \in AnswerType /\ Answer(kind(r), r).kind = kind(r) /\ Answer(kind(r), r).of = r
    BY <2>2, AnswersAreTyped
  <2>4. DraftInv' /\ GatewayInv'
    BY <1>0, <2>1, <2>3, DraftStutter, HandlerEndsKeeps
  <2>5. /\ record' = record /\ answer' = [answer EXCEPT ![r] = Answer(kind(r), r)]
        /\ call' = call /\ answer \in [Request -> AnswerType]
    BY <1>0, <2>1 DEF HandlerEnds, draftVars, GatewayInv, KeyTypeOK, AnswerType
  <2>6. AnswerInv'
    BY <1>0, <2>2, <2>3, <2>5 DEF AnswerInv, At
  <2> QED BY <2>4, <2>6 DEF IInv, GatewayInv
<1>3. CASE InGateway
  <2>1. PICK r \in Request : Guards(r) /\ UNCHANGED draftVars
    BY <1>3 DEF InGateway
  <2>2. DraftInv' /\ GatewayInv'
    BY <1>0, <2>1, DraftStutter, GuardsKeeps
  <2>3. call' = call
    BY <2>1 DEF draftVars
  <2>4. AnswerInv'
    BY <1>0, <2>1, <2>3, AnswersAreHandedOn DEF AnswerInv, At
  <2> QED BY <2>2, <2>4 DEF IInv, GatewayInv
<1>4. CASE InOrderService
  <2>1. DraftInv'
    BY <1>0, <1>4, ElsewhereKeeps, WorksKeeps DEF InOrderService
  <2>2. UNCHANGED keyVars /\ GatewayInv'
    BY <1>0, <1>4, GatewayStutter DEF InOrderService
  <2>3. \A o \in Order : At(o, "opened") => At(o, "opened")'
    BY <1>0, <1>4, OpenedStays DEF InOrderService
  <2>4. AnswerInv'
    BY <1>0, <2>2, <2>3 DEF AnswerInv, keyVars, GatewayInv, KeyTypeOK, AnswerType
  <2> QED BY <2>1, <2>2, <2>4 DEF IInv, GatewayInv
<1>5. CASE TimesOut
  <2>1. PICK k \in Key : ClaimExpires(k) /\ UNCHANGED draftVars
    BY <1>5 DEF TimesOut
  <2>2. DraftInv' /\ GatewayInv'
    BY <1>0, <2>1, DraftStutter, ClaimExpiresKeeps
  <2>3. call' = call /\ answer' = answer /\ record' = [record EXCEPT ![k] = Free]
        /\ record \in [Key -> RecordType]
    BY <1>0, <2>1 DEF draftVars, ClaimExpires, GatewayInv, KeyTypeOK, RecordType
  <2>4. AnswerInv'
    BY <1>0, <2>3, RecordsDiffer DEF AnswerInv, At
  <2> QED BY <2>2, <2>4 DEF IInv, GatewayInv
<1>6. CASE UNCHANGED vars
  <2>1. UNCHANGED draftVars /\ UNCHANGED keyVars
    BY <1>6 DEF vars
  <2>2. DraftInv' /\ GatewayInv'
    BY <1>0, <2>1, DraftStutter, GatewayStutter
  <2>3. AnswerInv'
    BY <1>0, <2>1 DEF AnswerInv, draftVars, keyVars, At
  <2> QED BY <2>2, <2>3 DEF IInv, GatewayInv
<1> QED BY <1>1, <1>2, <1>3, <1>4, <1>5, <1>6 DEF Next

-----------------------------------------------------------------------------
(* What follows from it                                                      *)

LEMMA Always == Spec => []IInv
<1>1. Init => IInv
  BY IInvInitially
<1>2. IInv /\ [Next]_vars => IInv'
  BY IInvKept
<1> QED BY <1>1, <1>2, PTL DEF Spec

(* POST /v1/cart/reserve keeps the types of its state.                       *)
THEOREM Typed == Spec => []TypeOK
<1>1. IInv => TypeOK
  BY DEF IInv, DraftInv, TypeOK
<1> QED BY <1>1, Always, PTL

(* draft-reservation.ts: nobody takes the stock of a draft the user was told *)
(* of, and the user's lock stands for an order or for a request at work.     *)
THEOREM LockFitsItsDraft == Spec => []LockFitsDraft
<1>1. IInv => LockFitsDraft
  BY DEF IInv, DraftInv
<1> QED BY <1>1, Always, PTL

(* idempotency.go: one key gives out one order, whatever fails.              *)
THEOREM KeyGivesOneOrder == Spec => []OneOrderPerKey
<1>1. IInv => OneOrderPerKey
  <2> SUFFICES ASSUME IInv, NEW r \in Request, NEW s \in Request, Has(r), Has(s),
                      keyOf[r] = keyOf[s], keyOf[r] \notin unwritten
               PROVE  answer[r] = answer[s]
    BY DEF OneOrderPerKey
  <2>1. Stored(answer[r]) = Stored(answer[s])
    BY DEF IInv, KeyInv
  <2> QED BY <2>1, RecordsDiffer
<1> QED BY <1>1, Always, PTL

(* A 201, first or repeated, names an order that has its stock until it is   *)
(* closed or its time runs out.                                              *)
THEOREM ToldOrderHoldsStock == Spec => []ToldHoldsStock
<1>1. IInv => ToldHoldsStock
  <2> SUFFICES ASSUME IInv, NEW r \in Request, Has(r),
                      status[answer[r].of] \in {"DRAFT", "PLACING"}, answer[r].of \notin expired
               PROVE  lock.order = answer[r].of
    BY DEF ToldHoldsStock
  <2>1. At(answer[r].of, "opened")
    BY AnswerNamesOpened DEF IInv, Has
  <2>2. answer[r].of \in Order
    BY OneOrderEach DEF IInv, KeyTypeOK
  <2> QED BY <2>1, <2>2 DEF IInv, DraftInv, LockFitsDraft, DraftKeepsStock
<1> QED BY <1>1, Always, PTL
=============================================================================
