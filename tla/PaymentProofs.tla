---------------------------- MODULE PaymentProofs ----------------------------
(***************************************************************************)
(* What holds of the payment records for any number of orders, keys,       *)
(* callers, attempts and deaths.  The inductive invariant says of a caller *)
(* what it knows: the document it is about to write is a right successor   *)
(* of the stored record if the versions still fit, and the versions fit    *)
(* only if nobody else wrote since it read.                                *)
(***************************************************************************)
EXTENDS Payment, TLAPS

Document ==
  [key : Key, method : Method, status : Status, version : Nat, challenged : BOOLEAN,
   failedAttempts : Nat, closedReason : {"none", "expired", "attempts_exhausted"}]

(* The documents that may follow a record: by the answer of the provider,   *)
(* by Confirm3Ds, by a refund and by a cancellation.                        *)
Decided(p, s) ==
  [p EXCEPT !.status = s, !.version = @ + 1, !.challenged = (s = "REQUIRES_3DS")]
Paid(p) == [p EXCEPT !.status = "SUCCEEDED", !.version = @ + 1]
Refunded(p) == [p EXCEPT !.status = "REFUNDED", !.version = @ + 1]
Cancelled(p) == [p EXCEPT !.status = "CANCELLED", !.version = @ + 1]

Results == {"SUCCEEDED", "FAILED", "REQUIRES_3DS"}

(* A record holds together with what happened to its order.                 *)
RecordInv(o) ==
  /\ payment[o].status = "PENDING" =>
       payment[o].version = 0 /\ payment[o].failedAttempts = 0 /\ payment[o].closedReason = "none"
  /\ payment[o].status \notin {"NONE", "PENDING"} => payment[o].version > 0
  /\ payment[o].closedReason # "none" => payment[o].status = "FAILED"
  /\ payment[o].failedAttempts <= MaxAttempts
  /\ payment[o].status # "FAILED" => payment[o].failedAttempts < MaxAttempts
  /\ wrong[o] = payment[o].failedAttempts
  /\ asked[o] <= 1
  /\ payment[o].status = "NONE" => asked[o] = 0

Writing(c) == At(c, "confirmWrite") \/ At(c, "refundWrite") \/ At(c, "cancelWrite")

(* What a caller knows of the record it is working on.                      *)
CallInv(c) ==
  /\ At(c, "replay") \/ At(c, "exists") \/ At(c, "insert") => call[c].key \in Key
  /\ At(c, "cancelLoad") \/ At(c, "cancelWrite") => call[c].op = "cancel"
  /\ At(c, "authorize") => asked[OrderOf(c)] = 0
  /\ At(c, "authorize") \/ At(c, "settle") => Stored(c).method = "CARD"
  /\ At(c, "settle") => \E s \in Results : call[c].doc = Decided(Stored(c), s)
  /\ At(c, "verify") =>
       /\ call[c].doc.status = "REQUIRES_3DS"
       /\ call[c].doc.version <= Stored(c).version
       /\ call[c].doc.version = Stored(c).version => call[c].doc = Stored(c)
  /\ Writing(c) => 0 < call[c].doc.version /\ call[c].doc.version - 1 <= Stored(c).version
  /\ At(c, "confirmWrite") /\ Fresh(c) =>
       /\ Stored(c).status = "REQUIRES_3DS"
       /\ call[c].doc \in {Closed(Stored(c), "expired"), Paid(Stored(c)), Counted(Stored(c))}
  /\ At(c, "refundWrite") /\ Fresh(c) =>
       Stored(c).status = "SUCCEEDED" /\ call[c].doc = Refunded(Stored(c))
  /\ At(c, "cancelWrite") /\ Fresh(c) =>
       Cancellable(Stored(c)) /\ call[c].doc = Cancelled(Stored(c))

IInv ==
  /\ TypeOK
  /\ \A o \in Order : RecordInv(o)
  /\ \A c \in Caller : CallInv(c)
  /\ PendingIsOwned
  /\ AnswersStand

-----------------------------------------------------------------------------
(* Documents and calls                                                      *)

LEMMA DocumentFields ==
  /\ Document \subseteq PaymentDocument
  /\ \A p \in PaymentDocument :
       /\ p.status = "NONE" => p = None
       /\ p.status # "NONE" => p \in Document /\ p.status \in Status
       /\ p.version \in Nat /\ p.failedAttempts \in Nat
BY DEF PaymentDocument, Document, None, Status

(* A record with another value in one of its fields.                        *)
LEMMA FieldChange ==
  ASSUME NEW p \in Document
  PROVE  /\ \A s \in Status : [p EXCEPT !.status = s] \in Document
         /\ \A v \in Nat : [p EXCEPT !.version = v] \in Document
         /\ \A b \in BOOLEAN : [p EXCEPT !.challenged = b] \in Document
         /\ \A n \in Nat : [p EXCEPT !.failedAttempts = n] \in Document
         /\ \A r \in {"expired", "attempts_exhausted"} : [p EXCEPT !.closedReason = r] \in Document
BY DEF Document

(* What follows a record is a record; its version is the next one.          *)
LEMMA Successors ==
  ASSUME NEW p \in Document
  PROVE  /\ p # None
         /\ \A s \in Results : /\ Decided(p, s) \in Document /\ Decided(p, s).status = s
                               /\ Decided(p, s).version = p.version + 1
                               /\ Decided(p, s).method = p.method
                               /\ Decided(p, s).failedAttempts = p.failedAttempts
                               /\ Decided(p, s).closedReason = p.closedReason
         /\ \A q \in {Closed(p, "expired"), Paid(p), Counted(p), Refunded(p), Cancelled(p)} :
              q \in Document /\ q.version = p.version + 1 /\ q.method = p.method
         /\ Closed(p, "expired").status = "FAILED"
         /\ Closed(p, "expired").failedAttempts = p.failedAttempts
         /\ Closed(p, "expired").closedReason = "expired"
         /\ \A q \in {Paid(p), Refunded(p), Cancelled(p)} :
              q.failedAttempts = p.failedAttempts /\ q.closedReason = p.closedReason
         /\ Paid(p).status = "SUCCEEDED" /\ Refunded(p).status = "REFUNDED"
         /\ Cancelled(p).status = "CANCELLED"
<1>1. p # None
  BY DEF None, Document, Status
<1>2. p.version + 1 \in Nat /\ p.failedAttempts + 1 \in Nat
  BY DEF Document
<1>3. ASSUME NEW s \in Status
      PROVE  [[p EXCEPT !.status = s] EXCEPT !.version = p.version + 1] \in Document
  <2>1. [p EXCEPT !.status = s] \in Document
    BY FieldChange
  <2> QED BY <1>2, <2>1, FieldChange
<1>4. ASSUME NEW s \in Results
      PROVE  /\ Decided(p, s) \in Document /\ Decided(p, s).status = s
             /\ Decided(p, s).version = p.version + 1
             /\ Decided(p, s).method = p.method
             /\ Decided(p, s).failedAttempts = p.failedAttempts
             /\ Decided(p, s).closedReason = p.closedReason
  <2>1. s \in Status
    BY DEF Results, Status
  <2>2. Decided(p, s) = [[[p EXCEPT !.status = s] EXCEPT !.version = p.version + 1]
                           EXCEPT !.challenged = (s = "REQUIRES_3DS")]
    BY DEF Decided
  <2>3. Decided(p, s) \in Document
    <3> DEFINE q == [[p EXCEPT !.status = s] EXCEPT !.version = p.version + 1]
    <3>1. q \in Document
      BY <1>3, <2>1
    <3>2. Decided(p, s) = [q EXCEPT !.challenged = (s = "REQUIRES_3DS")]
      BY <2>2
    <3> HIDE DEF q
    <3> QED BY <3>1, <3>2, FieldChange
  <2> QED BY <2>3 DEF Decided, Document
<1>5. /\ Closed(p, "expired") \in Document /\ Closed(p, "expired").version = p.version + 1
      /\ Closed(p, "expired").method = p.method
      /\ Closed(p, "expired").status = "FAILED"
      /\ Closed(p, "expired").failedAttempts = p.failedAttempts
      /\ Closed(p, "expired").closedReason = "expired"
  <2>1. "FAILED" \in Status
    BY DEF Status
  <2>2. Closed(p, "expired") = [[[p EXCEPT !.status = "FAILED"] EXCEPT !.version = p.version + 1]
                                  EXCEPT !.closedReason = "expired"]
    BY DEF Closed
  <2>3. Closed(p, "expired") \in Document
    BY <1>3, <2>1, <2>2, FieldChange
  <2> QED BY <2>3 DEF Closed, Document
<1>6. /\ Paid(p) \in Document /\ Paid(p).version = p.version + 1
      /\ Paid(p).method = p.method /\ Paid(p).status = "SUCCEEDED"
      /\ Paid(p).failedAttempts = p.failedAttempts /\ Paid(p).closedReason = p.closedReason
  <2>1. "SUCCEEDED" \in Status
    BY DEF Status
  <2>2. Paid(p) \in Document
    BY <1>3, <2>1 DEF Paid
  <2> QED BY <2>2 DEF Paid, Document
<1>7. /\ Refunded(p) \in Document /\ Refunded(p).version = p.version + 1
      /\ Refunded(p).method = p.method /\ Refunded(p).status = "REFUNDED"
      /\ Refunded(p).failedAttempts = p.failedAttempts /\ Refunded(p).closedReason = p.closedReason
  <2>1. "REFUNDED" \in Status
    BY DEF Status
  <2>2. Refunded(p) \in Document
    BY <1>3, <2>1 DEF Refunded
  <2> QED BY <2>2 DEF Refunded, Document
<1>8. /\ Cancelled(p) \in Document /\ Cancelled(p).version = p.version + 1
      /\ Cancelled(p).method = p.method /\ Cancelled(p).status = "CANCELLED"
      /\ Cancelled(p).failedAttempts = p.failedAttempts /\ Cancelled(p).closedReason = p.closedReason
  <2>1. "CANCELLED" \in Status
    BY DEF Status
  <2>2. Cancelled(p) \in Document
    BY <1>3, <2>1 DEF Cancelled
  <2> QED BY <2>2 DEF Cancelled, Document
<1>9. Counted(p) \in Document /\ Counted(p).version = p.version + 1 /\ Counted(p).method = p.method
  <2> DEFINE q == [p EXCEPT !.failedAttempts = p.failedAttempts + 1]
  <2>1. q \in Document /\ q.version = p.version /\ q.method = p.method
    BY <1>2, FieldChange DEF Document
  <2>2. CASE p.failedAttempts + 1 >= MaxAttempts
    <3>1. Counted(p) = Closed(q, "attempts_exhausted")
      BY <2>2 DEF Counted
    <3>2. Closed(q, "attempts_exhausted") =
            [[[q EXCEPT !.status = "FAILED"] EXCEPT !.version = p.version + 1]
               EXCEPT !.closedReason = "attempts_exhausted"]
      BY <2>1 DEF Closed
    <3> HIDE DEF q
    <3>3. [q EXCEPT !.status = "FAILED"] \in Document
      BY <2>1, FieldChange DEF Status
    <3>4. [[q EXCEPT !.status = "FAILED"] EXCEPT !.version = p.version + 1] \in Document
      BY <1>2, <3>3, FieldChange
    <3>5. Closed(q, "attempts_exhausted") \in Document
      BY <3>2, <3>4, FieldChange
    <3>6. /\ Closed(q, "attempts_exhausted").version = q.version + 1
          /\ Closed(q, "attempts_exhausted").method = q.method
      BY <2>1 DEF Closed, Document
    <3> QED BY <2>1, <3>1, <3>5, <3>6
  <2>3. CASE ~(p.failedAttempts + 1 >= MaxAttempts)
    <3>1. Counted(p) = [q EXCEPT !.version = p.version + 1]
      BY <2>3 DEF Counted
    <3> HIDE DEF q
    <3> QED BY <1>2, <2>1, <3>1, FieldChange DEF Document
  <2> QED BY <2>2, <2>3
<1> QED BY <1>1, <1>4, <1>5, <1>6, <1>7, <1>8, <1>9

(* A wrong code is counted; the last one closes the challenge.              *)
LEMMA CountedFields ==
  ASSUME NEW p \in Document, p.status = "REQUIRES_3DS", p.failedAttempts < MaxAttempts
  PROVE  /\ Counted(p).failedAttempts = p.failedAttempts + 1
         /\ Counted(p).failedAttempts <= MaxAttempts
         /\ Counted(p).status \in {"FAILED", "REQUIRES_3DS"}
         /\ Counted(p).status = "REQUIRES_3DS" =>
              Counted(p).failedAttempts < MaxAttempts /\ Counted(p).closedReason = p.closedReason
         /\ Counted(p).closedReason # "expired" \/ Counted(p).closedReason = p.closedReason
<1> USE PaymentAssumption DEF Document
<1>1. CASE p.failedAttempts + 1 >= MaxAttempts
  BY <1>1 DEF Counted, Closed
<1>2. CASE ~(p.failedAttempts + 1 >= MaxAttempts)
  BY <1>2 DEF Counted
<1> QED BY <1>1, <1>2

LEMMA CallChange ==
  ASSUME call \in [Caller -> Call], NEW c \in Caller, NEW new \in Call,
         call' = [call EXCEPT ![c] = new]
  PROVE  /\ call' \in [Caller -> Call] /\ call'[c] = new
         /\ \A d \in Caller : d # c => call'[d] = call[d]
OBVIOUS

LEMMA IdleIsCall == Idle \in Call /\ Idle.step = "idle"
<1>1. (CHOOSE o \in Order : TRUE) \in Order
  BY PaymentAssumption
<1>2. None \in PaymentDocument
  BY DEF PaymentDocument
<1> QED BY <1>1, <1>2 DEF Idle, Begun, Call, Operation, Step, Method

LEMMA BegunIsCall ==
  ASSUME NEW op \in Operation, NEW s \in Step, NEW o \in Order
  PROVE  /\ Begun(op, s, o) \in Call
         /\ Begun(op, s, o).step = s /\ Begun(op, s, o).op = op /\ Begun(op, s, o).order = o
<1>1. None \in PaymentDocument
  BY DEF PaymentDocument
<1> QED BY <1>1 DEF Begun, Call, Method

(* The calls after Finish, Goto and Prepare.                                *)
LEMMA FinishCall ==
  ASSUME call \in [Caller -> Call], NEW c \in Caller, Finish(c)
  PROVE  /\ call' \in [Caller -> Call] /\ call'[c].step = "idle"
         /\ \A d \in Caller : d # c => call'[d] = call[d]
BY IdleIsCall, CallChange DEF Finish

LEMMA GotoCall ==
  ASSUME call \in [Caller -> Call], NEW c \in Caller, NEW s \in Step, Goto(c, s)
  PROVE  /\ call' \in [Caller -> Call] /\ call'[c].step = s
         /\ call'[c].op = call[c].op /\ call'[c].order = call[c].order
         /\ call'[c].doc = call[c].doc /\ call'[c].key = call[c].key
         /\ \A d \in Caller : d # c => call'[d] = call[d]
<1> DEFINE new == [call[c] EXCEPT !.step = s]
<1>1. /\ new \in Call /\ new.step = s /\ new.op = call[c].op /\ new.order = call[c].order
      /\ new.doc = call[c].doc /\ new.key = call[c].key
  BY DEF Call
<1>2. call' = [call EXCEPT ![c] = new]
  BY DEF Goto
<1> HIDE DEF new
<1> QED BY <1>1, <1>2, CallChange

LEMMA PrepareCall ==
  ASSUME call \in [Caller -> Call], NEW c \in Caller, NEW s \in Step,
         NEW p \in PaymentDocument, Prepare(c, s, p)
  PROVE  /\ call' \in [Caller -> Call] /\ call'[c].step = s
         /\ call'[c].op = call[c].op /\ call'[c].order = call[c].order
         /\ call'[c].doc = p
         /\ \A d \in Caller : d # c => call'[d] = call[d]
<1> DEFINE new == [call[c] EXCEPT !.step = s, !.doc = p]
<1>1. /\ new \in Call /\ new.step = s /\ new.op = call[c].op /\ new.order = call[c].order
      /\ new.doc = p
  BY DEF Call
<1>2. call' = [call EXCEPT ![c] = new]
  BY DEF Prepare
<1> HIDE DEF new
<1> QED BY <1>1, <1>2, CallChange

LEMMA InitInv == Init => IInv
<1> SUFFICES ASSUME Init PROVE IInv
  OBVIOUS
<1>1. TypeOK
  BY IdleIsCall, PaymentAssumption DEF Init, TypeOK, PaymentDocument
<1>2. ASSUME NEW o \in Order
      PROVE  RecordInv(o)
  <2>1. payment[o] = None /\ asked[o] = 0 /\ wrong[o] = 0
    BY DEF Init
  <2>2. /\ None.status = "NONE" /\ None.version = 0 /\ None.failedAttempts = 0
        /\ None.closedReason = "none"
    BY DEF None
  <2> QED BY <2>1, <2>2, PaymentAssumption DEF RecordInv
<1>3. \A c \in Caller : At(c, "idle")
  BY IdleIsCall DEF Init, At
<1>4. \A c \in Caller : CallInv(c)
  BY <1>3 DEF CallInv, At, Writing
<1>5. PendingIsOwned
  BY <1>3 DEF Init, PendingIsOwned, Charging, At, None
<1>6. AnswersStand
  BY DEF Init, AnswersStand
<1> QED BY <1>1, <1>2, <1>4, <1>5, <1>6 DEF IInv

-----------------------------------------------------------------------------
(* Steps that write nothing                                                 *)

(* A caller between its reads and its writes owes nothing.                  *)
Calm == {"idle", "replay", "exists", "insert", "reread", "load", "refundLoad", "refundReread"}

LEMMA CalmCall ==
  ASSUME NEW c \in Caller,
         call'[c].step \in Calm \/ (call'[c].step = "cancelLoad" /\ call'[c].op = "cancel"),
         call'[c].step \in {"replay", "exists", "insert"} => call'[c].key \in Key
  PROVE  CallInv(c)' /\ \A o \in Order : ~Charging(c, o)'
BY DEF Calm, CallInv, At, Writing, Charging

(* A caller that did not move still knows what it knew, whether the record  *)
(* stayed, was inserted or went on by one version.                          *)
LEMMA OtherCall ==
  ASSUME IInv, NEW d \in Caller, call'[d] = call[d],
         payment \in [Order -> PaymentDocument], payment' \in [Order -> PaymentDocument],
         At(d, "authorize") => asked'[OrderOf(d)] = asked[OrderOf(d)],
         \/ payment'[OrderOf(d)] = payment[OrderOf(d)]
         \/ /\ payment'[OrderOf(d)].version = payment[OrderOf(d)].version + 1
            /\ ~Charging(d, OrderOf(d))
         \/ payment[OrderOf(d)] = None /\ payment'[OrderOf(d)].version = 0
  PROVE  CallInv(d)'
<1> DEFINE o == OrderOf(d)
<1>1. o \in Order
  BY DEF IInv, TypeOK, OrderOf, Call
<1>2. CallInv(d) /\ (Charging(d, o) => payment[o].status = "PENDING")
  BY <1>1 DEF IInv, PendingIsOwned
<1>3. /\ payment[o].version \in Nat /\ payment'[o].version \in Nat
      /\ call[d].doc.version \in Nat
      /\ call[d].doc \in PaymentDocument
  <2>1. call[d].doc \in PaymentDocument
    BY DEF IInv, TypeOK, Call
  <2> QED BY <1>1, <2>1, DocumentFields
<1>4. call'[d].order = o /\ call'[d] = call[d]
  BY DEF OrderOf
<1>5. CASE payment'[o] = payment[o]
  BY <1>2, <1>4, <1>5 DEF CallInv, At, OrderOf, Stored, Writing, Fresh
<1>6. CASE payment'[o].version = payment[o].version + 1 /\ ~Charging(d, o)
  <2>1. ~At(d, "authorize") /\ ~At(d, "settle")
    BY <1>6 DEF Charging
  <2>2. At(d, "verify") => /\ call[d].doc.status = "REQUIRES_3DS"
                           /\ call[d].doc.version <= payment[o].version
    BY <1>2 DEF CallInv, Stored
  <2>3. Writing(d) => 0 < call[d].doc.version /\ call[d].doc.version - 1 <= payment[o].version
    BY <1>2 DEF CallInv, Stored
  <2>4. At(d, "verify") => /\ call[d].doc.version <= payment'[o].version
                           /\ call[d].doc.version # payment'[o].version
    BY <1>3, <1>6, <2>2
  <2>5. Writing(d) => /\ call[d].doc.version - 1 <= payment'[o].version
                      /\ payment'[o].version # call[d].doc.version - 1
    BY <1>3, <1>6, <2>3
  <2>6. /\ At(d, "cancelLoad") \/ At(d, "cancelWrite") => call[d].op = "cancel"
        /\ At(d, "replay") \/ At(d, "exists") \/ At(d, "insert") => call[d].key \in Key
    BY <1>2 DEF CallInv
  <2> HIDE DEF o
  <2> QED BY <1>4, <2>1, <2>2, <2>3, <2>4, <2>5, <2>6 DEF CallInv, At, OrderOf, Stored, Writing, Fresh
<1>7. CASE payment[o] = None /\ payment'[o].version = 0
  <2>1. payment[o].version = 0 /\ payment[o].status = "NONE"
    BY <1>7 DEF None
  <2>2. ~At(d, "authorize") /\ ~At(d, "settle")
    BY <1>2, <2>1 DEF Charging
  <2>3. ~At(d, "verify")
    <3>1. SUFFICES ASSUME At(d, "verify") PROVE FALSE
      OBVIOUS
    <3>2. call[d].doc.status = "REQUIRES_3DS" /\ call[d].doc.version <= 0
          /\ (call[d].doc.version = 0 => call[d].doc = payment[o])
      BY <1>2, <2>1, <3>1 DEF CallInv, Stored
    <3> QED BY <1>3, <2>1, <3>2
  <2>4. ~Writing(d)
    <3>1. SUFFICES ASSUME Writing(d) PROVE FALSE
      OBVIOUS
    <3>2. call[d].doc.version - 1 = payment[o].version
      BY <1>2, <1>3, <2>1, <3>1 DEF CallInv, Stored
    <3>3. Fresh(d)
      BY <3>2 DEF Fresh, Stored
    <3>4. payment[o].status \in {"REQUIRES_3DS", "SUCCEEDED", "PENDING"}
      BY <1>2, <3>1, <3>3 DEF CallInv, Writing, Stored, Cancellable
    <3> QED BY <2>1, <3>4
  <2>5. /\ At(d, "cancelLoad") => call[d].op = "cancel"
        /\ At(d, "replay") \/ At(d, "exists") \/ At(d, "insert") => call[d].key \in Key
    BY <1>2 DEF CallInv
  <2> QED BY <1>4, <2>2, <2>3, <2>4, <2>5 DEF CallInv, At, OrderOf, Stored, Writing, Fresh
<1> QED BY <1>5, <1>6, <1>7

(* What an answer says is true of a record.                                 *)
TrueOf(a, p) ==
  p.status \in
    CASE a.status = "SUCCEEDED" -> {"SUCCEEDED", "REFUNDED"}
      [] a.status = "FAILED"    -> {"FAILED"}
      [] a.status = "REFUNDED"  -> {"REFUNDED"}
      [] a.status = "closed"    -> {"CANCELLED", "FAILED", "REFUNDED"}

(* A step of a caller that leaves the records alone.                        *)
LEMMA QuietKeeps ==
  ASSUME IInv, NEW c \in Caller,
         payment' = payment, asked' = asked, wrong' = wrong, due' \subseteq Order,
         call' \in [Caller -> Call], \A d \in Caller : d # c => call'[d] = call[d],
         deaths' \in 0 .. MaxDeaths,
         orphans \subseteq orphans', orphans' \subseteq Order,
         CallInv(c)',
         \A o \in Order : Charging(c, o)' => Charging(c, o),
         \A o \in Order : Charging(c, o) => Charging(c, o)' \/ o \in orphans',
         \A a \in told' : a \in told \/ (a \in Answer /\ TrueOf(a, payment[a.order]))
  PROVE  IInv'
<1>1. TypeOK'
  BY DEF IInv, TypeOK
<1>2. \A o \in Order : RecordInv(o)'
  BY DEF IInv, RecordInv
<1>3. \A d \in Caller : CallInv(d)'
  <2>1. ASSUME NEW d \in Caller, d # c
        PROVE  CallInv(d)'
    <3>1. payment \in [Order -> PaymentDocument] /\ call'[d] = call[d]
      BY <2>1 DEF IInv, TypeOK
    <3> QED BY <3>1, OtherCall
  <2> QED BY <2>1
<1>4. PendingIsOwned'
  <2>1. \A d \in Caller, o \in Order : d # c => (Charging(d, o)' <=> Charging(d, o))
    BY DEF Charging, OrderOf, At
  <2>2. ASSUME NEW o \in Order, payment[o].status = "PENDING", payment[o].method = "CARD",
               o \notin orphans'
        PROVE  \E d \in Caller : Charging(d, o)'
    <3>1. PICK d \in Caller : Charging(d, o)
      BY <2>2 DEF IInv, PendingIsOwned
    <3> QED BY <2>1, <2>2, <3>1
  <2>3. ASSUME NEW o \in Order, NEW d \in Caller, NEW e \in Caller, Charging(d, o)'
        PROVE  payment[o].status = "PENDING" /\ (Charging(e, o)' => d = e)
    <3>1. Charging(d, o) /\ (Charging(e, o)' => Charging(e, o))
      BY <2>1, <2>3
    <3> QED BY <3>1 DEF IInv, PendingIsOwned
  <2> QED BY <2>2, <2>3 DEF PendingIsOwned
<1>5. AnswersStand'
  BY DEF IInv, AnswersStand, TrueOf
<1> QED BY <1>1, <1>2, <1>3, <1>4, <1>5 DEF IInv

LEMMA CallFacts ==
  ASSUME IInv, NEW c \in Caller
  PROVE  /\ OrderOf(c) \in Order /\ Stored(c) \in PaymentDocument
         /\ call[c].doc \in PaymentDocument /\ call[c] \in Call /\ call \in [Caller -> Call]
         /\ payment \in [Order -> PaymentDocument]
         /\ RecordInv(OrderOf(c)) /\ CallInv(c)
         /\ due \subseteq Order /\ orphans \subseteq Order /\ deaths \in 0 .. MaxDeaths
         /\ told \subseteq Answer
BY DEF IInv, TypeOK, OrderOf, Stored, Call

LEMMA CalmKeeps ==
  ASSUME IInv, NEW c \in Caller, ~At(c, "authorize"), ~At(c, "settle"),
         UNCHANGED <<payment, due, deaths, orphans, asked, wrong>>,
         call' \in [Caller -> Call], \A d \in Caller : d # c => call'[d] = call[d],
         CallInv(c)', call'[c].step \notin {"authorize", "settle"},
         \A a \in told' : a \in told \/ (a \in Answer /\ TrueOf(a, payment[a.order]))
  PROVE  IInv'
<1>1. \A o \in Order : ~Charging(c, o)' /\ ~Charging(c, o)
  BY DEF Charging, At
<1> QED BY <1>1, CallFacts, QuietKeeps

(* The four ways a call begins.                                             *)
LEMMA StartKeeps ==
  ASSUME IInv, NEW c \in Caller, Start(c)
  PROVE  IInv'
<1>1. /\ UNCHANGED <<payment, due, deaths, orphans, asked, wrong, told>> /\ At(c, "idle")
  BY DEF Start, StartCharge, StartConfirm, StartRefund, StartCancel, history
<1>2. \E new \in Call : /\ call' = [call EXCEPT ![c] = new]
                        /\ \/ new.step \in {"load", "refundLoad"}
                           \/ new.step = "replay" /\ new.key \in Key
                           \/ new.step = "cancelLoad" /\ new.op = "cancel"
  <2>1. CASE StartCharge(c)
    <3>1. PICK r \in Request :
            call' = [call EXCEPT ![c] = [Begun("charge", "replay", r.order) EXCEPT
                                           !.key = r.key, !.method = r.method]]
      BY <2>1 DEF StartCharge
    <3> DEFINE b == Begun("charge", "replay", r.order)
               new == [b EXCEPT !.key = r.key, !.method = r.method]
    <3>2. r.order \in Order /\ r.key \in Key /\ r.method \in Method
      BY PaymentAssumption
    <3>3. b \in Call /\ b.step = "replay"
      BY <3>2, BegunIsCall DEF Operation, Step
    <3> HIDE DEF b
    <3> DEFINE k == [b EXCEPT !.key = r.key]
    <3>4. k \in Call
      BY <3>2, <3>3 DEF Call
    <3>5. k.step = "replay" /\ k.key = r.key /\ new = [k EXCEPT !.method = r.method]
      BY <3>3 DEF Call
    <3> HIDE DEF k
    <3>6. /\ [k EXCEPT !.method = r.method] \in Call
          /\ [k EXCEPT !.method = r.method].step = "replay"
          /\ [k EXCEPT !.method = r.method].key \in Key
      BY <3>2, <3>4, <3>5 DEF Call
    <3>7. call' = [call EXCEPT ![c] = new]
      BY <3>1 DEF b
    <3> QED BY <3>5, <3>6, <3>7
  <2>2. CASE StartConfirm(c)
    <3>1. PICK o \in Later, right \in BOOLEAN :
            call' = [call EXCEPT ![c] = [Begun("confirm", "load", o) EXCEPT !.right = right]]
      BY <2>2 DEF StartConfirm
    <3> DEFINE b == Begun("confirm", "load", o)
    <3>2. b \in Call /\ b.step = "load"
      BY PaymentAssumption, BegunIsCall DEF Operation, Step
    <3> HIDE DEF b
    <3>3. [b EXCEPT !.right = right] \in Call /\ [b EXCEPT !.right = right].step = "load"
      BY <3>2 DEF Call
    <3> QED BY <3>1, <3>3 DEF b
  <2>3. CASE StartRefund(c)
    <3>1. PICK o \in Later : call' = [call EXCEPT ![c] = Begun("refund", "refundLoad", o)]
      BY <2>3 DEF StartRefund
    <3> DEFINE b == Begun("refund", "refundLoad", o)
    <3>2. b \in Call /\ b.step = "refundLoad" /\ b.op = "refund"
      BY PaymentAssumption, BegunIsCall DEF Operation, Step
    <3> HIDE DEF b
    <3> QED BY <3>1, <3>2 DEF b
  <2>4. CASE StartCancel(c)
    <3>1. PICK o \in Later : call' = [call EXCEPT ![c] = Begun("cancel", "cancelLoad", o)]
      BY <2>4 DEF StartCancel
    <3> DEFINE b == Begun("cancel", "cancelLoad", o)
    <3>2. b \in Call /\ b.step = "cancelLoad" /\ b.op = "cancel"
      BY PaymentAssumption, BegunIsCall DEF Operation, Step
    <3> HIDE DEF b
    <3> QED BY <3>1, <3>2 DEF b
  <2> QED BY <2>1, <2>2, <2>3, <2>4 DEF Start
<1>3. PICK new \in Call : /\ call' = [call EXCEPT ![c] = new]
                          /\ \/ new.step \in {"load", "refundLoad"}
                             \/ new.step = "replay" /\ new.key \in Key
                             \/ new.step = "cancelLoad" /\ new.op = "cancel"
  BY <1>2
<1>4. /\ call' \in [Caller -> Call] /\ call'[c] = new
      /\ \A d \in Caller : d # c => call'[d] = call[d]
  BY <1>3, CallFacts, CallChange
<1>5. CallInv(c)'
  BY <1>3, <1>4, CalmCall DEF Calm
<1> QED BY <1>1, <1>3, <1>4, <1>5, CalmKeeps DEF At

(* An answer that the stored record bears out ends the call.                *)
LEMMA TellKeeps ==
  ASSUME IInv, NEW c \in Caller, ~At(c, "authorize"), ~At(c, "settle"),
         UNCHANGED <<payment, due, deaths, orphans, asked, wrong>>,
         NEW s \in {"SUCCEEDED", "FAILED", "REFUNDED", "closed"}, Tell(c, s),
         TrueOf([order |-> OrderOf(c), status |-> s], Stored(c))
  PROVE  IInv'
<1>1. /\ call' \in [Caller -> Call] /\ call'[c].step = "idle"
      /\ \A d \in Caller : d # c => call'[d] = call[d]
  BY CallFacts, FinishCall DEF Tell
<1>2. CallInv(c)'
  BY <1>1, CalmCall DEF Calm
<1>3. [order |-> OrderOf(c), status |-> s] \in Answer
  BY CallFacts DEF Answer
<1>4. \A a \in told' : a \in told \/ (a \in Answer /\ TrueOf(a, payment[a.order]))
  BY <1>3 DEF Tell, Stored
<1> QED BY <1>1, <1>2, <1>4, CalmKeeps

(* A call that ends or moves on without an answer.                          *)
LEMMA FinishKeeps ==
  ASSUME IInv, NEW c \in Caller, ~At(c, "authorize"), ~At(c, "settle"),
         UNCHANGED <<payment, due, deaths, orphans, asked, wrong, told>>, Finish(c)
  PROVE  IInv'
<1>1. /\ call' \in [Caller -> Call] /\ call'[c].step = "idle"
      /\ \A d \in Caller : d # c => call'[d] = call[d]
  BY CallFacts, FinishCall
<1>2. CallInv(c)'
  BY <1>1, CalmCall DEF Calm
<1> QED BY <1>1, <1>2, CalmKeeps

LEMMA GotoKeeps ==
  ASSUME IInv, NEW c \in Caller, ~At(c, "authorize"), ~At(c, "settle"),
         UNCHANGED <<payment, due, deaths, orphans, asked, wrong, told>>,
         NEW s \in Calm, Goto(c, s),
         s \in {"replay", "exists", "insert"} => At(c, "replay") \/ At(c, "exists")
  PROVE  IInv'
<1>1. s \in Step /\ s \notin {"authorize", "settle"}
  BY DEF Calm, Step
<1>2. /\ call' \in [Caller -> Call] /\ call'[c].step = s /\ call'[c].key = call[c].key
      /\ \A d \in Caller : d # c => call'[d] = call[d]
  BY <1>1, CallFacts, GotoCall
<1>3. CallInv(c)'
  <2>1. s \in {"replay", "exists", "insert"} => call[c].key \in Key
    BY CallFacts DEF CallInv
  <2> QED BY <1>2, <2>1, CalmCall
<1> QED BY <1>1, <1>2, <1>3, CalmKeeps

LEMMA PrepareKeeps ==
  ASSUME IInv, NEW c \in Caller, ~At(c, "authorize"), ~At(c, "settle"),
         UNCHANGED <<payment, due, deaths, orphans, asked, wrong, told>>,
         NEW s \in {"verify", "confirmWrite", "refundWrite", "cancelWrite"},
         NEW p \in PaymentDocument, Prepare(c, s, p), CallInv(c)'
  PROVE  IInv'
<1>1. s \in Step /\ s \notin {"authorize", "settle"}
  BY DEF Step
<1>2. /\ call' \in [Caller -> Call] /\ call'[c].step = s
      /\ \A d \in Caller : d # c => call'[d] = call[d]
  BY <1>1, CallFacts, PrepareCall
<1> QED BY <1>1, <1>2, CalmKeeps

(* The first result of the intent is answered again.                        *)
LEMMA ReplayKeeps ==
  ASSUME IInv, NEW c \in Caller, ~At(c, "authorize"), ~At(c, "settle"),
         UNCHANGED <<payment, due, deaths, orphans, asked, wrong>>, AnswerReplay(c)
  PROVE  IInv'
<1>1. CASE SameCharge(c) /\ Stored(c).status \in {"SUCCEEDED", "FAILED"}
  <2>1. Tell(c, Stored(c).status)
    BY <1>1 DEF AnswerReplay
  <2>2. CASE Stored(c).status = "SUCCEEDED"
    <3>1. Tell(c, "SUCCEEDED") /\ TrueOf([order |-> OrderOf(c), status |-> "SUCCEEDED"], Stored(c))
      BY <2>1, <2>2 DEF TrueOf
    <3> QED BY <3>1, TellKeeps
  <2>3. CASE Stored(c).status = "FAILED"
    <3>1. Tell(c, "FAILED") /\ TrueOf([order |-> OrderOf(c), status |-> "FAILED"], Stored(c))
      BY <2>1, <2>3 DEF TrueOf
    <3> QED BY <3>1, TellKeeps
  <2> QED BY <1>1, <2>2, <2>3
<1>2. CASE ~(SameCharge(c) /\ Stored(c).status \in {"SUCCEEDED", "FAILED"})
  BY <1>2, FinishKeeps DEF AnswerReplay
<1> QED BY <1>1, <1>2

(* The reads of Charge, and an insert that another record prevents.         *)
LEMMA ChargeReadsKeep ==
  ASSUME IInv, NEW c \in Caller,
         \/ FindReplay(c) \/ FindByOrder(c) \/ NoSuchCard(c) \/ FindWinner(c)
         \/ (Insert(c) /\ ~Insertable(c))
  PROVE  IInv'
<1> USE DEF At, history
<1>1. CASE FindReplay(c)
  <2>1. CASE WithKey(call[c].key) # {}
    BY <1>1, <2>1, ReplayKeeps DEF FindReplay
  <2>2. CASE ~(WithKey(call[c].key) # {})
    BY <1>1, <2>2, GotoKeeps DEF FindReplay, Calm
  <2> QED BY <2>1, <2>2
<1>2. CASE FindByOrder(c)
  <2>1. CASE Stored(c) = None
    BY <1>2, <2>1, GotoKeeps DEF FindByOrder, Calm
  <2>2. CASE ~(Stored(c) = None)
    BY <1>2, <2>2, FinishKeeps DEF FindByOrder
  <2> QED BY <2>1, <2>2
<1>3. CASE NoSuchCard(c)
  BY <1>3, FinishKeeps DEF NoSuchCard
<1>4. CASE FindWinner(c)
  BY <1>4, ReplayKeeps DEF FindWinner
<1>5. CASE Insert(c) /\ ~Insertable(c)
  BY <1>5, GotoKeeps DEF Insert, Calm
<1> QED BY <1>1, <1>2, <1>3, <1>4, <1>5

(* Confirm3Ds reads the record and prepares what it will write.             *)
LEMMA LoadKeeps ==
  ASSUME IInv, NEW c \in Caller, Load(c)
  PROVE  IInv'
<1> DEFINE p == Stored(c)
<1>1. /\ At(c, "load") /\ ~At(c, "authorize") /\ ~At(c, "settle")
      /\ UNCHANGED <<payment, due, deaths, orphans, asked, wrong>>
  BY DEF Load, At
<1>2. ASSUME Tell(c, p.status), p.status = "SUCCEEDED" \/ p.closedReason # "none"
      PROVE  IInv'
  <2>1. p.status \in {"SUCCEEDED", "FAILED"}
    BY <1>2, CallFacts DEF RecordInv, Stored
  <2>2. CASE p.status = "SUCCEEDED"
    <3>1. Tell(c, "SUCCEEDED") /\ TrueOf([order |-> OrderOf(c), status |-> "SUCCEEDED"], Stored(c))
      BY <1>2, <2>2 DEF TrueOf
    <3> QED BY <1>1, <3>1, TellKeeps
  <2>3. CASE p.status = "FAILED"
    <3>1. Tell(c, "FAILED") /\ TrueOf([order |-> OrderOf(c), status |-> "FAILED"], Stored(c))
      BY <1>2, <2>3 DEF TrueOf
    <3> QED BY <1>1, <3>1, TellKeeps
  <2> QED BY <2>1, <2>2, <2>3
<1>3. ASSUME Finish(c), told' = told
      PROVE  IInv'
  BY <1>1, <1>3, FinishKeeps
<1>4. ASSUME p.status = "REQUIRES_3DS"
      PROVE  p \in Document /\ p \in PaymentDocument /\ p.version \in Nat
  BY <1>4, CallFacts, DocumentFields
<1>5. ASSUME p.status = "REQUIRES_3DS", told' = told,
             NEW q \in {Closed(p, "expired"), Paid(p), Counted(p)}, Prepare(c, "confirmWrite", q)
      PROVE  IInv'
  <2>1. q \in Document /\ q \in PaymentDocument /\ q.version = p.version + 1
    <3>1. p \in Document
      BY <1>4, <1>5
    <3> HIDE DEF p
    <3> QED BY <1>5, <3>1, Successors, DocumentFields
  <2>2. /\ call'[c].step = "confirmWrite" /\ call'[c].doc = q /\ call'[c].order = OrderOf(c)
    BY <2>1, <1>5, CallFacts, PrepareCall DEF Step, OrderOf
  <2>3. payment'[OrderOf(c)] = p
    BY <1>1 DEF Stored
  <2>4. CallInv(c)'
    <3>1. 0 < q.version /\ q.version - 1 <= p.version
      BY <1>4, <1>5, <2>1
    <3> HIDE DEF p
    <3> QED BY <1>5, <2>2, <2>3, <3>1 DEF CallInv, At, Writing, Stored, OrderOf
  <2> QED BY <1>1, <1>5, <2>1, <2>4, PrepareKeeps
<1>6. ASSUME p.status = "REQUIRES_3DS", told' = told, Prepare(c, "verify", p)
      PROVE  IInv'
  <2>1. /\ call'[c].step = "verify" /\ call'[c].doc = p /\ call'[c].order = OrderOf(c)
    BY <1>4, <1>6, CallFacts, PrepareCall DEF Step, OrderOf
  <2>2. payment'[OrderOf(c)] = p
    BY <1>1 DEF Stored
  <2>3. CallInv(c)'
    <3> HIDE DEF p
    <3> QED BY <1>4, <1>6, <2>1, <2>2 DEF CallInv, At, Writing, Stored, OrderOf
  <2> QED BY <1>1, <1>4, <1>6, <2>3, PrepareKeeps
<1>7. \/ Tell(c, p.status) /\ (p.status = "SUCCEEDED" \/ p.closedReason # "none")
      \/ Finish(c) /\ told' = told
      \/ /\ p.status = "REQUIRES_3DS" /\ told' = told
         /\ \/ Prepare(c, "confirmWrite", Closed(p, "expired"))
            \/ Prepare(c, "confirmWrite", Verified(c, p))
            \/ Prepare(c, "verify", p)
  BY DEF Load
<1>8. Verified(c, p) \in {Paid(p), Counted(p)}
  BY DEF Verified, Paid
<1> HIDE DEF p
<1> QED BY <1>2, <1>3, <1>5, <1>6, <1>7, <1>8

(* The provider's answer on a code.                                         *)
LEMMA VerifyKeeps ==
  ASSUME IInv, NEW c \in Caller, Verify(c)
  PROVE  IInv'
<1> DEFINE p == call[c].doc
           q == Verified(c, p)
<1>1. /\ At(c, "verify") /\ ~At(c, "authorize") /\ ~At(c, "settle")
      /\ UNCHANGED <<payment, due, deaths, orphans, asked, wrong, told>>
  BY DEF Verify, At, history
<1>2. CASE Finish(c)
  BY <1>1, <1>2, FinishKeeps
<1>3. CASE call' = [call EXCEPT ![c].step = "confirmWrite", ![c].verified = TRUE, ![c].doc = q]
  <2>1. /\ p \in Document /\ p.version \in Nat /\ p.status = "REQUIRES_3DS"
        /\ p.version <= Stored(c).version /\ Stored(c).version \in Nat
        /\ p.version = Stored(c).version => p = Stored(c)
    BY <1>1, CallFacts, DocumentFields DEF CallInv
  <2>2. q \in {Paid(p), Counted(p)}
    BY DEF Verified, Paid
  <2>3. q \in Document /\ q \in PaymentDocument /\ q.version = p.version + 1
    <3> HIDE DEF p, q
    <3> QED BY <2>1, <2>2, Successors, DocumentFields
  <2> HIDE DEF q
  <2> DEFINE k == [call[c] EXCEPT !.step = "confirmWrite"]
             l == [k EXCEPT !.verified = TRUE]
             new == [l EXCEPT !.doc = q]
  <2>4. k \in Call /\ k.step = "confirmWrite" /\ k.order = OrderOf(c)
    BY CallFacts DEF Call, Step, OrderOf
  <2> HIDE DEF k
  <2>5. l \in Call /\ l.step = "confirmWrite" /\ l.order = OrderOf(c)
    BY <2>4 DEF Call
  <2> HIDE DEF l
  <2>6. new \in Call /\ new.step = "confirmWrite" /\ new.order = OrderOf(c) /\ new.doc = q
    BY <2>3, <2>5 DEF Call
  <2>7. call' = [call EXCEPT ![c] = new]
    BY <1>3 DEF k, l
  <2> HIDE DEF new
  <2>8. /\ call' \in [Caller -> Call] /\ call'[c] = new
        /\ \A d \in Caller : d # c => call'[d] = call[d]
    BY <2>6, <2>7, CallFacts, CallChange
  <2>9. CallInv(c)'
    <3>1. 0 < q.version /\ q.version - 1 <= Stored(c).version
      BY <2>1, <2>3
    <3>2. Stored(c).version = q.version - 1 => p = Stored(c)
      BY <2>1, <2>3
    <3>3. payment'[OrderOf(c)] = Stored(c)
      BY <1>1 DEF Stored
    <3> HIDE DEF p
    <3> QED BY <2>1, <2>2, <2>6, <2>8, <3>1, <3>2, <3>3 DEF CallInv, At, Writing, Stored, OrderOf, Fresh
  <2> QED BY <1>1, <2>6, <2>8, <2>9, CalmKeeps
<1>4. \/ Finish(c)
      \/ call' = [call EXCEPT ![c].step = "confirmWrite", ![c].verified = TRUE, ![c].doc = q]
  BY DEF Verify
<1> QED BY <1>2, <1>3, <1>4

(* A command or a refund that meets a record it has nothing to do for.      *)
LEMMA HandledKeeps ==
  ASSUME IInv, NEW c \in Caller, ~At(c, "authorize"), ~At(c, "settle"),
         UNCHANGED <<payment, due, deaths, orphans, asked, wrong>>, Handled(c),
         \/ Stored(c).status = "REFUNDED"
         \/ Stored(c).status \in {"CANCELLED", "FAILED"} /\ call[c].op = "cancel"
  PROVE  IInv'
<1>1. CASE call[c].op = "cancel"
  <2>1. Tell(c, "closed") /\ TrueOf([order |-> OrderOf(c), status |-> "closed"], Stored(c))
    BY <1>1 DEF Handled, TrueOf
  <2> QED BY <2>1, TellKeeps
<1>2. CASE call[c].op # "cancel"
  <2>1. Tell(c, "REFUNDED") /\ TrueOf([order |-> OrderOf(c), status |-> "REFUNDED"], Stored(c))
    BY <1>2 DEF Handled, TrueOf
  <2> QED BY <2>1, TellKeeps
<1> QED BY <1>1, <1>2

LEMMA RefundReadsKeep ==
  ASSUME IInv, NEW c \in Caller, RefundLoad(c) \/ RefundReread(c)
  PROVE  IInv'
<1> DEFINE p == Stored(c)
<1>1. /\ ~At(c, "authorize") /\ ~At(c, "settle")
      /\ UNCHANGED <<payment, due, deaths, orphans, asked, wrong>>
  BY DEF RefundLoad, RefundReread, At
<1>2. CASE p.status = "REFUNDED" /\ Handled(c)
  BY <1>1, <1>2, HandledKeeps
<1>3. CASE Finish(c) /\ told' = told
  BY <1>1, <1>3, FinishKeeps
<1>4. CASE p.status = "SUCCEEDED" /\ Prepare(c, "refundWrite", Refunded(p)) /\ told' = told
  <2>1. p \in Document /\ p.version \in Nat
    BY <1>4, CallFacts, DocumentFields
  <2>2. Refunded(p) \in PaymentDocument /\ Refunded(p).version = p.version + 1
    <3> HIDE DEF p
    <3> QED BY <2>1, Successors, DocumentFields
  <2>3. /\ call'[c].step = "refundWrite" /\ call'[c].doc = Refunded(p) /\ call'[c].order = OrderOf(c)
    BY <2>2, <1>4, CallFacts, PrepareCall DEF Step, OrderOf
  <2>4. payment'[OrderOf(c)] = p
    BY <1>1 DEF Stored
  <2>5. CallInv(c)'
    <3>1. 0 < Refunded(p).version /\ Refunded(p).version - 1 <= p.version
      BY <2>1, <2>2
    <3> HIDE DEF p
    <3> QED BY <1>4, <2>3, <2>4, <3>1 DEF CallInv, At, Writing, Stored, OrderOf
  <2> QED BY <1>1, <1>4, <2>2, <2>5, PrepareKeeps
<1>5. \/ p.status = "REFUNDED" /\ Handled(c)
      \/ Finish(c) /\ told' = told
      \/ p.status = "SUCCEEDED" /\ Prepare(c, "refundWrite", Refunded(p)) /\ told' = told
  BY DEF RefundLoad, RefundReread, Refundable, Refunded
<1> QED BY <1>2, <1>3, <1>4, <1>5

LEMMA CancelLoadKeeps ==
  ASSUME IInv, NEW c \in Caller, CancelLoad(c)
  PROVE  IInv'
<1> DEFINE p == Stored(c)
<1>1. /\ At(c, "cancelLoad") /\ ~At(c, "authorize") /\ ~At(c, "settle")
      /\ UNCHANGED <<payment, due, deaths, orphans, asked, wrong>>
  BY DEF CancelLoad, At
<1>2. call[c].op = "cancel"
  BY <1>1, CallFacts DEF CallInv
<1>3. CASE p.status \in {"CANCELLED", "FAILED", "REFUNDED"} /\ Handled(c)
  BY <1>1, <1>2, <1>3, HandledKeeps
<1>4. CASE Cancellable(p) /\ Prepare(c, "cancelWrite", Cancelled(p)) /\ told' = told
  <2>1. p \in Document /\ p.version \in Nat
    BY <1>4, CallFacts, DocumentFields DEF Cancellable
  <2>2. Cancelled(p) \in PaymentDocument /\ Cancelled(p).version = p.version + 1
    <3> HIDE DEF p
    <3> QED BY <2>1, Successors, DocumentFields
  <2>3. /\ call'[c].step = "cancelWrite" /\ call'[c].doc = Cancelled(p) /\ call'[c].order = OrderOf(c)
        /\ call'[c].op = "cancel"
    BY <2>2, <1>2, <1>4, CallFacts, PrepareCall DEF Step, OrderOf
  <2>4. payment'[OrderOf(c)] = p
    BY <1>1 DEF Stored
  <2>5. CallInv(c)'
    <3>1. 0 < Cancelled(p).version /\ Cancelled(p).version - 1 <= p.version
      BY <2>1, <2>2
    <3> HIDE DEF p
    <3> QED BY <1>4, <2>3, <2>4, <3>1 DEF CallInv, At, Writing, Stored, OrderOf
  <2> QED BY <1>1, <1>4, <2>2, <2>5, PrepareKeeps
<1>5. CASE Goto(c, "refundLoad") /\ told' = told
  BY <1>1, <1>5, GotoKeeps DEF Calm
<1>6. CASE Finish(c) /\ told' = told
  BY <1>1, <1>6, FinishKeeps
<1>7. \/ p.status \in {"CANCELLED", "FAILED", "REFUNDED"} /\ Handled(c)
      \/ Cancellable(p) /\ Prepare(c, "cancelWrite", Cancelled(p)) /\ told' = told
      \/ Goto(c, "refundLoad") /\ told' = told
      \/ Finish(c) /\ told' = told
  BY DEF CancelLoad, Cancelled
<1> QED BY <1>3, <1>4, <1>5, <1>6, <1>7

(* A conditional write that found a newer version.                          *)
LEMMA StaleKeeps ==
  ASSUME IInv, NEW c \in Caller, ~Fresh(c),
         ConfirmWrite(c) \/ RefundWrite(c) \/ CancelWrite(c)
  PROVE  IInv'
<1>1. ~At(c, "authorize") /\ ~At(c, "settle")
  BY DEF ConfirmWrite, RefundWrite, CancelWrite, At
<1>2. UNCHANGED <<payment, due, deaths, orphans, asked, wrong, told>>
  BY DEF ConfirmWrite, RefundWrite, CancelWrite
<1>3. CASE Finish(c)
  BY <1>1, <1>2, <1>3, FinishKeeps
<1>4. CASE RefundWrite(c)
  BY <1>1, <1>2, <1>4, GotoKeeps DEF RefundWrite, Calm
<1>5. ASSUME NEW s \in {"load", "cancelLoad"}, s = "cancelLoad" => call[c].op = "cancel",
             call' = [call EXCEPT ![c].step = s, ![c].attempt = @ + 1, ![c].doc = None]
      PROVE  IInv'
  <2> DEFINE k == [call[c] EXCEPT !.step = s]
             l == [k EXCEPT !.attempt = call[c].attempt + 1]
             new == [l EXCEPT !.doc = None]
  <2>1. k \in Call /\ k.step = s /\ k.op = call[c].op /\ call[c].attempt + 1 \in Nat
    BY CallFacts DEF Call, Step
  <2> HIDE DEF k
  <2>2. l \in Call /\ l.step = s /\ l.op = call[c].op
    BY <2>1 DEF Call
  <2> HIDE DEF l
  <2>3. None \in PaymentDocument
    BY DEF PaymentDocument
  <2>4. new \in Call /\ new.step = s /\ new.op = call[c].op
    BY <2>2, <2>3 DEF Call
  <2>5. call' = [call EXCEPT ![c] = new]
    BY <1>5 DEF k, l
  <2> HIDE DEF new
  <2>6. /\ call' \in [Caller -> Call] /\ call'[c] = new
        /\ \A d \in Caller : d # c => call'[d] = call[d]
    BY <2>4, <2>5, CallFacts, CallChange
  <2>7. CallInv(c)'
    BY <1>5, <2>4, <2>6, CalmCall DEF Calm
  <2> QED BY <1>1, <1>2, <1>5, <2>4, <2>6, <2>7, CalmKeeps
<1>6. CASE ConfirmWrite(c)
  <2>1. \/ Finish(c)
        \/ call' = [call EXCEPT ![c].step = "load", ![c].attempt = @ + 1, ![c].doc = None]
    BY <1>6 DEF ConfirmWrite
  <2> QED BY <1>3, <1>5, <2>1
<1>7. CASE CancelWrite(c)
  <2>1. \/ Finish(c)
        \/ call' = [call EXCEPT ![c].step = "cancelLoad", ![c].attempt = @ + 1, ![c].doc = None]
    BY <1>7 DEF CancelWrite
  <2>2. call[c].op = "cancel"
    BY <1>7, CallFacts DEF CancelWrite, CallInv
  <2> QED BY <1>3, <1>5, <2>1, <2>2
<1> QED BY <1>4, <1>6, <1>7

(* A call dies: if it was charging, its order is an orphan.                 *)
LEMMA DiesKeeps ==
  ASSUME IInv, NEW c \in Caller, Dies(c)
  PROVE  IInv'
<1>1. /\ call' \in [Caller -> Call] /\ call'[c].step = "idle"
      /\ \A d \in Caller : d # c => call'[d] = call[d]
  BY CallFacts, FinishCall DEF Dies
<1>2. CallInv(c)' /\ \A o \in Order : ~Charging(c, o)'
  BY <1>1, CalmCall DEF Calm
<1>3. /\ deaths' \in 0 .. MaxDeaths
      /\ payment' = payment /\ asked' = asked /\ wrong' = wrong /\ due' = due /\ told' = told
  BY CallFacts, PaymentAssumption DEF Dies
<1>4. /\ orphans \subseteq orphans' /\ orphans' \subseteq Order
      /\ \A o \in Order : Charging(c, o) => o \in orphans'
  BY CallFacts DEF Dies, Charging
<1> QED BY <1>1, <1>2, <1>3, <1>4, CallFacts, QuietKeeps

LEMMA RunOutKeeps ==
  ASSUME IInv, NEW o \in Order, RunOut(o)
  PROVE  IInv'
<1>1. due' \subseteq Order /\ UNCHANGED <<payment, call, deaths, orphans, asked, wrong, told>>
  BY DEF RunOut, history, IInv, TypeOK
<1>2. TypeOK'
  BY <1>1 DEF IInv, TypeOK
<1>3. \A p \in Order : RecordInv(p)'
  BY <1>1 DEF IInv, RecordInv
<1>4. \A c \in Caller : CallInv(c)'
  BY <1>1 DEF IInv, CallInv, At, OrderOf, Stored, Writing, Fresh
<1>5. PendingIsOwned'
  BY <1>1 DEF IInv, PendingIsOwned, Charging, At, OrderOf
<1>6. AnswersStand'
  BY <1>1 DEF IInv, AnswersStand
<1> QED BY <1>2, <1>3, <1>4, <1>5, <1>6 DEF IInv

-----------------------------------------------------------------------------
(* Steps that write a record                                                *)

(* Which status may follow which.                                           *)
Follows(p, q) ==
  \/ p.status = "PENDING" /\ p.method = "CARD" /\ q.status \in Results
  \/ p.status = "REQUIRES_3DS" /\ q.status \in {"REQUIRES_3DS", "SUCCEEDED", "FAILED", "CANCELLED"}
  \/ p.status = "SUCCEEDED" /\ q.status = "REFUNDED"
  \/ p.status = "PENDING" /\ p.method = "CASH_ON_DELIVERY" /\ q.status = "CANCELLED"

(* A caller's document goes into the record of its order.                   *)
Advances(c) ==
  /\ payment' = [payment EXCEPT ![OrderOf(c)] = call[c].doc]
  /\ Follows(Stored(c), call[c].doc) /\ call[c].doc.method = Stored(c).method

(* A conditional write that found the version it expects.                   *)
LEMMA WriteKeeps ==
  ASSUME IInv, NEW c \in Caller, NEW q \in Document,
         payment' = [payment EXCEPT ![OrderOf(c)] = q], Follows(Stored(c), q),
         q.version = Stored(c).version + 1, q.method = Stored(c).method,
         q.closedReason # "none" => q.status = "FAILED",
         q.failedAttempts <= MaxAttempts,
         q.status # "FAILED" => q.failedAttempts < MaxAttempts,
         wrong' = [wrong EXCEPT ![OrderOf(c)] = q.failedAttempts],
         Charging(c, OrderOf(c)) \/ Stored(c).status # "PENDING" \/ Stored(c).method # "CARD",
         UNCHANGED <<due, deaths, orphans, asked>>,
         call' \in [Caller -> Call], call'[c].step = "idle",
         \A d \in Caller : d # c => call'[d] = call[d],
         \A a \in told' : a \in told \/ (a \in Answer /\ a.order = OrderOf(c) /\ TrueOf(a, q))
  PROVE  IInv'
<1> DEFINE o == OrderOf(c)
           p == Stored(c)
<1>1. /\ o \in Order /\ p \in PaymentDocument /\ p = payment[o]
      /\ payment \in [Order -> PaymentDocument] /\ RecordInv(o) /\ told \subseteq Answer
  BY CallFacts DEF Stored
<1>2. p.version \in Nat /\ p.status # "NONE" /\ q \in PaymentDocument
  BY <1>1, DocumentFields DEF Follows
<1> HIDE DEF o, p
<1>3. /\ payment' \in [Order -> PaymentDocument] /\ payment'[o] = q
      /\ \A x \in Order : x # o => payment'[x] = payment[x]
  BY <1>1, <1>2 DEF o
<1>4. CallInv(c)' /\ \A x \in Order : ~Charging(c, x)'
  BY CalmCall DEF Calm
<1>5. \A d \in Caller : d # c => ~Charging(d, o)
  <2> SUFFICES ASSUME NEW d \in Caller, d # c, Charging(d, o) PROVE FALSE
    OBVIOUS
  <2>1. p.status = "PENDING" /\ (Charging(c, o) => c = d)
    BY <1>1 DEF IInv, PendingIsOwned
  <2>2. p.method = "CARD"
    <3>1. CallInv(d) /\ OrderOf(d) = o /\ (At(d, "authorize") \/ At(d, "settle"))
      BY DEF IInv, Charging
    <3> QED BY <1>1, <3>1 DEF CallInv, Stored
  <2> QED BY <2>1, <2>2 DEF o, p
<1>6. TypeOK'
  <2>1. q.failedAttempts \in Nat
    BY <1>2, DocumentFields
  <2>2. wrong' \in [Order -> Nat]
    BY <2>1 DEF IInv, TypeOK
  <2>3. told' \subseteq Answer
    BY <1>1
  <2> QED BY <1>3, <2>2, <2>3 DEF IInv, TypeOK
<1>7. ASSUME NEW x \in Order
      PROVE  RecordInv(x)'
  <2>1. CASE x = o
    <3>1. q.status \notin {"NONE", "PENDING"}
      BY DEF Follows, Results
    <3>2. q.version > 0
      BY <1>2 DEF p
    <3>3. wrong'[x] = q.failedAttempts /\ asked'[x] <= 1
      BY <1>1, <2>1 DEF IInv, TypeOK, RecordInv, o
    <3> QED BY <1>3, <2>1, <3>1, <3>2, <3>3 DEF RecordInv
  <2>2. CASE x # o
    <3>1. payment'[x] = payment[x] /\ wrong'[x] = wrong[x] /\ asked'[x] = asked[x]
      BY <1>3, <2>2 DEF IInv, TypeOK, o
    <3>2. RecordInv(x)
      BY DEF IInv
    <3> QED BY <3>1, <3>2 DEF RecordInv
  <2> QED BY <2>1, <2>2
<1>8. ASSUME NEW d \in Caller
      PROVE  CallInv(d)'
  <2>1. CASE d = c
    BY <1>4, <2>1
  <2>2. CASE d # c
    <3>1. OrderOf(d) \in Order /\ call'[d] = call[d] /\ asked' = asked
      BY <2>2, CallFacts
    <3>2. \/ payment'[OrderOf(d)] = payment[OrderOf(d)]
          \/ /\ payment'[OrderOf(d)].version = payment[OrderOf(d)].version + 1
             /\ ~Charging(d, OrderOf(d))
      <4>1. CASE OrderOf(d) = o
        BY <1>1, <1>3, <1>5, <2>2, <4>1 DEF p
      <4>2. CASE OrderOf(d) # o
        BY <1>3, <3>1, <4>2
      <4> QED BY <4>1, <4>2
    <3> QED BY <1>1, <1>3, <3>1, <3>2, OtherCall
  <2> QED BY <2>1, <2>2
<1>9. PendingIsOwned'
  <2>1. \A d \in Caller, x \in Order : d # c => (Charging(d, x)' <=> Charging(d, x))
    BY DEF Charging, OrderOf, At
  <2>2. q.status # "PENDING"
    BY DEF Follows, Results
  <2>3. ASSUME NEW x \in Order, payment'[x].status = "PENDING", payment'[x].method = "CARD",
               x \notin orphans
        PROVE  \E d \in Caller : Charging(d, x)'
    <3>1. x # o /\ payment'[x] = payment[x]
      BY <1>3, <2>2, <2>3
    <3>2. PICK d \in Caller : Charging(d, x)
      BY <2>3, <3>1 DEF IInv, PendingIsOwned
    <3>3. d # c
      BY <3>1, <3>2 DEF Charging, o
    <3> QED BY <2>1, <3>2, <3>3
  <2>4. ASSUME NEW x \in Order, NEW d \in Caller, NEW e \in Caller, Charging(d, x)'
        PROVE  payment'[x].status = "PENDING" /\ (Charging(e, x)' => d = e)
    <3>1. d # c /\ Charging(d, x) /\ (Charging(e, x)' => Charging(e, x))
      BY <1>4, <2>1, <2>4
    <3>2. x # o /\ payment'[x] = payment[x]
      BY <1>3, <1>5, <3>1
    <3> QED BY <3>1, <3>2 DEF IInv, PendingIsOwned
  <2> QED BY <2>3, <2>4 DEF PendingIsOwned
<1>10. AnswersStand'
  <2> SUFFICES ASSUME NEW a \in told' PROVE TrueOf(a, payment'[a.order])
    BY DEF AnswersStand, TrueOf
  <2>1. CASE a \in told /\ a.order # o
    <3>1. TrueOf(a, payment[a.order]) /\ a.order \in Order
      BY <1>1, <2>1 DEF IInv, AnswersStand, TrueOf, Answer
    <3> QED BY <1>3, <2>1, <3>1
  <2>2. CASE a \in told /\ a.order = o
    <3>1. TrueOf(a, p) /\ a.status \in {"SUCCEEDED", "FAILED", "REFUNDED", "closed"}
      BY <1>1, <2>2 DEF IInv, AnswersStand, TrueOf, Answer
    <3>2. Follows(p, q)
      BY DEF p
    <3>3. TrueOf(a, q)
      BY <3>1, <3>2 DEF TrueOf, Follows
    <3> QED BY <1>3, <2>2, <3>3
  <2>3. CASE a \in Answer /\ a.order = OrderOf(c) /\ TrueOf(a, q)
    BY <1>3, <2>3 DEF o
  <2> QED BY <2>1, <2>2, <2>3
<1> QED BY <1>6, <1>7, <1>8, <1>9, <1>10 DEF IInv

(* A new record, of a card or of cash.                                      *)
LEMMA NewRecordKeeps ==
  ASSUME IInv, NEW c \in Caller, At(c, "insert"), Insertable(c),
         payment' = [payment EXCEPT ![OrderOf(c)] = Started(c)],
         UNCHANGED <<due, asked, wrong, told>>,
         deaths' \in 0 .. MaxDeaths, orphans \subseteq orphans', orphans' \subseteq Order,
         call' \in [Caller -> Call], \A d \in Caller : d # c => call'[d] = call[d],
         \/ /\ call'[c].step = "authorize" /\ call'[c].order = OrderOf(c)
            /\ call[c].method = "CARD"
         \/ /\ call'[c].step \in {"idle", "reread"}
            /\ call[c].method # "CARD" \/ OrderOf(c) \in orphans'
  PROVE  IInv'
<1> DEFINE o == OrderOf(c)
           q == Started(c)
<1>1. /\ o \in Order /\ payment \in [Order -> PaymentDocument] /\ RecordInv(o)
      /\ payment[o] = None /\ told \subseteq Answer
  BY CallFacts DEF Insertable, Stored
<1>2. /\ q.status = "PENDING" /\ q.version = 0 /\ q.failedAttempts = 0
      /\ q.closedReason = "none" /\ q.method = call[c].method
      /\ q \in PaymentDocument
  <2>1. call[c].key \in Key /\ call[c].method \in Method
    BY CallFacts DEF CallInv, Call
  <2>2. q = [key |-> call[c].key, method |-> call[c].method, status |-> "PENDING", version |-> 0,
             challenged |-> FALSE, failedAttempts |-> 0, closedReason |-> "none"]
    BY DEF Started
  <2> HIDE DEF q
  <2> QED BY <2>1, <2>2 DEF PaymentDocument, Status
<1> HIDE DEF o, q
<1>3. /\ payment' \in [Order -> PaymentDocument] /\ payment'[o] = q
      /\ \A x \in Order : x # o => payment'[x] = payment[x]
  BY <1>1, <1>2 DEF o, q
<1>4. payment[o].status = "NONE" /\ payment[o].failedAttempts = 0
  BY <1>1 DEF None
<1>5. \A d \in Caller : ~Charging(d, o)
  BY <1>1, <1>4 DEF IInv, PendingIsOwned
<1>6. TypeOK'
  BY <1>3 DEF IInv, TypeOK
<1>7. ASSUME NEW x \in Order
      PROVE  RecordInv(x)'
  <2>1. CASE x = o
    BY <1>1, <1>2, <1>3, <1>4, <2>1, PaymentAssumption DEF RecordInv
  <2>2. CASE x # o
    BY <1>3, <2>2 DEF IInv, RecordInv
  <2> QED BY <2>1, <2>2
<1>8. CallInv(c)'
  <2>1. CASE call'[c].step \in {"idle", "reread"}
    BY <2>1, CalmCall DEF Calm
  <2>2. CASE /\ call'[c].step = "authorize" /\ call'[c].order = OrderOf(c)
             /\ call[c].method = "CARD"
    <3>1. asked'[o] = 0 /\ payment'[o].method = "CARD"
      BY <1>1, <1>2, <1>3, <1>4, <2>2 DEF RecordInv
    <3>2. call'[c].order = o /\ call'[c].step = "authorize"
      BY <2>2 DEF o
    <3> QED BY <3>1, <3>2 DEF CallInv, At, Writing, Stored, OrderOf
  <2> QED BY <2>1, <2>2
<1>9. ASSUME NEW d \in Caller, d # c
      PROVE  CallInv(d)'
  <2>1. OrderOf(d) \in Order /\ call'[d] = call[d]
    BY <1>9, CallFacts
  <2>2. \/ payment'[OrderOf(d)] = payment[OrderOf(d)]
        \/ payment[OrderOf(d)] = None /\ payment'[OrderOf(d)].version = 0
    BY <1>1, <1>2, <1>3, <2>1
  <2> QED BY <1>1, <1>3, <2>1, <2>2, OtherCall
<1>10. PendingIsOwned'
  <2>1. \A d \in Caller, x \in Order : d # c => (Charging(d, x)' <=> Charging(d, x))
    BY DEF Charging, OrderOf, At
  <2>2. ~At(c, "authorize") /\ ~At(c, "settle")
    BY DEF At
  <2>3. ASSUME NEW x \in Order, payment'[x].status = "PENDING", payment'[x].method = "CARD",
               x \notin orphans'
        PROVE  \E d \in Caller : Charging(d, x)'
    <3>1. CASE x = o
      <4>1. call'[c].step = "authorize" /\ call'[c].order = o
        BY <1>2, <1>3, <2>3, <3>1 DEF o
      <4> QED BY <3>1, <4>1 DEF Charging, At, OrderOf
    <3>2. CASE x # o
      <4>1. payment[x].status = "PENDING" /\ payment[x].method = "CARD" /\ x \notin orphans
        BY <1>3, <2>3, <3>2
      <4>2. PICK d \in Caller : Charging(d, x)
        BY <4>1 DEF IInv, PendingIsOwned
      <4>3. d # c
        BY <2>2, <4>2 DEF Charging
      <4> QED BY <2>1, <4>2, <4>3
    <3> QED BY <3>1, <3>2
  <2>4. ASSUME NEW x \in Order, NEW d \in Caller, NEW e \in Caller, Charging(d, x)'
        PROVE  payment'[x].status = "PENDING" /\ (Charging(e, x)' => d = e)
    <3>1. Charging(c, x)' => x = o
      BY DEF Charging, At, OrderOf, o
    <3>2. CASE x = o
      <4>1. \A k \in Caller : k # c => ~Charging(k, x)'
        BY <1>5, <2>1, <3>2
      <4> QED BY <1>2, <1>3, <2>4, <3>2, <4>1
    <3>3. CASE x # o
      <4>1. /\ d # c /\ Charging(d, x) /\ (Charging(e, x)' => Charging(e, x))
            /\ payment'[x] = payment[x]
        BY <1>3, <2>1, <2>4, <3>1, <3>3
      <4> QED BY <4>1 DEF IInv, PendingIsOwned
    <3> QED BY <3>2, <3>3
  <2> QED BY <2>3, <2>4 DEF PendingIsOwned
<1>11. AnswersStand'
  <2> SUFFICES ASSUME NEW a \in told PROVE TrueOf(a, payment'[a.order])
    BY DEF AnswersStand, TrueOf
  <2>1. /\ TrueOf(a, payment[a.order]) /\ a.order \in Order
        /\ a.status \in {"SUCCEEDED", "FAILED", "REFUNDED", "closed"}
    BY <1>1 DEF IInv, AnswersStand, TrueOf, Answer
  <2>2. a.order # o
    BY <1>4, <2>1 DEF TrueOf
  <2> QED BY <1>3, <2>1, <2>2
<1> QED BY <1>6, <1>7, <1>8, <1>9, <1>10, <1>11 DEF IInv

LEMMA InsertKeeps ==
  ASSUME IInv, NEW c \in Caller, Insertable(c), Insert(c) \/ InsertAnswerLost(c)
  PROVE  IInv'
<1>1. /\ At(c, "insert") /\ payment' = [payment EXCEPT ![OrderOf(c)] = Started(c)]
      /\ UNCHANGED <<due, asked, wrong, told>>
  BY DEF Insert, InsertAnswerLost, history
<1>2. CASE Insert(c) /\ call[c].method = "CARD"
  <2>1. Goto(c, "authorize") /\ deaths' = deaths /\ orphans' = orphans
    BY <1>2 DEF Insert, history
  <2>2. /\ call' \in [Caller -> Call] /\ call'[c].step = "authorize"
        /\ call'[c].order = OrderOf(c)
        /\ \A d \in Caller : d # c => call'[d] = call[d]
    BY <2>1, CallFacts, GotoCall DEF Step, OrderOf
  <2> QED BY <1>1, <1>2, <2>1, <2>2, CallFacts, NewRecordKeeps
<1>3. CASE Insert(c) /\ call[c].method # "CARD"
  <2>1. Finish(c) /\ deaths' = deaths /\ orphans' = orphans
    BY <1>3 DEF Insert, history
  <2>2. /\ call' \in [Caller -> Call] /\ call'[c].step = "idle"
        /\ \A d \in Caller : d # c => call'[d] = call[d]
    BY <2>1, CallFacts, FinishCall
  <2> QED BY <1>1, <1>3, <2>1, <2>2, CallFacts, NewRecordKeeps
<1>4. CASE InsertAnswerLost(c)
  <2>1. /\ Goto(c, "reread") /\ deaths' = deaths + 1 /\ deaths < MaxDeaths
        /\ orphans' = orphans \cup {OrderOf(c)}
    BY <1>4 DEF InsertAnswerLost
  <2>2. /\ call' \in [Caller -> Call] /\ call'[c].step = "reread"
        /\ \A d \in Caller : d # c => call'[d] = call[d]
    BY <2>1, CallFacts, GotoCall DEF Step
  <2>3. deaths' \in 0 .. MaxDeaths
    BY <2>1, CallFacts, PaymentAssumption
  <2> QED BY <1>1, <2>1, <2>2, <2>3, CallFacts, NewRecordKeeps
<1> QED BY <1>2, <1>3, <1>4

(* The provider is asked: only the call that inserted the record comes here. *)
LEMMA AuthorizeKeeps ==
  ASSUME IInv, NEW c \in Caller, Authorize(c)
  PROVE  IInv'
<1> DEFINE o == OrderOf(c)
           p == Stored(c)
<1>1. /\ At(c, "authorize") /\ UNCHANGED <<payment, due, deaths, orphans, wrong, told>>
      /\ asked' = [asked EXCEPT ![o] = @ + 1]
  BY DEF Authorize
<1>2. PICK s \in Results : Prepare(c, "settle", Decided(p, s))
  BY DEF Authorize, Decision, Decided, Results
<1>3. /\ o \in Order /\ p.status = "PENDING" /\ p.method = "CARD" /\ asked[o] = 0
      /\ p \in Document /\ Charging(c, o)
      /\ \A d \in Caller : Charging(d, o) => d = c
  <2>1. Charging(c, o) /\ o \in Order /\ p \in PaymentDocument
    BY <1>1, CallFacts DEF Charging
  <2>2. p.status = "PENDING" /\ \A d \in Caller : Charging(d, o) => d = c
    BY <2>1 DEF IInv, PendingIsOwned, Stored
  <2>3. p.method = "CARD" /\ asked[o] = 0
    BY <1>1, CallFacts DEF CallInv
  <2> QED BY <2>1, <2>2, <2>3, DocumentFields
<1>4. Decided(p, s) \in PaymentDocument
  <2> HIDE DEF p
  <2> QED BY <1>3, Successors, DocumentFields
<1>5. /\ call' \in [Caller -> Call] /\ call'[c].step = "settle" /\ call'[c].order = o
      /\ call'[c].doc = Decided(p, s)
      /\ \A d \in Caller : d # c => call'[d] = call[d]
  BY <1>2, <1>4, CallFacts, PrepareCall DEF Step, OrderOf
<1>6. payment'[o] = p /\ payment' = payment
  BY <1>1 DEF Stored
<1>7. asked \in [Order -> Nat] /\ asked'[o] = 1 /\ \A x \in Order : x # o => asked'[x] = asked[x]
  BY <1>1, <1>3 DEF IInv, TypeOK
<1>8. asked' \in [Order -> Nat]
  BY <1>1, <1>3, <1>7
<1> HIDE DEF o, p
<1>9. TypeOK'
  BY <1>1, <1>5, <1>8 DEF IInv, TypeOK
<1>10. ASSUME NEW x \in Order
       PROVE  RecordInv(x)'
  <2>1. RecordInv(x) /\ payment'[x] = payment[x] /\ wrong'[x] = wrong[x]
    BY <1>1 DEF IInv
  <2>2. CASE x = o
    <3>1. payment[x].status = "PENDING"
      BY <1>3, <1>6, <2>1, <2>2
    <3> QED BY <1>7, <2>1, <2>2, <3>1 DEF RecordInv
  <2>3. CASE x # o
    BY <1>7, <2>1, <2>3 DEF RecordInv
  <2> QED BY <2>2, <2>3
<1>11. CallInv(c)'
  BY <1>2, <1>3, <1>5, <1>6 DEF CallInv, At, Writing, Stored, OrderOf
<1>12. ASSUME NEW d \in Caller, d # c
       PROVE  CallInv(d)'
  <2>1. OrderOf(d) \in Order /\ call'[d] = call[d] /\ payment \in [Order -> PaymentDocument]
    BY <1>5, <1>12, CallFacts
  <2>2. At(d, "authorize") => OrderOf(d) # o
    BY <1>3, <1>12 DEF Charging
  <2> QED BY <1>6, <1>7, <2>1, <2>2, OtherCall
<1>13. PendingIsOwned'
  <2>1. \A d \in Caller, x \in Order : Charging(d, x)' <=> Charging(d, x)
    <3>1. \A x \in Order : Charging(c, x)' <=> Charging(c, x)
      BY <1>1, <1>5 DEF Charging, At, OrderOf, o
    <3>2. \A d \in Caller, x \in Order : d # c => (Charging(d, x)' <=> Charging(d, x))
      BY <1>5 DEF Charging, At, OrderOf
    <3> QED BY <3>1, <3>2
  <2> QED BY <1>1, <2>1 DEF IInv, PendingIsOwned
<1>14. AnswersStand'
  BY <1>1 DEF IInv, AnswersStand
<1> QED BY <1>9, <1>10, <1>11, <1>12, <1>13, <1>14 DEF IInv

(* The provider's answer is written; nobody else could decide meanwhile.    *)
LEMMA SettleKeeps ==
  ASSUME IInv, NEW c \in Caller, Settle(c)
  PROVE  IInv' /\ Advances(c)
<1> DEFINE o == OrderOf(c)
           p == Stored(c)
<1>1. At(c, "settle") /\ UNCHANGED <<due, deaths, orphans, asked, wrong>>
  BY DEF Settle
<1>2. PICK s \in Results : call[c].doc = Decided(p, s)
  BY <1>1, CallFacts DEF CallInv
<1>3. /\ Charging(c, o) /\ o \in Order /\ p.status = "PENDING" /\ p.method = "CARD"
      /\ p \in Document /\ p.version \in Nat
  <2>1. Charging(c, o) /\ o \in Order /\ p \in PaymentDocument
    BY <1>1, CallFacts DEF Charging
  <2>2. p.status = "PENDING"
    BY <2>1 DEF IInv, PendingIsOwned, Stored
  <2>3. p.method = "CARD"
    BY <1>1, CallFacts DEF CallInv
  <2> QED BY <2>1, <2>2, <2>3, DocumentFields
<1> DEFINE q == call[c].doc
<1>4. /\ q \in Document /\ q.status = s /\ q.version = p.version + 1 /\ q.method = p.method
      /\ q.failedAttempts = p.failedAttempts /\ q.closedReason = p.closedReason
  <2> HIDE DEF p, q
  <2>1. q = Decided(p, s)
    BY <1>2 DEF q
  <2> QED BY <1>3, <2>1, Successors
<1>5. Fresh(c)
  BY <1>3, <1>4 DEF Fresh
<1>6. /\ payment' = [payment EXCEPT ![o] = q] /\ Finish(c)
      /\ \A a \in told' : a \in told \/ (a = [order |-> o, status |-> s] /\ s # "REQUIRES_3DS")
  BY <1>4, <1>5 DEF Settle, Store, Tell
<1>7. /\ call' \in [Caller -> Call] /\ call'[c].step = "idle"
      /\ \A d \in Caller : d # c => call'[d] = call[d]
  BY <1>6, CallFacts, FinishCall
<1>8. \A a \in told' : a \in told \/ (a \in Answer /\ a.order = o /\ TrueOf(a, q))
  BY <1>3, <1>4, <1>6 DEF Results, Answer, TrueOf
<1>9. /\ p.closedReason = "none" /\ p.failedAttempts = 0 /\ wrong[o] = 0 /\ 0 < MaxAttempts
      /\ wrong \in [Order -> Nat]
  BY <1>3, CallFacts, PaymentAssumption DEF RecordInv, Stored, IInv, TypeOK
<1>10. wrong' = [wrong EXCEPT ![o] = q.failedAttempts]
  BY <1>1, <1>3, <1>4, <1>9
<1>11. Follows(p, q)
  BY <1>3, <1>4 DEF Follows
<1>12. q.closedReason = "none" /\ q.failedAttempts <= MaxAttempts /\ q.failedAttempts < MaxAttempts
  BY <1>4, <1>9, PaymentAssumption
<1>13. q \in Document /\ q.version = p.version + 1 /\ q.method = p.method
  BY <1>4
<1>14. payment' = [payment EXCEPT ![o] = q]
  BY <1>6
<1>15. Advances(c)
  BY <1>11, <1>13, <1>14 DEF Advances
<1> HIDE DEF q
<1> QED BY <1>1, <1>3, <1>7, <1>8, <1>10, <1>11, <1>12, <1>13, <1>14, <1>15, WriteKeeps

(* A result of Confirm3Ds is written.                                       *)
LEMMA ConfirmKeeps ==
  ASSUME IInv, NEW c \in Caller, Fresh(c), ConfirmWrite(c)
  PROVE  IInv' /\ Advances(c)
<1> DEFINE o == OrderOf(c)
           p == Stored(c)
           q == call[c].doc
<1>1. At(c, "confirmWrite") /\ UNCHANGED <<due, deaths, orphans, asked>>
  BY DEF ConfirmWrite
<1>2. /\ p.status = "REQUIRES_3DS" /\ q \in {Closed(p, "expired"), Paid(p), Counted(p)}
      /\ o \in Order /\ p \in PaymentDocument
  BY <1>1, CallFacts DEF CallInv
<1>3. /\ p \in Document /\ p.closedReason = "none" /\ p.failedAttempts < MaxAttempts
      /\ wrong[o] = p.failedAttempts /\ wrong \in [Order -> Nat] /\ p.failedAttempts \in Nat
      /\ p.version \in Nat
  BY <1>2, CallFacts, DocumentFields DEF RecordInv, Stored, IInv, TypeOK
<1>4. /\ payment' = [payment EXCEPT ![o] = q] /\ Finish(c)
      /\ wrong' = IF q.status # "SUCCEEDED" /\ q.closedReason # "expired"
                  THEN [wrong EXCEPT ![o] = @ + 1] ELSE wrong
      /\ \A a \in told' : a \in told \/ (a = [order |-> o, status |-> q.status] /\ q.status # "REQUIRES_3DS")
  BY DEF ConfirmWrite, Store, Tell
<1>5. /\ call' \in [Caller -> Call] /\ call'[c].step = "idle"
      /\ \A d \in Caller : d # c => call'[d] = call[d]
  BY <1>4, CallFacts, FinishCall
<1> HIDE DEF p, q
<1>6. /\ q \in Document /\ q.version = p.version + 1 /\ q.method = p.method
  BY <1>2, <1>3, Successors
<1>7. /\ q.status \in {"REQUIRES_3DS", "SUCCEEDED", "FAILED"}
      /\ q.closedReason # "none" => q.status = "FAILED"
      /\ q.failedAttempts <= MaxAttempts
      /\ q.status # "FAILED" => q.failedAttempts < MaxAttempts
      /\ wrong' = [wrong EXCEPT ![o] = q.failedAttempts]
  <2>1. CASE q = Closed(p, "expired")
    <3>1. q.status = "FAILED" /\ q.closedReason = "expired" /\ q.failedAttempts = p.failedAttempts
      BY <1>3, <2>1, Successors
    <3>2. wrong' = wrong
      BY <1>4, <3>1
    <3> QED BY <1>2, <1>3, <3>1, <3>2, PaymentAssumption
  <2>2. CASE q = Paid(p)
    <3>1. /\ q.status = "SUCCEEDED" /\ q.closedReason = p.closedReason
          /\ q.failedAttempts = p.failedAttempts
      BY <1>3, <2>2, Successors
    <3>2. wrong' = wrong
      BY <1>4, <3>1
    <3> QED BY <1>2, <1>3, <3>1, <3>2, PaymentAssumption
  <2>3. CASE q = Counted(p)
    <3>1. /\ q.failedAttempts = p.failedAttempts + 1 /\ q.failedAttempts <= MaxAttempts
          /\ q.status \in {"FAILED", "REQUIRES_3DS"}
          /\ q.status = "REQUIRES_3DS" => q.failedAttempts < MaxAttempts /\ q.closedReason = "none"
          /\ q.closedReason # "expired"
      BY <1>2, <1>3, <2>3, CountedFields
    <3>2. wrong' = [wrong EXCEPT ![o] = @ + 1]
      BY <1>4, <3>1
    <3>3. wrong' = [wrong EXCEPT ![o] = q.failedAttempts]
      BY <1>2, <1>3, <3>1, <3>2
    <3> QED BY <3>1, <3>3
  <2> QED BY <1>2, <2>1, <2>2, <2>3
<1>8. \A a \in told' : a \in told \/ (a \in Answer /\ a.order = o /\ TrueOf(a, q))
  BY <1>2, <1>4, <1>7 DEF Answer, TrueOf
<1>9. Follows(p, q)
  BY <1>2, <1>7 DEF Follows
<1>10. Advances(c)
  BY <1>4, <1>6, <1>9 DEF Advances, p, q
<1>11. IInv'
  BY <1>1, <1>2, <1>4, <1>5, <1>6, <1>7, <1>8, <1>9, WriteKeeps DEF p
<1> QED BY <1>10, <1>11

(* A refund or a cancellation is written.                                   *)
LEMMA ReturnKeeps ==
  ASSUME IInv, NEW c \in Caller, Fresh(c), RefundWrite(c) \/ CancelWrite(c)
  PROVE  IInv' /\ Advances(c)
<1> DEFINE o == OrderOf(c)
           p == Stored(c)
           q == call[c].doc
<1>1. /\ UNCHANGED <<due, deaths, orphans, asked, wrong>>
      /\ payment' = [payment EXCEPT ![o] = q] /\ Handled(c)
  BY DEF RefundWrite, CancelWrite, Store
<1>2. /\ \/ p.status = "SUCCEEDED" /\ q = Refunded(p)
         \/ Cancellable(p) /\ q = Cancelled(p) /\ call[c].op = "cancel"
      /\ o \in Order /\ p \in PaymentDocument
  BY CallFacts DEF CallInv, RefundWrite, CancelWrite
<1>3. /\ p \in Document /\ p.status \notin {"NONE", "FAILED"}
      /\ p.version \in Nat /\ p.failedAttempts \in Nat
  BY <1>2, DocumentFields DEF Cancellable
<1>4. /\ p.closedReason = "none" /\ p.failedAttempts < MaxAttempts
      /\ wrong[o] = p.failedAttempts /\ wrong \in [Order -> Nat]
  BY <1>3, CallFacts DEF RecordInv, Stored, IInv, TypeOK
<1>5. /\ call' \in [Caller -> Call] /\ call'[c].step = "idle"
      /\ \A d \in Caller : d # c => call'[d] = call[d]
  BY <1>1, CallFacts, FinishCall DEF Handled, Tell
<1> HIDE DEF p, q
<1>6. /\ q \in Document /\ q.version = p.version + 1 /\ q.method = p.method
      /\ q.failedAttempts = p.failedAttempts /\ q.closedReason = p.closedReason
      /\ q = Refunded(p) => q.status = "REFUNDED"
      /\ q = Cancelled(p) => q.status = "CANCELLED"
  BY <1>2, <1>3, Successors
<1>7. Follows(p, q)
  BY <1>2, <1>6 DEF Follows, Cancellable
<1>8. wrong' = [wrong EXCEPT ![o] = q.failedAttempts]
  BY <1>1, <1>2, <1>4, <1>6
<1>9. \A a \in told' : a \in told \/ (a \in Answer /\ a.order = o /\ TrueOf(a, q))
  <2>1. CASE call[c].op = "cancel"
    <3>1. told' = told \cup {[order |-> o, status |-> "closed"]}
      BY <1>1, <2>1 DEF Handled, Tell
    <3>2. q.status \in {"REFUNDED", "CANCELLED"}
      BY <1>2, <1>6
    <3>3. /\ [order |-> o, status |-> "closed"] \in Answer
          /\ TrueOf([order |-> o, status |-> "closed"], q)
      BY <1>2, <3>2 DEF Answer, TrueOf
    <3> QED BY <3>1, <3>3
  <2>2. CASE call[c].op # "cancel"
    <3>1. told' = told \cup {[order |-> o, status |-> "REFUNDED"]} /\ q.status = "REFUNDED"
      BY <1>1, <1>2, <1>6, <2>2 DEF Handled, Tell
    <3>2. /\ [order |-> o, status |-> "REFUNDED"] \in Answer
          /\ TrueOf([order |-> o, status |-> "REFUNDED"], q)
      BY <1>2, <3>1 DEF Answer, TrueOf
    <3> QED BY <3>1, <3>2
  <2> QED BY <2>1, <2>2
<1>10. p.status # "PENDING" \/ p.method # "CARD"
  BY <1>2 DEF Cancellable
<1>11. q.closedReason = "none" /\ q.failedAttempts < MaxAttempts /\ q.failedAttempts <= MaxAttempts
  BY <1>3, <1>4, <1>6, PaymentAssumption
<1>12. Advances(c)
  BY <1>1, <1>6, <1>7 DEF Advances, p, q
<1>13. IInv'
  BY <1>1, <1>2, <1>5, <1>6, <1>7, <1>8, <1>9, <1>10, <1>11, WriteKeeps DEF p
<1> QED BY <1>12, <1>13

LEMMA ProceedKeeps ==
  ASSUME IInv, NEW c \in Caller, Proceed(c)
  PROVE  IInv'
<1>1. CASE FindReplay(c) \/ FindByOrder(c) \/ NoSuchCard(c) \/ FindWinner(c)
  BY <1>1, ChargeReadsKeep
<1>2. CASE Insert(c)
  BY <1>2, ChargeReadsKeep, InsertKeeps
<1>3. CASE Authorize(c)
  BY <1>3, AuthorizeKeeps
<1>4. CASE Settle(c)
  BY <1>4, SettleKeeps
<1>5. CASE Load(c)
  BY <1>5, LoadKeeps
<1>6. CASE Verify(c)
  BY <1>6, VerifyKeeps
<1>7. CASE ConfirmWrite(c)
  BY <1>7, ConfirmKeeps, StaleKeeps
<1>8. CASE RefundLoad(c) \/ RefundReread(c)
  BY <1>8, RefundReadsKeep
<1>9. CASE RefundWrite(c) \/ CancelWrite(c)
  BY <1>9, ReturnKeeps, StaleKeeps
<1>10. CASE CancelLoad(c)
  BY <1>10, CancelLoadKeeps
<1> QED BY <1>1, <1>2, <1>3, <1>4, <1>5, <1>6, <1>7, <1>8, <1>9, <1>10 DEF Proceed

LEMMA StepKeeps == IInv /\ [Next]_vars => IInv'
<1> SUFFICES ASSUME IInv, [Next]_vars PROVE IInv'
  OBVIOUS
<1>1. ASSUME NEW c \in Caller, Start(c) \/ Proceed(c) \/ InsertAnswerLost(c) \/ Dies(c)
      PROVE  IInv'
  <2>1. CASE InsertAnswerLost(c)
    BY <2>1, InsertKeeps DEF InsertAnswerLost
  <2> QED BY <1>1, <2>1, StartKeeps, ProceedKeeps, DiesKeeps
<1>2. ASSUME NEW o \in Order, RunOut(o)
      PROVE  IInv'
  BY <1>2, RunOutKeeps
<1>3. CASE UNCHANGED vars
  <2>1. UNCHANGED <<payment, due, call, deaths, orphans, asked, wrong, told>>
    BY <1>3 DEF vars
  <2>2. TypeOK' /\ (\A o \in Order : RecordInv(o)') /\ AnswersStand'
    BY <2>1 DEF IInv, TypeOK, RecordInv, AnswersStand
  <2>3. \A c \in Caller : CallInv(c)'
    BY <2>1 DEF IInv, CallInv, At, OrderOf, Stored, Writing, Fresh
  <2>4. PendingIsOwned'
    BY <2>1 DEF IInv, PendingIsOwned, Charging, At, OrderOf
  <2> QED BY <2>2, <2>3, <2>4 DEF IInv
<1> QED BY <1>1, <1>2, <1>3 DEF Next

LEMMA Invariant == Spec => []IInv
BY InitInv, StepKeeps, PTL DEF Spec

-----------------------------------------------------------------------------
(* What follows                                                             *)

(* Records, calls and answers keep their types.                             *)
THEOREM TypeCorrect == Spec => []TypeOK
<1>1. IInv => TypeOK
  BY DEF IInv
<1> QED BY <1>1, Invariant, PTL

(* No card is charged twice for an order: the provider is asked at most     *)
(* once, by the one call whose insert the unique indexes let through.       *)
THEOREM ChargedOnce == Spec => []AskedOnce
<1>1. IInv => AskedOnce
  BY DEF IInv, RecordInv, AskedOnce
<1> QED BY <1>1, Invariant, PTL

(* No wrong code is lost or counted twice, and none after the last counts   *)
(* as a payment.                                                            *)
THEOREM EveryAttemptCounts == Spec => []AttemptsCount
<1>1. IInv => AttemptsCount
  BY DEF IInv, RecordInv, AttemptsCount
<1> QED BY <1>1, Invariant, PTL

(* What a caller was told stays true of the record.                         *)
THEOREM AnswersStayTrue == Spec => []AnswersStand
<1>1. IInv => AnswersStand
  BY DEF IInv
<1> QED BY <1>1, Invariant, PTL

(* A card payment without a result is in the hands of exactly one call.     *)
THEOREM PendingHasOwner == Spec => []PendingIsOwned
<1>1. IInv => PendingIsOwned
  BY DEF IInv
<1> QED BY <1>1, Invariant, PTL

-----------------------------------------------------------------------------
(* The refinement                                                           *)

(* A step leaves the records, inserts one, or takes one a step further.     *)
LEMMA RecordMoves ==
  ASSUME IInv, [Next]_vars
  PROVE  \/ payment' = payment
         \/ \E c \in Caller :
              /\ Stored(c) = None
              /\ payment' = [payment EXCEPT ![OrderOf(c)] = Started(c)]
         \/ \E c \in Caller : Advances(c)
<1>1. ASSUME NEW c \in Caller, Proceed(c), payment' # payment
      PROVE  Advances(c) \/ /\ Stored(c) = None
                            /\ payment' = [payment EXCEPT ![OrderOf(c)] = Started(c)]
  <2>1. CASE Insert(c)
    <3>1. Insertable(c)
      BY <1>1, <2>1 DEF Insert
    <3> QED BY <2>1, <3>1 DEF Insert, Insertable
  <2>2. CASE Settle(c)
    BY <2>2, SettleKeeps
  <2>3. CASE ConfirmWrite(c)
    <3>1. Fresh(c)
      BY <1>1, <2>3 DEF ConfirmWrite
    <3> QED BY <2>3, <3>1, ConfirmKeeps
  <2>4. CASE RefundWrite(c) \/ CancelWrite(c)
    <3>1. Fresh(c)
      BY <1>1, <2>4 DEF RefundWrite, CancelWrite
    <3> QED BY <2>4, <3>1, ReturnKeeps
  <2>5. CASE \/ FindReplay(c) \/ FindByOrder(c) \/ NoSuchCard(c) \/ FindWinner(c)
             \/ Authorize(c) \/ Load(c) \/ Verify(c)
             \/ RefundLoad(c) \/ RefundReread(c) \/ CancelLoad(c)
    BY <1>1, <2>5 DEF FindReplay, FindByOrder, NoSuchCard, FindWinner, Authorize, Load, Verify,
                      RefundLoad, RefundReread, CancelLoad
  <2> QED BY <1>1, <2>1, <2>2, <2>3, <2>4, <2>5 DEF Proceed
<1>2. ASSUME NEW c \in Caller, Start(c) \/ Dies(c)
      PROVE  payment' = payment
  BY <1>2 DEF Start, StartCharge, StartConfirm, StartRefund, StartCancel, Dies
<1>3. ASSUME NEW c \in Caller, InsertAnswerLost(c)
      PROVE  Stored(c) = None /\ payment' = [payment EXCEPT ![OrderOf(c)] = Started(c)]
  BY <1>3 DEF InsertAnswerLost, Insertable
<1>4. ASSUME NEW o \in Order, RunOut(o)
      PROVE  payment' = payment
  BY <1>4 DEF RunOut
<1>5. CASE UNCHANGED vars
  BY <1>5 DEF vars
<1> QED BY <1>1, <1>2, <1>3, <1>4, <1>5 DEF Next

StatusOf == [o \in Order |-> payment[o].status]
MethodOf == [o \in Order |-> payment[o].method]

LEMMA InitRecords == Init => Records!Init
BY DEF Init, Records!Init, None

LEMMA StepRecords ==
  IInv /\ [Next]_vars => [Records!Next]_<<StatusOf, MethodOf>>
<1> SUFFICES ASSUME IInv, [Next]_vars
             PROVE  Records!Next \/ (StatusOf' = StatusOf /\ MethodOf' = MethodOf)
  OBVIOUS
<1>1. CASE payment' = payment
  BY <1>1 DEF StatusOf, MethodOf
<1>2. ASSUME NEW o \in Order, NEW q \in Document, payment' = [payment EXCEPT ![o] = q]
      PROVE  /\ StatusOf' = [StatusOf EXCEPT ![o] = q.status]
             /\ MethodOf' = [MethodOf EXCEPT ![o] = q.method]
             /\ StatusOf[o] = payment[o].status /\ MethodOf[o] = payment[o].method
             /\ DOMAIN StatusOf = Order /\ DOMAIN MethodOf = Order
  <2>1. payment \in [Order -> PaymentDocument]
    BY DEF IInv, TypeOK
  <2>2. \A x \in Order : payment'[x] = IF x = o THEN q ELSE payment[x]
    BY <1>2, <2>1
  <2>3. /\ StatusOf' = [x \in Order |-> payment'[x].status]
        /\ MethodOf' = [x \in Order |-> payment'[x].method]
        /\ DOMAIN StatusOf = Order /\ DOMAIN MethodOf = Order
        /\ \A x \in Order : StatusOf[x] = payment[x].status /\ MethodOf[x] = payment[x].method
    BY DEF StatusOf, MethodOf
  <2>4. StatusOf' = [StatusOf EXCEPT ![o] = q.status]
    <3>1. \A x \in Order : payment'[x].status = IF x = o THEN q.status ELSE StatusOf[x]
      BY <2>2, <2>3
    <3> HIDE DEF StatusOf
    <3> QED BY <2>3, <3>1
  <2>5. MethodOf' = [MethodOf EXCEPT ![o] = q.method]
    <3>1. \A x \in Order : payment'[x].method = IF x = o THEN q.method ELSE MethodOf[x]
      BY <2>2, <2>3
    <3> HIDE DEF MethodOf
    <3> QED BY <2>3, <3>1
  <2> QED BY <2>3, <2>4, <2>5
<1>3. CASE \E c \in Caller :
              /\ Stored(c) = None
              /\ payment' = [payment EXCEPT ![OrderOf(c)] = Started(c)]
  <2>1. PICK c \in Caller : /\ Stored(c) = None
                            /\ payment' = [payment EXCEPT ![OrderOf(c)] = Started(c)]
    BY <1>3
  <2>2. OrderOf(c) \in Order /\ payment[OrderOf(c)] = None /\ payment' \in [Order -> PaymentDocument]
    BY <2>1, StepKeeps, CallFacts DEF Stored, IInv, TypeOK
  <2>3. Started(c) \in Document /\ Started(c).status = "PENDING" /\ Started(c).method \in Method
    <3>1. Started(c).status = "PENDING"
      BY DEF Started
    <3>2. payment'[OrderOf(c)] = Started(c)
      BY <2>1, <2>2, CallFacts
    <3>3. Started(c) \in PaymentDocument
      BY <2>2, <3>2
    <3>4. Started(c) \in Document
      BY <3>1, <3>3, DocumentFields
    <3> QED BY <3>1, <3>4 DEF Document
  <2>6. PICK o \in Order, q \in Document :
          /\ o = OrderOf(c) /\ q = Started(c)
          /\ payment[o] = None /\ q.status = "PENDING" /\ q.method \in Method
          /\ payment' = [payment EXCEPT ![o] = q]
    BY <2>1, <2>2, <2>3
  <2>4. StatusOf[o] = "NONE"
    BY <2>6 DEF StatusOf, None
  <2>5. Records!Start(o)
    <3>1. /\ StatusOf' = [StatusOf EXCEPT ![o] = "PENDING"]
          /\ MethodOf' = [MethodOf EXCEPT ![o] = q.method]
      <4>1. payment' = [payment EXCEPT ![o] = q] /\ q.status = "PENDING"
        BY <2>6
      <4>2. /\ StatusOf' = [StatusOf EXCEPT ![o] = q.status]
            /\ MethodOf' = [MethodOf EXCEPT ![o] = q.method]
        BY <1>2, <4>1
      <4> QED BY <4>1, <4>2
    <3>2. q.method \in {"CARD", "CASH_ON_DELIVERY"}
      BY <2>6 DEF Method
    <3>3. /\ StatusOf[o] = "NONE" /\ StatusOf' = [StatusOf EXCEPT ![o] = "PENDING"]
          /\ \E m \in {"CARD", "CASH_ON_DELIVERY"} : MethodOf' = [MethodOf EXCEPT ![o] = m]
      BY <2>4, <3>1, <3>2
    <3> QED BY <3>3 DEF Records!Start, StatusOf, MethodOf
  <2> QED BY <2>5 DEF Records!Next
<1>4. CASE \E c \in Caller : Advances(c)
  <2>1. PICK c \in Caller : Advances(c)
    BY <1>4
  <2>2. PICK o \in Order, q \in PaymentDocument :
          /\ payment' = [payment EXCEPT ![o] = q] /\ Follows(payment[o], q)
          /\ q.method = payment[o].method
    BY <2>1, CallFacts DEF Advances, Stored
  <2>3. q.status # "NONE" /\ q \in Document
    BY <2>2, DocumentFields DEF Follows, Results
  <2>4. /\ StatusOf' = [StatusOf EXCEPT ![o] = q.status]
        /\ MethodOf' = [MethodOf EXCEPT ![o] = q.method]
        /\ StatusOf[o] = payment[o].status /\ MethodOf[o] = payment[o].method
        /\ DOMAIN StatusOf = Order /\ DOMAIN MethodOf = Order
    BY <1>2, <2>2, <2>3
  <2>5. MethodOf' = MethodOf
    <3>1. \A x \in Order : MethodOf'[x] = MethodOf[x]
      BY <2>2, <2>4
    <3>2. MethodOf = [x \in Order |-> MethodOf[x]] /\ MethodOf' = [x \in Order |-> MethodOf'[x]]
      BY DEF MethodOf
    <3> QED BY <3>1, <3>2
  <2>6. CASE q.status = payment[o].status
    <3>1. \A x \in Order : StatusOf'[x] = StatusOf[x]
      BY <2>2, <2>4, <2>6
    <3>2. StatusOf = [x \in Order |-> StatusOf[x]] /\ StatusOf' = [x \in Order |-> StatusOf'[x]]
      BY DEF StatusOf
    <3> QED BY <2>5, <3>1, <3>2
  <2>7. CASE q.status # payment[o].status
    <3>1. \/ Records!Decided(o) \/ Records!Challenged(o) \/ Records!Refunded(o)
          \/ Records!CashCancelled(o)
      <4> DEFINE Go(from, to) == /\ StatusOf[o] = from
                                 /\ \E s \in to : StatusOf' = [StatusOf EXCEPT ![o] = s]
                                 /\ MethodOf' = MethodOf
      <4>1. CASE payment[o].status = "PENDING" /\ payment[o].method = "CARD" /\ q.status \in Results
        <5>1. Go("PENDING", {"SUCCEEDED", "FAILED", "REQUIRES_3DS"}) /\ MethodOf[o] = "CARD"
          BY <2>4, <2>5, <4>1 DEF Results
        <5> QED BY <5>1 DEF Records!Decided, Records!Moves, StatusOf, MethodOf
      <4>2. CASE /\ payment[o].status = "REQUIRES_3DS"
                 /\ q.status \in {"REQUIRES_3DS", "SUCCEEDED", "FAILED", "CANCELLED"}
        <5>1. Go("REQUIRES_3DS", {"SUCCEEDED", "FAILED", "CANCELLED"})
          BY <2>4, <2>5, <2>7, <4>2
        <5> QED BY <5>1 DEF Records!Challenged, Records!Moves, StatusOf, MethodOf
      <4>3. CASE payment[o].status = "SUCCEEDED" /\ q.status = "REFUNDED"
        <5>1. Go("SUCCEEDED", {"REFUNDED"})
          BY <2>4, <2>5, <4>3
        <5> QED BY <5>1 DEF Records!Refunded, Records!Moves, StatusOf, MethodOf
      <4>4. CASE /\ payment[o].status = "PENDING" /\ payment[o].method = "CASH_ON_DELIVERY"
                 /\ q.status = "CANCELLED"
        <5>1. Go("PENDING", {"CANCELLED"}) /\ MethodOf[o] = "CASH_ON_DELIVERY"
          BY <2>4, <2>5, <4>4
        <5> QED BY <5>1 DEF Records!CashCancelled, Records!Moves, StatusOf, MethodOf
      <4> QED BY <2>2, <4>1, <4>2, <4>3, <4>4 DEF Follows
    <3> QED BY <3>1 DEF Records!Next
  <2> QED BY <2>6, <2>7
<1> QED BY <1>1, <1>3, <1>4, RecordMoves

(* payment-service keeps the promise of its table: which status follows     *)
(* which, with any callers, orders, lost answers and deaths.                *)
THEOREM PaymentFollowsRecord == Spec => FollowsRecord
<1>1. Spec => Records!Init /\ [][Records!Next]_<<StatusOf, MethodOf>>
  BY InitRecords, StepRecords, Invariant, PTL DEF Spec
<1> QED BY <1>1, PTL DEF FollowsRecord, Records!Spec, StatusOf, MethodOf
=============================================================================
