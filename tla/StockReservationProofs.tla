----------------------- MODULE StockReservationProofs -----------------------
(***************************************************************************)
(* What holds of StockReservation for every set of orders, users, skus and *)
(* callers, every quantity and every bound: types, that the shop is never  *)
(* oversold, that the ledger balances, and that a reservation is kept      *)
(* whatever is retried, duplicated or lost; that ledger, callers and Redis *)
(* agree and no unit leaks, when no Reserve comes twice and traces live as *)
(* long as the calls that complete them.                                   *)
(***************************************************************************)
EXTENDS StockReservation, FiniteSetTheorems, TLAPS

(* The parts of the assumption the steps need.                             *)
LEMMA Durations ==
  /\ Hold \in Nat /\ TraceTtl \in Nat /\ ExtendBy \in Nat /\ MaxRemaining \in Nat
  /\ \A ttl \in Ttl : ttl \in Nat
  BY ParameterAssumption

LEMMA Lines ==
  /\ Owner \in [Order -> User]
  /\ \A s \in Sku : Opening[s] \in Nat
  /\ Opening \in [Sku -> Nat]
  /\ MaxQty \in Nat
  /\ \A o \in Order, s \in Sku : Qty[o][s] \in 0..MaxQty
  BY ParameterAssumption

(* The shape of an in-flight call at each step of a settlement.            *)
LEMMA CallShape ==
  ASSUME NEW r \in CallState
  PROVE  /\ r.step \in {"ledger", "forget"} =>
              /\ r.order \in Order
              /\ r.verdict \in Settlement
              /\ [r EXCEPT !.step = "forget"] \in CallState
         /\ r.step = "lookup" => r.order \in Order
         /\ r # Idle => r.order \in Order
  BY DEF CallState, Idle

(* The calls a handler starts are calls.                                   *)
LEMMA CallStarts ==
  /\ Idle \in CallState
  /\ \A o \in Order, v \in Settlement, op \in {"release", "commit", "sweep"} :
       Settling(o, op, v) \in CallState
  /\ \A o \in Order, op \in {"release", "commit"} : Looking(o, op) \in CallState
  BY DEF CallState, Idle, Settling, Looking

-----------------------------------------------------------------------------
(* Type correctness, one lemma per group of variables.                     *)

LEMMA TraceType ==
  ASSUME RedisTypeOK, NEW o \in Order, NEW v \in Settlement, LeaveTrace(o, v),
         now' = now, counter' \in [Sku -> Int]
  PROVE  RedisTypeOK'
  BY Durations DEF RedisTypeOK, LeaveTrace, FreeLock, HashState

LEMMA RedisTypeStep == RedisTypeOK /\ HistoryTypeOK /\ CallTypeOK /\ [Next]_vars => RedisTypeOK'
<1> SUFFICES ASSUME RedisTypeOK, HistoryTypeOK, CallTypeOK, [Next]_vars PROVE RedisTypeOK'
  OBVIOUS
<1>0. ASSUME NEW o \in Order, NEW v \in Settlement, ReturnStock(o, v), now' = now
      PROVE RedisTypeOK'
  BY <1>0, TraceType, Lines DEF ReturnStock, RedisTypeOK
<1>1. ASSUME NEW o \in Order, NEW ttl \in Ttl, Reserve(o, ttl) PROVE RedisTypeOK'
  <2>1. now + ttl \in Nat /\ now + ttl + Hold \in Nat
    BY <1>1, Durations DEF RedisTypeOK
  <2>2. \A s \in Sku : counter[s] - Qty[o][s] \in Int
    BY <1>1, Lines DEF RedisTypeOK
  <2>3. counter' \in [Sku -> Int]
    BY <1>1, <2>2 DEF Reserve
  <2>4. /\ hash' \in [Order -> HashState]
        /\ expiresAt' \in [Order -> Nat]
        /\ extended' \in [Order -> Nat]
        /\ hashUntil' \in [Order -> Nat]
        /\ indexed' \subseteq Order
    BY <1>1, <2>1 DEF RedisTypeOK, Reserve, HashState
  <2>5. /\ userLock' \in [User -> Order \cup {NoOrder}]
        /\ lockUntil' \in [User -> Nat]
    BY <1>1, <2>1 DEF RedisTypeOK, Reserve
  <2> QED BY <1>1, <2>3, <2>4, <2>5 DEF RedisTypeOK, Reserve
<1>2. ASSUME NEW o \in Order, Extend(o) PROVE RedisTypeOK'
  BY <1>2, Durations DEF RedisTypeOK, Extend, MoveLock
<1>3. ASSUME NEW o \in Order, Shorten(o) PROVE RedisTypeOK'
  BY <1>3, Durations DEF RedisTypeOK, Shorten, MoveLock
<1>4. ASSUME NEW o \in Order, DropOrphan(o), now' = now PROVE RedisTypeOK'
  BY <1>4 DEF RedisTypeOK, DropOrphan
<1>5. ASSUME UNCHANGED <<redis, now>> PROVE RedisTypeOK'
  BY <1>5 DEF RedisTypeOK, redis
<1>6. ASSUME NEW w \in Worker, NEW o \in Order, Release(w, o) PROVE RedisTypeOK'
  BY <1>6, <1>0, <1>4, <1>5 DEF Release, Settlement
<1>7. ASSUME NEW w \in Worker, NEW o \in Order, Commit(w, o) PROVE RedisTypeOK'
  <2>1. CASE TakeStock(o)
    BY <1>7, <2>1, TraceType DEF TakeStock, Commit, RedisTypeOK, Settlement
  <2> QED BY <1>7, <1>4, <1>5, <2>1 DEF Commit
<1>8. ASSUME NEW x \in Sweeper, NEW o \in Order, Sweep(x, o) PROVE RedisTypeOK'
  BY <1>8, <1>0, <1>4, <1>5 DEF Sweep, Settlement
<1>9. ASSUME NEW c \in Caller, ForgetSettled(c) PROVE RedisTypeOK'
  BY <1>9 DEF ForgetSettled, RedisTypeOK, HashState
<1>10. ASSUME Tick PROVE RedisTypeOK'
  BY <1>10 DEF RedisTypeOK, Tick, HashState
<1>11. ASSUME NEW x \in Sweeper, ListDue(x) PROVE RedisTypeOK'
  BY <1>11, <1>5 DEF ListDue
<1>12. ASSUME NEW c \in Caller, WriteLedger(c) \/ CallFails(c) PROVE RedisTypeOK'
  BY <1>12, <1>5 DEF WriteLedger, CallFails
<1>13. ASSUME NEW w \in Worker, LookUpLedger(w) PROVE RedisTypeOK'
  BY <1>13, <1>5 DEF LookUpLedger
<1>14. ASSUME NEW x \in Sweeper, Crash(x) PROVE RedisTypeOK'
  BY <1>14, <1>5 DEF Crash
<1>15. CASE UNCHANGED vars
  BY <1>15, <1>5 DEF vars
<1> QED
  BY <1>1, <1>2, <1>3, <1>6, <1>7, <1>8, <1>9, <1>10, <1>11, <1>12, <1>13, <1>14, <1>15 DEF Next

LEMMA CallTypeStep == CallTypeOK /\ RedisTypeOK /\ [Next]_vars => CallTypeOK'
<1> SUFFICES ASSUME CallTypeOK, RedisTypeOK, [Next]_vars PROVE CallTypeOK'
  OBVIOUS
<1>1. ASSUME UNCHANGED <<call, sweeping>> PROVE CallTypeOK'
  BY <1>1 DEF CallTypeOK, sweeping
<1>2. ASSUME NEW w \in Worker, NEW o \in Order, Release(w, o) \/ Commit(w, o) PROVE CallTypeOK'
  BY <1>2, CallStarts DEF CallTypeOK, Release, Commit, sweeping, Settlement
<1>3. ASSUME NEW x \in Sweeper, ListDue(x) PROVE CallTypeOK'
  BY <1>3 DEF CallTypeOK, ListDue, RedisTypeOK
<1>4. ASSUME NEW x \in Sweeper, NEW o \in Order, Sweep(x, o) PROVE CallTypeOK'
  BY <1>4, CallStarts DEF CallTypeOK, Sweep, Settlement
<1>5. ASSUME NEW c \in Caller, WriteLedger(c) PROVE CallTypeOK'
  <2>1. [call[c] EXCEPT !.step = "forget"] \in CallState
    BY <1>5, CallShape DEF WriteLedger, CallTypeOK
  <2> QED BY <1>5, <2>1 DEF WriteLedger, CallTypeOK, sweeping
<1>6. ASSUME NEW c \in Caller, ForgetSettled(c) PROVE CallTypeOK'
  BY <1>6, CallStarts DEF ForgetSettled, CallTypeOK
<1>7. ASSUME NEW c \in Caller, CallFails(c) PROVE CallTypeOK'
  <2>1. call[c].order \in Order
    BY <1>7, CallShape DEF CallFails, CallTypeOK
  <2> QED BY <1>7, <2>1, CallStarts DEF CallFails, CallTypeOK
<1>8. ASSUME NEW w \in Worker, LookUpLedger(w) PROVE CallTypeOK'
  BY <1>8, CallStarts DEF LookUpLedger, CallTypeOK, sweeping
<1>9. ASSUME NEW x \in Sweeper, Crash(x) PROVE CallTypeOK'
  BY <1>9, CallStarts DEF Crash, CallTypeOK
<1>10. ASSUME NEW o \in Order, NEW ttl \in Ttl, Reserve(o, ttl) \/ Extend(o) \/ Shorten(o)
       PROVE CallTypeOK'
  BY <1>10, <1>1 DEF Reserve, Extend, Shorten
<1>11. ASSUME NEW o \in Order, Extend(o) \/ Shorten(o) PROVE CallTypeOK'
  BY <1>11, <1>1 DEF Extend, Shorten
<1>12. ASSUME Tick PROVE CallTypeOK'
  BY <1>12, <1>1 DEF Tick
<1>13. CASE UNCHANGED vars
  BY <1>13, <1>1 DEF vars
<1> QED
  BY <1>2, <1>3, <1>4, <1>5, <1>6, <1>7, <1>8, <1>9, <1>10, <1>11, <1>12, <1>13 DEF Next

LEMMA MongoTypeStep == MongoTypeOK /\ CallTypeOK /\ [Next]_vars => MongoTypeOK'
<1> SUFFICES ASSUME MongoTypeOK, CallTypeOK, [Next]_vars PROVE MongoTypeOK'
  OBVIOUS
<1>1. ASSUME UNCHANGED mongo PROVE MongoTypeOK'
  BY <1>1 DEF MongoTypeOK, mongo
<1>2. ASSUME NEW c \in Caller, WriteLedger(c) PROVE MongoTypeOK'
  <2>1. call[c].order \in Order /\ call[c].verdict \in Settlement
    BY <1>2, CallShape DEF WriteLedger, CallTypeOK
  <2>2. onHand' \in [Sku -> Int]
    BY <1>2, <2>1, Lines DEF WriteLedger, LoweredOnHand, MongoTypeOK
  <2>3. EntryKind[call[c].verdict] \in {"release", "expire", "commit"}
    BY <2>1 DEF EntryKind, Settlement
  <2> QED BY <1>2, <2>1, <2>2, <2>3 DEF WriteLedger, MongoTypeOK
<1> QED
  BY <1>1, <1>2
  DEF Next, vars, Reserve, Extend, Shorten, Release, Commit, ListDue, Sweep, ForgetSettled,
      CallFails, LookUpLedger, Crash, Tick

LEMMA AnswerType ==
  ASSUME HistoryTypeOK, NEW o \in Order, NEW v \in {"sold", "returned", "unsold"}, Answer(o, v)
  PROVE  answers' \subseteq Order \X {"sold", "returned", "unsold"}
  BY DEF Answer, HistoryTypeOK

LEMMA HistoryTypeStep == HistoryTypeOK /\ CallTypeOK /\ [Next]_vars => HistoryTypeOK'
<1> SUFFICES ASSUME HistoryTypeOK, CallTypeOK, [Next]_vars PROVE HistoryTypeOK'
  OBVIOUS
<1>1. ASSUME UNCHANGED <<history, answers, bounded>> PROVE HistoryTypeOK'
  BY <1>1 DEF HistoryTypeOK, history, bounded
<1>2. ASSUME NEW o \in Order, NEW ttl \in Ttl, Reserve(o, ttl) PROVE HistoryTypeOK'
  <2>1. /\ UNCHANGED <<sold, returned, answers, failures, crashes>>
        /\ reserves' = [reserves EXCEPT ![o] = @ + 1]
    BY <1>2 DEF Reserve, history
  <2> QED BY <2>1 DEF HistoryTypeOK
<1>3. ASSUME NEW w \in Worker, NEW o \in Order, Release(w, o) PROVE HistoryTypeOK'
  BY <1>3 DEF HistoryTypeOK, Release, ReturnStock, DropOrphan, history, bounded
<1>4. ASSUME NEW w \in Worker, NEW o \in Order, Commit(w, o) PROVE HistoryTypeOK'
  <2>1. UNCHANGED <<returned, reserves, failures, crashes>> /\ sold' \subseteq sold \cup {o}
    BY <1>4 DEF Commit, TakeStock, DropOrphan, history, bounded
  <2>2. answers' = answers \/ Answer(o, "unsold")
    BY <1>4 DEF Commit
  <2> QED BY <2>1, <2>2, AnswerType DEF HistoryTypeOK
<1>5. ASSUME NEW x \in Sweeper, NEW o \in Order, Sweep(x, o) PROVE HistoryTypeOK'
  BY <1>5 DEF HistoryTypeOK, Sweep, ReturnStock, DropOrphan, history, bounded
<1>6. ASSUME NEW c \in Caller, ForgetSettled(c) PROVE HistoryTypeOK'
  <2>1. call[c].order \in Order
    BY <1>6, CallShape DEF ForgetSettled, CallTypeOK
  <2>2. UNCHANGED <<history, bounded>>
    BY <1>6 DEF ForgetSettled
  <2>3. \/ answers' = answers
        \/ \E v \in {"sold", "returned"} : Answer(call[c].order, v)
    BY <1>6 DEF ForgetSettled
  <2> QED BY <2>1, <2>2, <2>3, AnswerType DEF HistoryTypeOK, history, bounded
<1>7. ASSUME NEW w \in Worker, LookUpLedger(w) PROVE HistoryTypeOK'
  <2>1. call[w].order \in Order
    BY <1>7, CallShape DEF LookUpLedger, CallTypeOK, Caller
  <2>2. UNCHANGED <<history, bounded>>
    BY <1>7 DEF LookUpLedger
  <2>3. \/ answers' = answers
        \/ \E v \in {"sold", "returned", "unsold"} : Answer(call[w].order, v)
    BY <1>7 DEF LookUpLedger
  <2> QED BY <2>1, <2>2, <2>3, AnswerType DEF HistoryTypeOK, history, bounded
<1>8. ASSUME NEW c \in Caller, CallFails(c) PROVE HistoryTypeOK'
  <2>1. /\ UNCHANGED <<sold, returned, answers, reserves, crashes>>
        /\ failures' = failures + 1
    BY <1>8 DEF CallFails, history
  <2> QED BY <2>1 DEF HistoryTypeOK
<1>9. ASSUME NEW x \in Sweeper, Crash(x) PROVE HistoryTypeOK'
  <2>1. /\ UNCHANGED <<sold, returned, answers, reserves, failures>>
        /\ crashes' = crashes + 1
    BY <1>9 DEF Crash, history
  <2> QED BY <2>1 DEF HistoryTypeOK
<1> QED
  BY <1>1, <1>2, <1>3, <1>4, <1>5, <1>6, <1>7, <1>8, <1>9
  DEF Next, vars, Extend, Shorten, ListDue, WriteLedger, Tick

LEMMA TypeInit == Init => TypeOK
  BY Lines, CallStarts
  DEF Init, TypeOK, RedisTypeOK, MongoTypeOK, CallTypeOK, HistoryTypeOK, HashState

(* Every variable keeps its type, however many orders, callers and skus.   *)
THEOREM TypeCorrect == Spec => []TypeOK
<1>1. TypeOK /\ [Next]_vars => TypeOK'
  BY RedisTypeStep, MongoTypeStep, CallTypeStep, HistoryTypeStep DEF TypeOK
<1> QED
  BY TypeInit, <1>1, PTL DEF Spec

-----------------------------------------------------------------------------
(* Counting units.                                                         *)

LEMMA IntervalSize ==
  ASSUME NEW n \in Nat
  PROVE  IsFiniteSet(1..n) /\ Cardinality(1..n) = n
<1>1. 1 \in Int /\ n \in Int
  OBVIOUS
<1>2. IsFiniteSet(1..n) /\ Cardinality(1..n) = IF 1 > n THEN 0 ELSE n - 1 + 1
  BY ONLY <1>1, FS_Interval, Zenon
<1> QED BY <1>2

LEMMA UnitsFinite ==
  ASSUME NEW S \in SUBSET Order, NEW s \in Sku
  PROVE  IsFiniteSet(Units(S, s)) /\ Total(S, s) \in Nat
<1>1. IsFiniteSet(S \X (1..MaxQty))
  <2>1. IsFiniteSet(S)
    BY OrderFinite, FS_Subset
  <2>2. IsFiniteSet(1..MaxQty)
    BY Lines, IntervalSize
  <2> QED BY <2>1, <2>2, FS_Product
<1>2. Units(S, s) \subseteq S \X (1..MaxQty)
  BY DEF Units
<1>3. IsFiniteSet(Units(S, s))
  BY <1>1, <1>2, FS_Subset
<1> QED BY <1>3, FS_CardinalityType DEF Total

(* The units of one order are as many as its line says.                    *)
LEMMA UnitsOfOne ==
  ASSUME NEW o \in Order, NEW s \in Sku
  PROVE  Total({o}, s) = Qty[o][s]
<1> DEFINE q == Qty[o][s]
           f == [k \in 1..q |-> <<o, k>>]
<1>1. q \in Nat /\ q <= MaxQty /\ MaxQty \in Nat
  BY Lines
<1>2. f \in Bijection(1..q, Units({o}, s))
  <2>1. f \in [1..q -> Units({o}, s)]
    BY <1>1 DEF Units
  <2>2. \A j, k \in 1..q : f[j] = f[k] => j = k
    OBVIOUS
  <2>3. \A u \in Units({o}, s) : \E k \in 1..q : f[k] = u
    BY <1>1 DEF Units
  <2> HIDE DEF f
  <2> QED BY <2>1, <2>2, <2>3 DEF Bijection, Injection, Surjection, IsInjective
<1>3. IsFiniteSet(1..q) /\ Cardinality(1..q) = q
  BY <1>1, IntervalSize
<1> HIDE DEF f
<1>4. ExistsBijection(1..q, Units({o}, s))
  BY <1>2 DEF ExistsBijection
<1>5. Cardinality(Units({o}, s)) = Cardinality(1..q)
  BY <1>3, <1>4, FS_Bijection
<1> QED BY <1>3, <1>5 DEF Total

(* Adding an order to a set adds its quantity.                             *)
LEMMA TotalAdd ==
  ASSUME NEW S \in SUBSET Order, NEW o \in Order, o \notin S, NEW s \in Sku
  PROVE  Total(S \cup {o}, s) = Total(S, s) + Qty[o][s]
<1>1. Units(S \cup {o}, s) = Units(S, s) \cup Units({o}, s)
  BY DEF Units
<1>2. Units(S, s) \cap Units({o}, s) = {}
  BY DEF Units
<1>3. IsFiniteSet(Units(S, s)) /\ IsFiniteSet(Units({o}, s))
  BY UnitsFinite
<1>4. Cardinality(Units(S, s) \cup Units({o}, s))
        = Cardinality(Units(S, s)) + Cardinality(Units({o}, s)) - Cardinality({})
  BY <1>2, <1>3, FS_Union
<1>5. Cardinality({}) = 0
  BY FS_EmptySet
<1>6. Total({o}, s) = Qty[o][s] /\ Qty[o][s] \in Nat /\ Total(S, s) \in Nat
  <2>1. Total({o}, s) = Qty[o][s]
    BY UnitsOfOne
  <2>2. Qty[o][s] \in Nat
    BY Lines
  <2>3. Total(S, s) \in Nat
    BY UnitsFinite
  <2> QED BY <2>1, <2>2, <2>3
<1>7. Total(S \cup {o}, s) = Total(S, s) + Total({o}, s) - 0
  BY <1>1, <1>4, <1>5 DEF Total
<1> QED BY <1>6, <1>7

LEMMA TotalRemove ==
  ASSUME NEW S \in SUBSET Order, NEW o \in S, NEW s \in Sku
  PROVE  Total(S \ {o}, s) = Total(S, s) - Qty[o][s]
<1>1. (S \ {o}) \cup {o} = S
  OBVIOUS
<1>2. Total((S \ {o}) \cup {o}, s) = Total(S \ {o}, s) + Qty[o][s]
  BY TotalAdd
<1>3. Total(S \ {o}, s) \in Nat /\ Qty[o][s] \in Nat
  BY UnitsFinite, Lines
<1>4. Total(S, s) = Total(S \ {o}, s) + Qty[o][s]
  BY ONLY <1>1, <1>2
<1> QED BY <1>3, <1>4

(* Fewer orders have no more units.                                        *)
LEMMA TotalMonotone ==
  ASSUME NEW S \in SUBSET Order, NEW T \in SUBSET S, NEW s \in Sku
  PROVE  Total(T, s) <= Total(S, s)
<1>1. Units(T, s) \subseteq Units(S, s)
  BY DEF Units
<1> QED BY <1>1, UnitsFinite, FS_Subset DEF Total

-----------------------------------------------------------------------------
(* The shop is never oversold.                                             *)

(* A committed trace, and a call that books a commit, belong to an order   *)
(* whose stock commit.lua took: the part NoOversell lacks to be inductive. *)
CommitsAreSold ==
  /\ \A o \in Order : hash[o] = "committed" => o \in sold
  /\ \A c \in Caller :
       call[c].step = "ledger" /\ call[c].verdict = "committed" => call[c].order \in sold

SafeInv == TypeOK /\ CommitsAreSold /\ NoOversell

LEMMA SetsOfOrders ==
  /\ ActiveOrders \in SUBSET Order
  /\ TypeOK => Unbooked \in SUBSET Order
  BY DEF ActiveOrders, Unbooked, TypeOK, HistoryTypeOK

(* Nothing the sum speaks of moves.                                        *)
LEMMA SumUntouched ==
  ASSUME NoOversell, UNCHANGED <<counter, hash, onHand, ledger, sold>>
  PROVE  NoOversell'
  BY DEF NoOversell, ActiveOrders, Unbooked, Booked, Total, Units

(* A hash that is deleted can only take units out of the sum.              *)
LEMMA SumWithFewerHolds ==
  ASSUME TypeOK, NoOversell, UNCHANGED <<counter, onHand, ledger, sold>>,
         ActiveOrders' \subseteq ActiveOrders
  PROVE  NoOversell'
<1>1. ASSUME NEW s \in Sku
      PROVE  0 <= counter'[s]
             /\ counter'[s] + Total(ActiveOrders', s) + Total(Unbooked', s) <= onHand'[s]
  <2>1. Unbooked' = Unbooked
    BY DEF Unbooked, Booked
  <2>2. Total(ActiveOrders', s) <= Total(ActiveOrders, s)
    BY TotalMonotone, SetsOfOrders
  <2>3. /\ Total(ActiveOrders', s) \in Nat
        /\ Total(ActiveOrders, s) \in Nat
        /\ Total(Unbooked, s) \in Nat
    BY UnitsFinite, SetsOfOrders
  <2>4. counter[s] \in Int /\ onHand[s] \in Int
    BY DEF TypeOK, RedisTypeOK, MongoTypeOK
  <2>5. 0 <= counter[s] /\ counter[s] + Total(ActiveOrders, s) + Total(Unbooked, s) <= onHand[s]
    BY DEF NoOversell
  <2> QED BY <2>1, <2>2, <2>3, <2>4, <2>5
<1> QED BY <1>1 DEF NoOversell, Total, Units

LEMMA SumAfterReserve ==
  ASSUME TypeOK, NoOversell, NEW o \in Order, NEW ttl \in Ttl, Reserve(o, ttl)
  PROVE  NoOversell'
<1>1. ASSUME NEW s \in Sku
      PROVE  0 <= counter'[s]
             /\ counter'[s] + Total(ActiveOrders', s) + Total(Unbooked', s) <= onHand'[s]
  <2>1. Unbooked' = Unbooked /\ onHand' = onHand
    BY DEF Unbooked, Booked, Reserve, mongo, history
  <2>2. o \notin ActiveOrders /\ ActiveOrders' = ActiveOrders \cup {o}
    BY DEF ActiveOrders, Reserve, TypeOK, RedisTypeOK
  <2>3. Total(ActiveOrders', s) = Total(ActiveOrders, s) + Qty[o][s]
    BY <2>2, TotalAdd, SetsOfOrders
  <2>4. counter'[s] = counter[s] - Qty[o][s] /\ Qty[o][s] <= counter[s]
    BY DEF Reserve
  <2>5. /\ Total(ActiveOrders, s) \in Nat /\ Total(Unbooked, s) \in Nat /\ Qty[o][s] \in Nat
        /\ counter[s] \in Int /\ onHand[s] \in Int
    BY UnitsFinite, SetsOfOrders, Lines DEF TypeOK, RedisTypeOK, MongoTypeOK
  <2>6. counter[s] + Total(ActiveOrders, s) + Total(Unbooked, s) <= onHand[s]
    BY DEF NoOversell
  <2> QED BY <2>1, <2>3, <2>4, <2>5, <2>6
<1> QED BY <1>1 DEF NoOversell, Total, Units

LEMMA HoldEnds ==
  ASSUME TypeOK, NEW o \in Order, Held(o), NEW v \in Settlement, LeaveTrace(o, v)
  PROVE  o \in ActiveOrders /\ ActiveOrders' = ActiveOrders \ {o}
  BY DEF Held, LeaveTrace, ActiveOrders, TypeOK, RedisTypeOK, Settlement

LEMMA SumAfterReturn ==
  ASSUME TypeOK, NoOversell, NEW o \in Order, NEW v \in Settlement,
         Held(o), ReturnStock(o, v), UNCHANGED mongo
  PROVE  NoOversell'
<1>1. ASSUME NEW s \in Sku
      PROVE  0 <= counter'[s]
             /\ counter'[s] + Total(ActiveOrders', s) + Total(Unbooked', s) <= onHand'[s]
  <2>1. Unbooked' = Unbooked /\ onHand' = onHand
    BY DEF Unbooked, Booked, ReturnStock, mongo
  <2>2. Total(ActiveOrders', s) = Total(ActiveOrders, s) - Qty[o][s]
    <3>1. o \in ActiveOrders /\ ActiveOrders' = ActiveOrders \ {o}
      BY HoldEnds DEF ReturnStock
    <3> QED BY <3>1, TotalRemove, SetsOfOrders
  <2>3. counter'[s] = counter[s] + Qty[o][s]
    BY DEF ReturnStock
  <2>4. /\ Total(ActiveOrders, s) \in Nat /\ Total(Unbooked, s) \in Nat /\ Qty[o][s] \in Nat
        /\ counter[s] \in Int /\ onHand[s] \in Int
    BY UnitsFinite, SetsOfOrders, Lines DEF TypeOK, RedisTypeOK, MongoTypeOK
  <2>5. 0 <= counter[s] /\ counter[s] + Total(ActiveOrders, s) + Total(Unbooked, s) <= onHand[s]
    BY DEF NoOversell
  <2> QED BY <2>1, <2>2, <2>3, <2>4, <2>5
<1> QED BY <1>1 DEF NoOversell, Total, Units

(* The units leave the holds and at most reappear among the unbooked.      *)
LEMMA SumAfterTake ==
  ASSUME TypeOK, NoOversell, NEW o \in Order, Held(o), TakeStock(o), UNCHANGED mongo
  PROVE  NoOversell'
<1>1. ASSUME NEW s \in Sku
      PROVE  0 <= counter'[s]
             /\ counter'[s] + Total(ActiveOrders', s) + Total(Unbooked', s) <= onHand'[s]
  <2>1. counter' = counter /\ onHand' = onHand
    BY DEF TakeStock, mongo
  <2>2. Total(ActiveOrders', s) = Total(ActiveOrders, s) - Qty[o][s]
    <3>1. o \in ActiveOrders /\ ActiveOrders' = ActiveOrders \ {o}
      BY HoldEnds DEF TakeStock, Settlement
    <3> QED BY <3>1, TotalRemove, SetsOfOrders
  <2>3. Unbooked' = Unbooked \/ (o \notin Unbooked /\ Unbooked' = Unbooked \cup {o})
    BY DEF Unbooked, Booked, TakeStock, mongo
  <2>4. Total(Unbooked', s) <= Total(Unbooked, s) + Qty[o][s]
    <3>1. Total(Unbooked, s) \in Nat /\ Qty[o][s] \in Nat
      BY UnitsFinite, SetsOfOrders, Lines
    <3>2. CASE Unbooked' = Unbooked
      BY <3>1, <3>2
    <3>3. CASE o \notin Unbooked /\ Unbooked' = Unbooked \cup {o}
      <4>1. Total(Unbooked', s) = Total(Unbooked, s) + Qty[o][s]
        BY <3>3, TotalAdd, SetsOfOrders
      <4> QED BY <3>1, <4>1
    <3> QED BY <2>3, <3>2, <3>3
  <2>5. /\ Total(ActiveOrders, s) \in Nat /\ Total(Unbooked, s) \in Nat /\ Qty[o][s] \in Nat
        /\ Total(Unbooked', s) \in Nat
        /\ counter[s] \in Int /\ onHand[s] \in Int
    BY <2>3, UnitsFinite, SetsOfOrders, Lines DEF TypeOK, RedisTypeOK, MongoTypeOK
  <2>6. 0 <= counter[s] /\ counter[s] + Total(ActiveOrders, s) + Total(Unbooked, s) <= onHand[s]
    BY DEF NoOversell
  <2> QED BY <2>1, <2>2, <2>4, <2>5, <2>6
<1> QED BY <1>1 DEF NoOversell, Total, Units

(* Booking a commit lowers the stock on hand by what was unbooked.         *)
LEMMA SumAfterBooking ==
  ASSUME TypeOK, CommitsAreSold, NoOversell, NEW c \in Caller, WriteLedger(c)
  PROVE  NoOversell'
<1> DEFINE o == call[c].order
           v == call[c].verdict
<1>0. o \in Order /\ v \in Settlement
  BY CallShape DEF WriteLedger, TypeOK, CallTypeOK
<1>1. UNCHANGED <<counter, hash, sold>>
  BY DEF WriteLedger, redis, history
<1>2. ActiveOrders' = ActiveOrders
  BY <1>1 DEF ActiveOrders
<1>3. CASE v = "committed" /\ <<o, "commit">> \notin ledger
  <2>1. ledger' = ledger \cup {<<o, "commit">>}
    BY <1>3 DEF WriteLedger, EntryKind
  <2>2. onHand' = [s \in Sku |-> onHand[s] - Qty[o][s]]
    BY <1>3 DEF WriteLedger, LoweredOnHand
  <2>3. o \in Unbooked /\ Unbooked' = Unbooked \ {o}
    BY <1>0, <1>1, <1>3, <2>1 DEF Unbooked, Booked, CommitsAreSold, WriteLedger
  <2>4. ASSUME NEW s \in Sku
        PROVE  0 <= counter'[s]
               /\ counter'[s] + Total(ActiveOrders', s) + Total(Unbooked', s) <= onHand'[s]
    <3>1. Total(Unbooked', s) = Total(Unbooked, s) - Qty[o][s]
      BY <2>3, TotalRemove, SetsOfOrders
    <3>2. onHand'[s] = onHand[s] - Qty[o][s]
      BY <2>2
    <3>3. /\ Total(ActiveOrders, s) \in Nat /\ Total(Unbooked, s) \in Nat /\ Qty[o][s] \in Nat
          /\ counter[s] \in Int /\ onHand[s] \in Int
      BY <1>0, UnitsFinite, SetsOfOrders, Lines DEF TypeOK, RedisTypeOK, MongoTypeOK
    <3>4. 0 <= counter[s] /\ counter[s] + Total(ActiveOrders, s) + Total(Unbooked, s) <= onHand[s]
      BY DEF NoOversell
    <3> HIDE DEF o
    <3> QED BY <1>1, <1>2, <3>1, <3>2, <3>3, <3>4
  <2> QED BY <2>4 DEF NoOversell, Total, Units
<1>4. CASE ~(v = "committed" /\ <<o, "commit">> \notin ledger)
  <2>1. onHand' = onHand
    BY <1>4 DEF WriteLedger, LoweredOnHand
  <2>2. Booked("commit")' = Booked("commit")
    BY <1>0, <1>4 DEF Booked, WriteLedger, EntryKind, Settlement
  <2>3. Unbooked' = Unbooked
    BY <1>1, <2>2 DEF Unbooked
  <2> QED BY <1>1, <1>2, <2>1, <2>3 DEF NoOversell, Total, Units
<1> QED BY <1>3, <1>4

LEMMA CommitsAreSoldStep == TypeOK /\ CommitsAreSold /\ [Next]_vars => CommitsAreSold'
<1> SUFFICES ASSUME TypeOK, CommitsAreSold, [Next]_vars PROVE CommitsAreSold'
  OBVIOUS
<1> USE DEF CommitsAreSold
<1>1. ASSUME UNCHANGED <<call, sold>>, \A o \in Order : hash'[o] \in {hash[o], "none", "active"}
      PROVE  CommitsAreSold'
  BY <1>1
<1>2. ASSUME NEW o \in Order, NEW v \in {"released", "expired"}, ReturnStock(o, v),
             NEW c \in Caller, NEW op \in {"release", "sweep"},
             call' = [call EXCEPT ![c] = Settling(o, op, v)]
      PROVE  CommitsAreSold'
  BY <1>2 DEF ReturnStock, LeaveTrace, Settling, TypeOK, RedisTypeOK, CallTypeOK
<1>3. ASSUME NEW o \in Order, UNCHANGED <<hash, sold>>, NEW c \in Caller,
             NEW v \in Settlement, v = "committed" => o \in sold, NEW op \in {"release", "sweep", "commit"},
             \/ call' = [call EXCEPT ![c] = Settling(o, op, v)]
             \/ call' = [call EXCEPT ![c] = Looking(o, op)]
             \/ call' = call
      PROVE  CommitsAreSold'
  BY <1>3 DEF Settling, Looking, TypeOK, CallTypeOK
<1>4. ASSUME NEW w \in Worker, NEW o \in Order, Release(w, o) PROVE CommitsAreSold'
  <2>1. CASE ReturnStock(o, "released") /\ call' = [call EXCEPT ![w] = Settling(o, "release", "released")]
    BY <2>1, <1>2 DEF Caller
  <2> QED BY <1>4, <2>1, <1>3 DEF Release, DropOrphan, Caller, Settlement, redis, history
<1>5. ASSUME NEW w \in Worker, NEW o \in Order, Commit(w, o) PROVE CommitsAreSold'
  <2>1. CASE TakeStock(o) /\ call' = [call EXCEPT ![w] = Settling(o, "commit", "committed")]
    BY <2>1 DEF TakeStock, LeaveTrace, Settling, TypeOK, RedisTypeOK, CallTypeOK
  <2> QED BY <1>5, <2>1, <1>3 DEF Commit, DropOrphan, Caller, Settlement, redis, history
<1>6. ASSUME NEW x \in Sweeper, NEW o \in Order, Sweep(x, o) PROVE CommitsAreSold'
  <2>1. CASE ReturnStock(o, "expired") /\ call' = [call EXCEPT ![x] = Settling(o, "sweep", "expired")]
    BY <2>1, <1>2 DEF Caller
  <2> QED BY <1>6, <2>1, <1>3 DEF Sweep, DropOrphan, Caller, Settlement, redis, history
<1>7. ASSUME NEW c \in Caller, WriteLedger(c) PROVE CommitsAreSold'
  BY <1>7 DEF WriteLedger, redis, history, TypeOK, CallTypeOK
<1>8. ASSUME NEW c \in Caller, ForgetSettled(c) PROVE CommitsAreSold'
  BY <1>8 DEF ForgetSettled, history, TypeOK, CallTypeOK, RedisTypeOK, Idle
<1>9. ASSUME NEW c \in Caller, call' = [call EXCEPT ![c] = Idle], UNCHANGED <<hash, sold>>
      PROVE  CommitsAreSold'
  BY <1>9 DEF TypeOK, CallTypeOK, Idle
<1>10. ASSUME NEW c \in Caller, CallFails(c) PROVE CommitsAreSold'
  BY <1>10, <1>9 DEF CallFails, redis, history
<1>11. ASSUME NEW w \in Worker, LookUpLedger(w) PROVE CommitsAreSold'
  BY <1>11, <1>9 DEF LookUpLedger, redis, history, Caller
<1>12. ASSUME NEW x \in Sweeper, Crash(x) PROVE CommitsAreSold'
  BY <1>12, <1>9 DEF Crash, redis, history, Caller
<1>13. ASSUME NEW o \in Order, NEW ttl \in Ttl, Reserve(o, ttl) PROVE CommitsAreSold'
  BY <1>13, <1>1 DEF Reserve, history, TypeOK, RedisTypeOK
<1>14. ASSUME NEW o \in Order, Extend(o) \/ Shorten(o) PROVE CommitsAreSold'
  BY <1>14, <1>1 DEF Extend, Shorten, history
<1>15. ASSUME NEW x \in Sweeper, ListDue(x) PROVE CommitsAreSold'
  BY <1>15, <1>1 DEF ListDue, redis, history
<1>16. ASSUME Tick PROVE CommitsAreSold'
  BY <1>16, <1>1 DEF Tick, history
<1>17. CASE UNCHANGED vars
  BY <1>17, <1>1 DEF vars, redis, history
<1> QED
  BY <1>4, <1>5, <1>6, <1>7, <1>8, <1>10, <1>11, <1>12, <1>13, <1>14, <1>15, <1>16, <1>17 DEF Next

LEMMA NoOversellStep == TypeOK /\ CommitsAreSold /\ NoOversell /\ [Next]_vars => NoOversell'
<1> SUFFICES ASSUME TypeOK, CommitsAreSold, NoOversell, [Next]_vars PROVE NoOversell'
  OBVIOUS
<1>1. ASSUME NEW o \in Order, NEW ttl \in Ttl, Reserve(o, ttl) PROVE NoOversell'
  BY <1>1, SumAfterReserve
<1>2. ASSUME NEW w \in Worker, NEW o \in Order, Release(w, o) PROVE NoOversell'
  <2>1. CASE Held(o) /\ ReturnStock(o, "released")
    BY <1>2, <2>1, SumAfterReturn DEF Release, Settlement
  <2> QED BY <1>2, <2>1, SumUntouched DEF Release, DropOrphan, redis, mongo, history
<1>3. ASSUME NEW w \in Worker, NEW o \in Order, Commit(w, o) PROVE NoOversell'
  <2>1. CASE Held(o) /\ TakeStock(o)
    BY <1>3, <2>1, SumAfterTake DEF Commit
  <2> QED BY <1>3, <2>1, SumUntouched DEF Commit, DropOrphan, redis, mongo, history
<1>4. ASSUME NEW x \in Sweeper, NEW o \in Order, Sweep(x, o) PROVE NoOversell'
  <2>1. CASE Held(o) /\ ReturnStock(o, "expired")
    BY <1>4, <2>1, SumAfterReturn DEF Sweep, Settlement
  <2> QED BY <1>4, <2>1, SumUntouched DEF Sweep, Expirable, DropOrphan, redis, mongo, history
<1>5. ASSUME NEW c \in Caller, WriteLedger(c) PROVE NoOversell'
  BY <1>5, SumAfterBooking
<1>6. ASSUME NEW c \in Caller, ForgetSettled(c) PROVE NoOversell'
  <2>1. ActiveOrders' \subseteq ActiveOrders
    BY <1>6 DEF ForgetSettled, ActiveOrders, TypeOK, RedisTypeOK
  <2> QED BY <1>6, <2>1, SumWithFewerHolds DEF ForgetSettled, mongo, history
<1>7. ASSUME Tick PROVE NoOversell'
  <2>1. ActiveOrders' \subseteq ActiveOrders
    BY <1>7 DEF Tick, ActiveOrders
  <2> QED BY <1>7, <2>1, SumWithFewerHolds DEF Tick, mongo, history
<1>8. ASSUME UNCHANGED <<counter, hash, mongo, history>> PROVE NoOversell'
  BY <1>8, SumUntouched DEF mongo, history
<1> QED
  BY <1>1, <1>2, <1>3, <1>4, <1>5, <1>6, <1>7, <1>8
  DEF Next, vars, redis, Extend, Shorten, ListDue, CallFails, LookUpLedger, Crash

LEMMA NoOversellInit == Init => CommitsAreSold /\ NoOversell
<1> SUFFICES ASSUME Init PROVE CommitsAreSold /\ NoOversell
  OBVIOUS
<1>1. CommitsAreSold
  BY DEF Init, CommitsAreSold, Idle
<1>2. ActiveOrders = {} /\ Unbooked = {}
  BY DEF Init, ActiveOrders, Unbooked
<1>3. ASSUME NEW s \in Sku PROVE Total({}, s) = 0
  <2>1. Units({}, s) = {}
    BY DEF Units
  <2> QED BY <2>1, FS_EmptySet DEF Total
<1>4. \A s \in Sku : counter[s] = onHand[s] /\ counter[s] \in Nat
  BY Lines DEF Init
<1> QED BY <1>1, <1>2, <1>3, <1>4 DEF NoOversell

(* Whatever is open for sale, locked, or sold and not yet booked is in the *)
(* shop: reserve.lua, release.lua, commit.lua and the Mongo transaction    *)
(* keep the promise for any number of orders, callers and retries.         *)
THEOREM NeverOversold == Spec => []NoOversell
<1>1. Init => SafeInv
  BY TypeInit, NoOversellInit DEF SafeInv
<1>2. SafeInv /\ [Next]_vars => SafeInv'
  BY RedisTypeStep, MongoTypeStep, CallTypeStep, HistoryTypeStep, CommitsAreSoldStep,
     NoOversellStep
  DEF SafeInv, TypeOK
<1>3. SafeInv => NoOversell
  BY DEF SafeInv
<1> QED BY <1>1, <1>2, <1>3, PTL DEF Spec

-----------------------------------------------------------------------------
(* The ledger accounts for the stock on hand.                              *)

LEMMA BalanceStep == TypeOK /\ LedgerBalances /\ [Next]_vars => LedgerBalances'
<1> SUFFICES ASSUME TypeOK, LedgerBalances, [Next]_vars PROVE LedgerBalances'
  OBVIOUS
<1>1. ASSUME UNCHANGED mongo PROVE LedgerBalances'
  BY <1>1 DEF LedgerBalances, mongo, Booked, Total, Units
<1>2. ASSUME NEW c \in Caller, WriteLedger(c) PROVE LedgerBalances'
  <2> DEFINE o == call[c].order
             v == call[c].verdict
  <2>0. o \in Order /\ v \in Settlement
    BY <1>2, CallShape DEF WriteLedger, TypeOK, CallTypeOK
  <2>1. CASE v = "committed" /\ <<o, "commit">> \notin ledger
    <3>1. o \notin Booked("commit") /\ Booked("commit")' = Booked("commit") \cup {o}
      BY <1>2, <2>0, <2>1 DEF Booked, WriteLedger, EntryKind
    <3>2. Booked("commit") \in SUBSET Order
      BY DEF Booked
    <3>3. ASSUME NEW s \in Sku PROVE onHand'[s] = Opening[s] - Total(Booked("commit")', s)
      <4>1. onHand'[s] = onHand[s] - Qty[o][s]
        BY <1>2, <2>1 DEF WriteLedger, LoweredOnHand
      <4>2. Total(Booked("commit")', s) = Total(Booked("commit"), s) + Qty[o][s]
        BY <2>0, <3>1, <3>2, TotalAdd
      <4>3. onHand[s] = Opening[s] - Total(Booked("commit"), s)
        BY DEF LedgerBalances
      <4>4. Total(Booked("commit"), s) \in Nat /\ Qty[o][s] \in Nat /\ Opening[s] \in Nat
        BY <2>0, <3>2, UnitsFinite, Lines
      <4> HIDE DEF o
      <4> QED BY <4>1, <4>2, <4>3, <4>4
    <3> QED BY <3>3 DEF LedgerBalances, Total, Units
  <2>2. CASE ~(v = "committed" /\ <<o, "commit">> \notin ledger)
    <3>1. onHand' = onHand
      BY <1>2, <2>2 DEF WriteLedger, LoweredOnHand
    <3>2. Booked("commit")' = Booked("commit")
      BY <1>2, <2>0, <2>2 DEF Booked, WriteLedger, EntryKind, Settlement
    <3> QED BY <3>1, <3>2 DEF LedgerBalances, Total, Units
  <2> QED BY <2>1, <2>2
<1> QED
  BY <1>1, <1>2
  DEF Next, vars, Reserve, Extend, Shorten, Release, Commit, ListDue, Sweep, ForgetSettled,
      CallFails, LookUpLedger, Crash, Tick

(* The sum of the ledger's deltas is the stock on hand in every state, how *)
(* many calls ever complete the same commit.                               *)
THEOREM LedgerAlwaysBalances == Spec => []LedgerBalances
<1>1. Init => LedgerBalances
  <2> SUFFICES ASSUME Init, NEW s \in Sku PROVE onHand[s] = Opening[s] - Total(Booked("commit"), s)
    BY DEF LedgerBalances
  <2>1. Units(Booked("commit"), s) = {}
    BY DEF Init, Units, Booked
  <2>2. Total(Booked("commit"), s) = 0
    BY <2>1, FS_EmptySet DEF Total
  <2> QED BY <2>2, Lines DEF Init
<1> QED BY <1>1, TypeCorrect, BalanceStep, PTL DEF Spec

-----------------------------------------------------------------------------
(* One live reservation per user.                                          *)

(* The lock of a user names the live reservation and lives as long.        *)
LockGuards ==
  \A o \in Order : Held(o) /\ ~Due(o) =>
    userLock[Owner[o]] = o /\ lockUntil[Owner[o]] = expiresAt[o]

LEMMA LockTrace ==
  ASSUME TypeOK, LockGuards, NEW o \in Order, NEW v \in Settlement, LeaveTrace(o, v), now' = now
  PROVE  LockGuards'
<1> SUFFICES ASSUME NEW p \in Order, Held(p)', ~Due(p)'
             PROVE  userLock'[Owner[p]] = p /\ lockUntil'[Owner[p]] = expiresAt'[p]
  BY DEF LockGuards
<1>1. p # o /\ Held(p) /\ ~Due(p) /\ expiresAt' = expiresAt
  BY DEF Held, Due, LeaveTrace, TypeOK, RedisTypeOK
<1>2. userLock[Owner[p]] = p /\ lockUntil[Owner[p]] = expiresAt[p]
  BY <1>1 DEF LockGuards
<1> QED BY <1>1, <1>2, Lines DEF LeaveTrace, FreeLock

LEMMA LockStep == TypeOK /\ LockGuards /\ [Next]_vars => LockGuards'
<1> SUFFICES ASSUME TypeOK, LockGuards, [Next]_vars PROVE LockGuards'
  OBVIOUS
<1>1. ASSUME NEW o \in Order, NEW ttl \in Ttl, Reserve(o, ttl) PROVE LockGuards'
  <2> SUFFICES ASSUME NEW p \in Order, Held(p)', ~Due(p)'
               PROVE  userLock'[Owner[p]] = p /\ lockUntil'[Owner[p]] = expiresAt'[p]
    BY DEF LockGuards
  <2>1. CASE p = o
    BY <1>1, <2>1, Lines DEF Reserve, TypeOK, RedisTypeOK
  <2>2. CASE p # o
    <3>1. Held(p) /\ ~Due(p) /\ expiresAt'[p] = expiresAt[p]
      BY <1>1, <2>2 DEF Reserve, Held, Due, TypeOK, RedisTypeOK
    <3>2. userLock[Owner[p]] = p /\ lockUntil[Owner[p]] = expiresAt[p]
      BY <3>1 DEF LockGuards
    <3>3. Owner[p] # Owner[o]
      BY <1>1, <2>2, <3>2, ParameterAssumption DEF Reserve
    <3> QED BY <1>1, <3>1, <3>2, <3>3 DEF Reserve
  <2> QED BY <2>1, <2>2
<1>2. ASSUME NEW o \in Order, NEW until, expiresAt' = [expiresAt EXCEPT ![o] = until],
             Held(o), ~Due(o), MoveLock(o, until), UNCHANGED <<now, hash, indexed>>
      PROVE  LockGuards'
  <2> SUFFICES ASSUME NEW p \in Order, Held(p)', ~Due(p)'
               PROVE  userLock'[Owner[p]] = p /\ lockUntil'[Owner[p]] = expiresAt'[p]
    BY DEF LockGuards
  <2>1. Held(p) /\ ~Due(p)
    BY <1>2 DEF Held, Due, TypeOK, RedisTypeOK
  <2>2. userLock[Owner[p]] = p /\ lockUntil[Owner[p]] = expiresAt[p] /\ Owner[p] \in User
    BY <2>1, Lines DEF LockGuards
  <2> QED BY <1>2, <2>2 DEF MoveLock, TypeOK, RedisTypeOK
<1>3. ASSUME NEW o \in Order, Extend(o) PROVE LockGuards'
  BY <1>3, <1>2 DEF Extend
<1>4. ASSUME NEW o \in Order, Shorten(o) PROVE LockGuards'
  BY <1>4, <1>2 DEF Shorten
<1>5. ASSUME UNCHANGED <<now, userLock, lockUntil, expiresAt>>, indexed' \subseteq indexed,
             \A o \in Order : hash'[o] \in {hash[o], "none"}
      PROVE  LockGuards'
  BY <1>5 DEF LockGuards, Held, Due
<1>6. ASSUME NEW w \in Worker, NEW o \in Order, Release(w, o) PROVE LockGuards'
  BY <1>6, <1>5, LockTrace DEF Release, ReturnStock, DropOrphan, redis, Settlement
<1>7. ASSUME NEW w \in Worker, NEW o \in Order, Commit(w, o) PROVE LockGuards'
  BY <1>7, <1>5, LockTrace DEF Commit, TakeStock, DropOrphan, redis, Settlement
<1>8. ASSUME NEW x \in Sweeper, NEW o \in Order, Sweep(x, o) PROVE LockGuards'
  BY <1>8, <1>5, LockTrace DEF Sweep, ReturnStock, DropOrphan, redis, Settlement
<1>9. ASSUME NEW c \in Caller, ForgetSettled(c) PROVE LockGuards'
  BY <1>9, <1>5 DEF ForgetSettled, TypeOK, RedisTypeOK
<1>10. ASSUME Tick PROVE LockGuards'
  <2> SUFFICES ASSUME NEW p \in Order, Held(p)', ~Due(p)'
               PROVE  userLock'[Owner[p]] = p /\ lockUntil'[Owner[p]] = expiresAt'[p]
    BY DEF LockGuards
  <2>1. Held(p) /\ ~Due(p) /\ expiresAt' = expiresAt /\ ~(expiresAt[p] <= now + 1)
    BY <1>10 DEF Tick, Held, Due, TypeOK, RedisTypeOK
  <2>2. userLock[Owner[p]] = p /\ lockUntil[Owner[p]] = expiresAt[p] /\ Owner[p] \in User
    BY <2>1, Lines DEF LockGuards
  <2> QED BY <1>10, <2>1, <2>2 DEF Tick
<1>11. ASSUME UNCHANGED <<now, redis>> PROVE LockGuards'
  BY <1>11, <1>5 DEF redis
<1> QED
  BY <1>1, <1>3, <1>4, <1>6, <1>7, <1>8, <1>9, <1>10, <1>11
  DEF Next, vars, ListDue, WriteLedger, CallFails, LookUpLedger, Crash

(* A user never has two live reservations, whatever is extended, shortened *)
(* or swept by however many instances.                                     *)
THEOREM OneLiveReservation == Spec => []OneLivePerUser
<1>1. Init => LockGuards
  BY DEF Init, LockGuards, Held
<1>2. TypeOK /\ LockGuards => OneLivePerUser
  BY DEF LockGuards, OneLivePerUser
<1> QED BY <1>1, <1>2, TypeCorrect, LockStep, PTL DEF Spec

-----------------------------------------------------------------------------
(* The stock of an order moves once.                                       *)

(* What an order reserved once can still do: nothing before its Reserve,   *)
(* and while it is active neither outcome has happened.                    *)
OncePerOrder ==
  \A o \in Order :
    /\ reserves[o] = 0 => hash[o] = "none" /\ o \notin sold \cup returned
    /\ hash[o] = "active" => o \notin sold \cup returned
    /\ ~(o \in sold /\ o \in returned)

LEMMA OnceStep == MaxReserves <= 1 /\ TypeOK /\ OncePerOrder /\ [Next]_vars => OncePerOrder'
<1> SUFFICES ASSUME MaxReserves <= 1, TypeOK, OncePerOrder, [Next]_vars PROVE OncePerOrder'
  OBVIOUS
<1> USE DEF OncePerOrder
<1>1. ASSUME NEW o \in Order, NEW ttl \in Ttl, Reserve(o, ttl) PROVE OncePerOrder'
  <2>1. reserves[o] = 0
    BY <1>1, ParameterAssumption DEF Reserve, TypeOK, HistoryTypeOK
  <2>2. /\ hash' = [hash EXCEPT ![o] = "active"]
        /\ reserves' = [reserves EXCEPT ![o] = @ + 1]
        /\ UNCHANGED <<sold, returned>>
    BY <1>1 DEF Reserve, history
  <2> QED BY <2>1, <2>2 DEF TypeOK, RedisTypeOK, HistoryTypeOK
<1>2. ASSUME UNCHANGED <<sold, returned, reserves>>,
             \A o \in Order : hash'[o] \in {hash[o], "none"}
      PROVE  OncePerOrder'
  BY <1>2
<1>3. ASSUME NEW o \in Order, NEW v \in Settlement, Held(o), LeaveTrace(o, v), reserves' = reserves,
             \/ sold' = sold \cup {o} /\ returned' = returned
             \/ sold' = sold /\ returned' = returned \cup {o}
      PROVE  OncePerOrder'
  BY <1>3 DEF Held, LeaveTrace, TypeOK, RedisTypeOK, Settlement
<1>4. ASSUME NEW w \in Worker, NEW o \in Order, Release(w, o) PROVE OncePerOrder'
  BY <1>4, <1>2, <1>3 DEF Release, ReturnStock, DropOrphan, redis, history, bounded, Settlement
<1>5. ASSUME NEW w \in Worker, NEW o \in Order, Commit(w, o) PROVE OncePerOrder'
  BY <1>5, <1>2, <1>3 DEF Commit, TakeStock, DropOrphan, redis, history, bounded, Settlement
<1>6. ASSUME NEW x \in Sweeper, NEW o \in Order, Sweep(x, o) PROVE OncePerOrder'
  BY <1>6, <1>2, <1>3
  DEF Sweep, Expirable, ReturnStock, DropOrphan, redis, history, bounded, Settlement
<1>7. ASSUME NEW c \in Caller, ForgetSettled(c) PROVE OncePerOrder'
  BY <1>7, <1>2 DEF ForgetSettled, TypeOK, RedisTypeOK, history, bounded
<1>8. ASSUME Tick PROVE OncePerOrder'
  BY <1>8, <1>2 DEF Tick, history, bounded
<1> QED
  BY <1>1, <1>2, <1>4, <1>5, <1>6, <1>7, <1>8
  DEF Next, vars, redis, history, bounded, Extend, Shorten, ListDue, WriteLedger, CallFails,
      LookUpLedger, Crash

(* Release, Commit and sweep race as they may: when no Reserve comes twice *)
(* the stock of an order is sold or returned and never both.               *)
THEOREM StockMovesOnce ==
  ASSUME MaxReserves <= 1
  PROVE  Spec => []MovesOnce
<1>1. Init => OncePerOrder
  BY DEF Init, OncePerOrder
<1>2. TypeOK /\ OncePerOrder /\ [Next]_vars => OncePerOrder'
  BY OnceStep
<1>3. TypeOK /\ OncePerOrder => MovesOnce
  BY DEF OncePerOrder, MovesOnce, TypeOK, HistoryTypeOK
<1> QED BY <1>1, <1>2, <1>3, TypeCorrect, PTL DEF Spec

-----------------------------------------------------------------------------
(* The ledger, Redis and the calls tell one story of an order.             *)

(* What says that an order was settled as v: its trace, the ledger, or a   *)
(* call that is completing it.                                             *)
CallSays(c, o, v) ==
  call[c].step \in {"ledger", "forget"} /\ call[c].order = o /\ call[c].verdict = v
Says(o, v) ==
  hash[o] = v \/ <<o, EntryKind[v]>> \in ledger \/ \E c \in Caller : CallSays(c, o, v)

(* All of them say the same, and it has happened.                          *)
OneVerdict ==
  \A o \in Order, v \in Settlement : Says(o, v) =>
    /\ v = "committed" => o \in sold
    /\ v # "committed" => o \in returned
    /\ \A w \in Settlement : Says(o, w) => w = v

(* A trace is deleted by a call that has written the ledger; a call looks  *)
(* for the verdict of an order that Redis no longer knows.                 *)
CallsInOrder ==
  \A c \in Caller :
    /\ call[c].step = "forget" => <<call[c].order, EntryKind[call[c].verdict]>> \in ledger
    /\ call[c].step \in {"ledger", "forget"} =>
         /\ call[c].op = "commit" => call[c].verdict = "committed"
         /\ call[c].op = "release" => call[c].verdict # "committed"
    /\ call[c].step = "lookup" /\ call[c].op = "commit" =>
         reserves[call[c].order] > 0 /\ hash[call[c].order] = "none"

(* What was answered has happened, and what was denied cannot happen.      *)
AnswersHold ==
  \A o \in Order :
    /\ <<o, "sold">> \in answers => o \in sold
    /\ <<o, "returned">> \in answers => o \in returned
    /\ <<o, "unsold">> \in answers => o \notin sold /\ reserves[o] > 0 /\ hash[o] # "active"

ActiveIsIndexed == \A o \in Order : hash[o] = "active" => o \in indexed

VerdictInv == OncePerOrder /\ ActiveIsIndexed /\ OneVerdict /\ CallsInOrder
StoryInv == VerdictInv /\ NothingForgotten /\ AnswersHold

(* The kinds of step the story knows.                                      *)
story == <<hash, indexed, ledger, sold, returned, answers, reserves>>

Opens(o) ==
  /\ hash[o] = "none" /\ reserves[o] = 0
  /\ hash' = [hash EXCEPT ![o] = "active"] /\ indexed' = indexed \cup {o}
  /\ reserves' = [reserves EXCEPT ![o] = @ + 1]
  /\ UNCHANGED <<ledger, sold, returned, answers, call>>
OpFits(op, v) == (op = "commit" => v = "committed") /\ (op = "release" => v # "committed")
Settles(c, o, op, v) ==
  /\ Held(o) /\ OpFits(op, v)
  /\ hash' = [hash EXCEPT ![o] = v] /\ indexed' = indexed \ {o}
  /\ \/ v = "committed" /\ sold' = sold \cup {o} /\ returned' = returned
     \/ v # "committed" /\ sold' = sold /\ returned' = returned \cup {o}
  /\ call' = [call EXCEPT ![c] = Settling(o, op, v)]
  /\ UNCHANGED <<ledger, answers, reserves>>
Completes(c, o, op) ==
  /\ hash[o] \in Settlement /\ OpFits(op, hash[o])
  /\ call' = [call EXCEPT ![c] = Settling(o, op, hash[o])]
  /\ UNCHANGED story
Looks(c, o, op) ==
  /\ hash[o] = "none" /\ (op = "commit" => reserves[o] > 0)
  /\ call' = [call EXCEPT ![c] = Looking(o, op)]
  /\ indexed' \in {indexed, indexed \ {o}}
  /\ UNCHANGED <<hash, ledger, sold, returned, answers, reserves>>
Denies(o) ==
  /\ hash[o] \in {"released", "expired"} /\ reserves[o] > 0
  /\ answers' = answers \cup {<<o, "unsold">>}
  /\ UNCHANGED <<hash, indexed, ledger, sold, returned, reserves, call>>
Quiet ==
  /\ call' = call \/ \E c \in Caller : call' = [call EXCEPT ![c] = Idle]
  /\ indexed' = indexed \/ \E o \in Order : hash[o] = "none" /\ indexed' = indexed \ {o}
  /\ UNCHANGED <<hash, ledger, sold, returned, answers, reserves>>

LEMMA KindsOfStep ==
  ASSUME MaxReserves <= 1, TypeOK, ActiveIsIndexed, [Next]_vars
  PROVE  \/ \E o \in Order : Opens(o) \/ Denies(o)
         \/ \E c \in Caller, o \in Order, op \in {"release", "commit", "sweep"} :
              \/ \E v \in Settlement : Settles(c, o, op, v)
              \/ Completes(c, o, op)
         \/ \E c \in Caller, o \in Order, op \in {"release", "commit"} : Looks(c, o, op)
         \/ \E c \in Caller : WriteLedger(c) \/ ForgetSettled(c)
         \/ \E w \in Worker : LookUpLedger(w)
         \/ Quiet \/ Tick
<1> DEFINE Known ==
  \/ \E o \in Order : Opens(o) \/ Denies(o)
  \/ \E c \in Caller, o \in Order, op \in {"release", "commit", "sweep"} :
       \/ \E v \in Settlement : Settles(c, o, op, v)
       \/ Completes(c, o, op)
  \/ \E c \in Caller, o \in Order, op \in {"release", "commit"} : Looks(c, o, op)
  \/ \E c \in Caller : WriteLedger(c) \/ ForgetSettled(c)
  \/ \E w \in Worker : LookUpLedger(w)
  \/ Quiet \/ Tick
<1>1. ASSUME NEW o \in Order, NEW ttl \in Ttl, Reserve(o, ttl) PROVE Known
  <2>1. reserves[o] = 0
    BY <1>1, ParameterAssumption DEF Reserve, TypeOK, HistoryTypeOK
  <2>2. Opens(o)
    BY <1>1, <2>1 DEF Opens, Reserve, mongo, history
  <2> QED BY <2>2
<1>2. ASSUME NEW o \in Order, Extend(o) \/ Shorten(o) PROVE Known
  <2>1. Quiet
    BY <1>2 DEF Quiet, Extend, Shorten, mongo, history, bounded
  <2> QED BY <2>1
<1>3. ASSUME NEW w \in Worker, NEW o \in Order, Release(w, o) PROVE Known
  <2>0. w \in Caller /\ "release" \in {"release", "commit"}
    BY DEF Caller
  <2>1. CASE /\ Held(o) /\ ReturnStock(o, "released")
             /\ call' = [call EXCEPT ![w] = Settling(o, "release", "released")]
    <3>1. Settles(w, o, "release", "released") /\ "released" \in Settlement
      BY <1>3, <2>1 DEF Settles, OpFits, ReturnStock, LeaveTrace, Release, mongo, bounded, Settlement
    <3> QED BY <2>0, <3>1
  <2>2. CASE /\ hash[o] \in {"released", "expired"}
             /\ call' = [call EXCEPT ![w] = Settling(o, "release", hash[o])]
             /\ UNCHANGED <<redis, history>>
    <3>1. Completes(w, o, "release")
      BY <1>3, <2>2 DEF Completes, OpFits, Release, story, redis, history, mongo, bounded, Settlement
    <3> QED BY <2>0, <3>1
  <2>3. CASE /\ \/ Absent(o) /\ UNCHANGED <<redis, history>>
                \/ Orphaned(o) /\ DropOrphan(o)
             /\ call' = [call EXCEPT ![w] = Looking(o, "release")]
    <3>1. hash[o] = "none"
      BY <2>3 DEF Absent, Orphaned, Settled, ActiveIsIndexed, TypeOK, RedisTypeOK, HashState
    <3>2. Looks(w, o, "release")
      BY <1>3, <2>3, <3>1 DEF Looks, Release, DropOrphan, redis, history, mongo, bounded
    <3> QED BY <2>0, <3>2
  <2> QED BY <1>3, <2>1, <2>2, <2>3 DEF Release
<1>4. ASSUME NEW w \in Worker, NEW o \in Order, Commit(w, o) PROVE Known
  <2>0. w \in Caller /\ "commit" \in {"release", "commit"} /\ reserves[o] > 0
    BY <1>4 DEF Caller, Commit
  <2>1. CASE /\ Held(o) /\ TakeStock(o)
             /\ call' = [call EXCEPT ![w] = Settling(o, "commit", "committed")] /\ UNCHANGED answers
    <3>1. Settles(w, o, "commit", "committed") /\ "committed" \in Settlement
      BY <1>4, <2>1 DEF Settles, OpFits, TakeStock, LeaveTrace, Commit, mongo, bounded, Settlement
    <3> QED BY <2>0, <3>1
  <2>2. CASE /\ hash[o] = "committed"
             /\ call' = [call EXCEPT ![w] = Settling(o, "commit", "committed")]
             /\ UNCHANGED <<redis, history, answers>>
    <3>1. Completes(w, o, "commit")
      BY <1>4, <2>2 DEF Completes, OpFits, Commit, story, redis, history, mongo, bounded, Settlement
    <3> QED BY <2>0, <3>1
  <2>3. CASE hash[o] \in {"released", "expired"} /\ Answer(o, "unsold") /\ UNCHANGED <<redis, history, call>>
    <3>1. Denies(o)
      BY <1>4, <2>0, <2>3 DEF Denies, Answer, Commit, redis, history, mongo, bounded
    <3> QED BY <3>1
  <2>4. CASE /\ \/ Absent(o) /\ UNCHANGED <<redis, history>>
                \/ Orphaned(o) /\ DropOrphan(o)
             /\ call' = [call EXCEPT ![w] = Looking(o, "commit")] /\ UNCHANGED answers
    <3>1. hash[o] = "none"
      BY <2>4 DEF Absent, Orphaned, Settled, ActiveIsIndexed, TypeOK, RedisTypeOK, HashState
    <3>2. Looks(w, o, "commit")
      BY <1>4, <2>0, <2>4, <3>1 DEF Looks, Commit, DropOrphan, redis, history, mongo, bounded
    <3> QED BY <2>0, <3>2
  <2> QED BY <1>4, <2>1, <2>2, <2>3, <2>4 DEF Commit
<1>5. ASSUME NEW x \in Sweeper, NEW o \in Order, Sweep(x, o) PROVE Known
  <2>0. x \in Caller
    BY DEF Caller
  <2>1. CASE /\ Expirable(o) /\ ReturnStock(o, "expired")
             /\ call' = [call EXCEPT ![x] = Settling(o, "sweep", "expired")]
    <3>1. Settles(x, o, "sweep", "expired") /\ "expired" \in Settlement
      BY <1>5, <2>1 DEF Settles, OpFits, Expirable, ReturnStock, LeaveTrace, Sweep, mongo, bounded, Settlement
    <3> QED BY <2>0, <3>1
  <2>2. CASE /\ hash[o] = "expired" /\ UNCHANGED <<redis, history>>
             /\ call' = [call EXCEPT ![x] = Settling(o, "sweep", "expired")]
    <3>1. Completes(x, o, "sweep")
      BY <1>5, <2>2 DEF Completes, OpFits, Sweep, story, redis, history, mongo, bounded, Settlement
    <3> QED BY <2>0, <3>1
  <2>3. CASE /\ \/ Orphaned(o) /\ DropOrphan(o)
                \/ UNCHANGED <<redis, history>>
             /\ UNCHANGED call
    <3>1. Quiet
      BY <1>5, <2>3 DEF Quiet, Sweep, Orphaned, DropOrphan, redis, history, mongo, bounded
    <3> QED BY <3>1
  <2> QED BY <1>5, <2>1, <2>2, <2>3 DEF Sweep
<1>6. ASSUME NEW x \in Sweeper, ListDue(x) PROVE Known
  <2>1. Quiet
    BY <1>6 DEF Quiet, ListDue, redis, mongo, history, bounded
  <2> QED BY <2>1
<1>7. ASSUME NEW c \in Caller, CallFails(c) PROVE Known
  <2>1. Quiet
    BY <1>7 DEF Quiet, CallFails, redis, mongo, history
  <2> QED BY <2>1
<1>8. ASSUME NEW x \in Sweeper, Crash(x) PROVE Known
  <2>1. Quiet
    BY <1>8 DEF Quiet, Crash, Caller, redis, mongo, history
  <2> QED BY <2>1
<1>9. ASSUME UNCHANGED vars PROVE Known
  <2>1. Quiet
    BY <1>9 DEF Quiet, vars, redis, mongo, history, bounded
  <2> QED BY <2>1
<1>10. ASSUME NEW c \in Caller, WriteLedger(c) \/ ForgetSettled(c) PROVE Known
  <2>1. \E d \in Caller : WriteLedger(d) \/ ForgetSettled(d)
    BY <1>10
  <2> QED BY <2>1
<1>11. ASSUME NEW w \in Worker, LookUpLedger(w) PROVE Known
  BY <1>11
<1>12. ASSUME Tick PROVE Known
  BY <1>12
<1> HIDE DEF Known
<1>13. Known
  <2>1. CASE Next
    BY <1>1, <1>2, <1>3, <1>4, <1>5, <1>6, <1>7, <1>8, <1>10, <1>11, <1>12, <2>1 DEF Next
  <2> QED BY <1>9, <2>1
<1> QED BY <1>13 DEF Known

(* Once per order, and an active hash in the index: the first two parts.   *)
LEMMA IndexStep == TypeOK /\ ActiveIsIndexed /\ MaxReserves <= 1 /\ [Next]_vars => ActiveIsIndexed'
<1> SUFFICES ASSUME TypeOK, ActiveIsIndexed, MaxReserves <= 1, [Next]_vars PROVE ActiveIsIndexed'
  OBVIOUS
<1> USE DEF ActiveIsIndexed, TypeOK, RedisTypeOK
<1>1. ASSUME NEW o \in Order, Opens(o) \/ Denies(o) PROVE ActiveIsIndexed'
  BY <1>1 DEF Opens, Denies
<1>2. ASSUME NEW c \in Caller, NEW o \in Order, NEW op, NEW v \in Settlement, Settles(c, o, op, v)
      PROVE  ActiveIsIndexed'
  BY <1>2 DEF Settles, Settlement
<1>3. ASSUME NEW c \in Caller, NEW o \in Order, NEW op, Completes(c, o, op) \/ Looks(c, o, op)
      PROVE  ActiveIsIndexed'
  BY <1>3 DEF Completes, Looks, story
<1>4. ASSUME NEW c \in Caller, WriteLedger(c) \/ ForgetSettled(c) PROVE ActiveIsIndexed'
  BY <1>4 DEF WriteLedger, ForgetSettled, redis
<1>5. ASSUME NEW w \in Worker, LookUpLedger(w) PROVE ActiveIsIndexed'
  BY <1>5 DEF LookUpLedger, redis
<1>6. CASE Quiet
  BY <1>6 DEF Quiet
<1>7. CASE Tick
  BY <1>7 DEF Tick
<1> HIDE DEF ActiveIsIndexed, TypeOK, RedisTypeOK
<1> QED BY <1>1, <1>2, <1>3, <1>4, <1>5, <1>6, <1>7, KindsOfStep

(* What a call says after a step that touched one call.                    *)
LEMMA CallSaysLess ==
  ASSUME TypeOK, NEW c \in Caller, NEW x, call' = [call EXCEPT ![c] = x],
         x.step \notin {"ledger", "forget"}
  PROVE  \A d \in Caller : \A o, v : CallSays(d, o, v)' => CallSays(d, o, v)
  BY DEF CallSays, TypeOK, CallTypeOK

LEMMA CallSaysNew ==
  ASSUME TypeOK, NEW c \in Caller, NEW o, NEW op, NEW v,
         call' = [call EXCEPT ![c] = Settling(o, op, v)]
  PROVE  \A d \in Caller : \A p, w : CallSays(d, p, w)' => CallSays(d, p, w) \/ (p = o /\ w = v)
  BY DEF CallSays, Settling, TypeOK, CallTypeOK

LEMMA SaysNoMore ==
  ASSUME OneVerdict, sold \subseteq sold', returned \subseteq returned',
         \A o \in Order, v \in Settlement : Says(o, v)' => Says(o, v)
  PROVE  OneVerdict'
  BY DEF OneVerdict

(* The first settlement of an order is the first that is said of it.       *)
LEMMA SaysFirst ==
  ASSUME OneVerdict, OncePerOrder, NEW o \in Order, hash[o] = "active", NEW v \in Settlement,
         sold \subseteq sold', returned \subseteq returned',
         v = "committed" => o \in sold', v # "committed" => o \in returned',
         \A p \in Order, w \in Settlement : Says(p, w)' => Says(p, w) \/ (p = o /\ w = v)
  PROVE  OneVerdict'
<1>1. \A w \in Settlement : ~Says(o, w)
  BY DEF OneVerdict, OncePerOrder, Settlement
<1> QED BY <1>1 DEF OneVerdict

LEMMA OneVerdictStep ==
  MaxReserves <= 1 /\ TypeOK /\ VerdictInv /\ [Next]_vars => OneVerdict'
<1> SUFFICES ASSUME MaxReserves <= 1, TypeOK, VerdictInv, [Next]_vars PROVE OneVerdict'
  OBVIOUS
<1> USE DEF VerdictInv
<1>1. ASSUME NEW o \in Order, Opens(o) \/ Denies(o) PROVE OneVerdict'
  <2>1. \A p \in Order, w \in Settlement : Says(p, w)' => Says(p, w)
    <3>1. call' = call /\ ledger' = ledger /\ \A p \in Order : hash'[p] \in {hash[p], "active"}
      BY <1>1 DEF Opens, Denies, TypeOK, RedisTypeOK
    <3> QED BY <3>1 DEF Says, CallSays, Settlement
  <2> QED BY <1>1, <2>1, SaysNoMore DEF Opens, Denies
<1>2. ASSUME NEW c \in Caller, NEW o \in Order, NEW op, NEW v \in Settlement, Settles(c, o, op, v)
      PROVE  OneVerdict'
  <2>1. \A d \in Caller : \A p, w : CallSays(d, p, w)' => CallSays(d, p, w) \/ (p = o /\ w = v)
    BY <1>2, CallSaysNew DEF Settles
  <2>2. /\ ledger' = ledger
        /\ \A p \in Order : hash'[p] = IF p = o THEN v ELSE hash[p]
    BY <1>2 DEF Settles, TypeOK, RedisTypeOK
  <2>3. \A p \in Order, w \in Settlement : Says(p, w)' => Says(p, w) \/ (p = o /\ w = v)
    BY <2>1, <2>2 DEF Says
  <2> QED BY <1>2, <2>3, SaysFirst DEF Settles, Held
<1>3. ASSUME NEW c \in Caller, NEW o \in Order, NEW op, Completes(c, o, op) PROVE OneVerdict'
  <2>0. PICK v \in Settlement : v = hash[o]
    BY <1>3 DEF Completes
  <2>1. \A d \in Caller : \A p, w : CallSays(d, p, w)' => CallSays(d, p, w) \/ (p = o /\ w = v)
    <3>1. call' = [call EXCEPT ![c] = Settling(o, op, v)]
      BY <1>3, <2>0 DEF Completes
    <3> QED BY <3>1, CallSaysNew
  <2>2. UNCHANGED <<hash, ledger, sold, returned>>
    BY <1>3 DEF Completes, story
  <2>3. \A p \in Order, w \in Settlement : Says(p, w)' => Says(p, w)
    BY <2>0, <2>1, <2>2 DEF Says
  <2> QED BY <2>2, <2>3, SaysNoMore
<1>4. ASSUME NEW c \in Caller, NEW o \in Order, NEW op, Looks(c, o, op) PROVE OneVerdict'
  <2>1. \A d \in Caller : \A p, w : CallSays(d, p, w)' => CallSays(d, p, w)
    BY <1>4, CallSaysLess DEF Looks, Looking
  <2>2. \A p \in Order, w \in Settlement : Says(p, w)' => Says(p, w)
    BY <1>4, <2>1 DEF Says, Looks
  <2> QED BY <1>4, <2>2, SaysNoMore DEF Looks
<1>5. ASSUME NEW c \in Caller, WriteLedger(c) PROVE OneVerdict'
  <2>1. CallSays(c, call[c].order, call[c].verdict) /\ call[c].verdict \in Settlement
    BY <1>5, CallShape DEF WriteLedger, CallSays, TypeOK, CallTypeOK
  <2>2. \A d \in Caller : \A p, w : CallSays(d, p, w)' => CallSays(d, p, w)
    BY <1>5 DEF WriteLedger, CallSays, TypeOK, CallTypeOK
  <2>3. \A v, w \in Settlement : EntryKind[v] = EntryKind[w] => v = w
    BY DEF Settlement, EntryKind
  <2>4. \A p \in Order, w \in Settlement :
          <<p, EntryKind[w]>> \in ledger' =>
            <<p, EntryKind[w]>> \in ledger \/ (p = call[c].order /\ w = call[c].verdict)
    BY <1>5, <2>1, <2>3 DEF WriteLedger
  <2>5. UNCHANGED <<hash, sold, returned>>
    BY <1>5 DEF WriteLedger, redis, history
  <2>6. \A p \in Order, w \in Settlement : Says(p, w)' => Says(p, w)
    BY <2>1, <2>2, <2>4, <2>5 DEF Says
  <2> QED BY <2>5, <2>6, SaysNoMore
<1>6. ASSUME NEW c \in Caller, call' = [call EXCEPT ![c] = Idle], UNCHANGED <<ledger, sold, returned>>,
             \A p \in Order : hash'[p] \in {hash[p], "none"}
      PROVE  OneVerdict'
  <2>1. \A d \in Caller : \A p, w : CallSays(d, p, w)' => CallSays(d, p, w)
    BY <1>6, CallSaysLess DEF Idle
  <2>2. \A p \in Order, w \in Settlement : Says(p, w)' => Says(p, w)
    BY <1>6, <2>1 DEF Says, Settlement
  <2> QED BY <1>6, <2>2, SaysNoMore
<1>7. ASSUME call' = call, UNCHANGED <<ledger, sold, returned>>,
             \A p \in Order : hash'[p] \in {hash[p], "none"}
      PROVE  OneVerdict'
  <2>1. \A p \in Order, w \in Settlement : Says(p, w)' => Says(p, w)
    BY <1>7 DEF Says, CallSays, Settlement
  <2> QED BY <1>7, <2>1, SaysNoMore
<1>8. ASSUME NEW c \in Caller, ForgetSettled(c) PROVE OneVerdict'
  BY <1>6, <1>8 DEF ForgetSettled, mongo, history, TypeOK, RedisTypeOK
<1>9. ASSUME NEW w \in Worker, LookUpLedger(w) PROVE OneVerdict'
  BY <1>6, <1>9 DEF LookUpLedger, redis, mongo, history, Caller
<1>10. CASE Quiet
  BY <1>6, <1>7, <1>10 DEF Quiet
<1>11. CASE Tick
  BY <1>7, <1>11 DEF Tick, mongo, history
<1> QED BY <1>1, <1>2, <1>3, <1>4, <1>5, <1>8, <1>9, <1>10, <1>11, KindsOfStep

LEMMA CallsInOrderStep ==
  MaxReserves <= 1 /\ TypeOK /\ VerdictInv /\ [Next]_vars => CallsInOrder'
<1> SUFFICES ASSUME MaxReserves <= 1, TypeOK, VerdictInv, [Next]_vars PROVE CallsInOrder'
  OBVIOUS
<1> DEFINE Fine(x, story_ledger, story_hash, story_reserves) ==
  /\ x.step = "forget" => <<x.order, EntryKind[x.verdict]>> \in story_ledger
  /\ x.step \in {"ledger", "forget"} => OpFits(x.op, x.verdict)
  /\ x.step = "lookup" /\ x.op = "commit" =>
       story_reserves[x.order] > 0 /\ story_hash[x.order] = "none"
<1>0. CallsInOrder <=> \A c \in Caller : Fine(call[c], ledger, hash, reserves)
  BY DEF CallsInOrder, OpFits
<1>00. CallsInOrder' <=> \A c \in Caller : Fine(call'[c], ledger', hash', reserves')
  BY DEF CallsInOrder, OpFits
<1>01. \A c \in Caller : Fine(call[c], ledger, hash, reserves)
  BY <1>0 DEF VerdictInv
<1>02. /\ call \in [Caller -> CallState] /\ reserves \in [Order -> Nat] /\ hash \in [Order -> HashState]
       /\ \A c \in Caller : call[c].step = "lookup" => call[c].order \in Order
  BY CallShape DEF TypeOK, CallTypeOK, HistoryTypeOK, RedisTypeOK
(* A call that is not touched stays in order when the world only moves on. *)
<1>03. ASSUME NEW c \in Caller, call'[c] = call[c], ledger \subseteq ledger',
              \A o \in Order : hash[o] = "none" /\ reserves[o] > 0 =>
                                  hash'[o] = "none" /\ reserves'[o] > 0
       PROVE  Fine(call'[c], ledger', hash', reserves')
  BY <1>01, <1>02, <1>03
<1>04. ASSUME NEW c \in Caller, NEW x, call' = [call EXCEPT ![c] = x],
              ledger \subseteq ledger',
              \A o \in Order : hash[o] = "none" /\ reserves[o] > 0 =>
                                  hash'[o] = "none" /\ reserves'[o] > 0,
              Fine(x, ledger', hash', reserves')
       PROVE  CallsInOrder'
  <2>1. \A d \in Caller : d # c => call'[d] = call[d]
    BY <1>02, <1>04
  <2>2. call'[c] = x
    BY <1>02, <1>04
  <2>3. ASSUME NEW d \in Caller PROVE Fine(call'[d], ledger', hash', reserves')
    BY <1>03, <1>04, <2>1, <2>2
  <2> HIDE DEF Fine
  <2> QED BY <1>00, <2>3
<1>05. ASSUME call' = call, ledger \subseteq ledger',
              \A o \in Order : hash[o] = "none" /\ reserves[o] > 0 =>
                                  hash'[o] = "none" /\ reserves'[o] > 0
       PROVE  CallsInOrder'
  BY <1>00, <1>03, <1>05
<1> HIDE DEF Fine
<1>1. ASSUME NEW o \in Order, Opens(o) \/ Denies(o) PROVE CallsInOrder'
  <2>1. \A p \in Order : hash[p] = "none" /\ reserves[p] > 0 => hash'[p] = "none" /\ reserves'[p] > 0
    BY <1>1, <1>02 DEF Opens, Denies
  <2> QED BY <1>1, <1>05, <2>1 DEF Opens, Denies
<1>2. ASSUME NEW c \in Caller, NEW o \in Order, NEW op, NEW v \in Settlement, Settles(c, o, op, v)
      PROVE  CallsInOrder'
  <2>1. \A p \in Order : hash[p] = "none" /\ reserves[p] > 0 => hash'[p] = "none" /\ reserves'[p] > 0
    BY <1>2, <1>02 DEF Settles, Held
  <2>2. Fine(Settling(o, op, v), ledger', hash', reserves')
    BY <1>2 DEF Fine, Settling, Settles
  <2> QED BY <1>2, <1>04, <2>1, <2>2 DEF Settles
<1>3. ASSUME NEW c \in Caller, NEW o \in Order, NEW op, Completes(c, o, op) PROVE CallsInOrder'
  <2>1. UNCHANGED <<hash, ledger, reserves>>
    BY <1>3 DEF Completes, story
  <2>2. Fine(Settling(o, op, hash[o]), ledger', hash', reserves')
    BY <1>3 DEF Fine, Settling, Completes
  <2> QED BY <1>3, <1>04, <2>1, <2>2 DEF Completes
<1>4. ASSUME NEW c \in Caller, NEW o \in Order, NEW op, Looks(c, o, op) PROVE CallsInOrder'
  <2>2. Fine(Looking(o, op), ledger', hash', reserves')
    BY <1>4 DEF Fine, Looking, Looks
  <2> QED BY <1>4, <1>04, <2>2 DEF Looks
<1>5. ASSUME NEW c \in Caller, WriteLedger(c) PROVE CallsInOrder'
  <2>1. /\ call' = [call EXCEPT ![c] = [call[c] EXCEPT !.step = "forget"]]
        /\ ledger' = ledger \cup {<<call[c].order, EntryKind[call[c].verdict]>>}
        /\ hash' = hash /\ reserves' = reserves /\ call[c].step = "ledger"
    BY <1>5 DEF WriteLedger, redis, bounded
  <2>2. call[c] \in [step : {"ledger", "forget"}, order : Order, op : {"release", "commit", "sweep"},
                     verdict : Settlement]
    BY <2>1, <1>02 DEF CallState, Idle
  <2>3. OpFits(call[c].op, call[c].verdict)
    BY <1>01, <2>1 DEF Fine
  <2>4. Fine([call[c] EXCEPT !.step = "forget"], ledger', hash', reserves')
    BY <2>1, <2>2, <2>3 DEF Fine
  <2> QED BY <1>04, <2>1, <2>4
<1>6. ASSUME NEW c \in Caller, call' = [call EXCEPT ![c] = Idle], UNCHANGED <<ledger, reserves>>,
             \A p \in Order : hash'[p] \in {hash[p], "none"}
      PROVE  CallsInOrder'
  <2>1. Fine(Idle, ledger', hash', reserves')
    BY DEF Fine, Idle
  <2> QED BY <1>04, <1>6, <2>1
<1>7. ASSUME NEW c \in Caller, ForgetSettled(c) PROVE CallsInOrder'
  BY <1>6, <1>7, <1>02 DEF ForgetSettled, mongo, bounded
<1>8. ASSUME NEW w \in Worker, LookUpLedger(w) PROVE CallsInOrder'
  BY <1>6, <1>8 DEF LookUpLedger, redis, mongo, bounded, Caller
<1>9. CASE Quiet
  BY <1>05, <1>6, <1>9 DEF Quiet
<1>10. CASE Tick
  BY <1>05, <1>10 DEF Tick, mongo, bounded
<1> QED BY <1>1, <1>2, <1>3, <1>4, <1>5, <1>7, <1>8, <1>9, <1>10, KindsOfStep DEF VerdictInv

(* The one thing asked of the world: a trace does not run out of its life  *)
(* (SETTLED_RESERVATION_TTL_MS, a day) before some call has completed it.  *)
TraceIsBooked ==
  now' # now =>
    \A o \in Order, v \in Settlement : hash[o] = v /\ hash'[o] # v => <<o, EntryKind[v]>> \in ledger
TracesOutliveCalls == [][TraceIsBooked]_vars

LEMMA NothingForgottenStep ==
  MaxReserves <= 1 /\ TypeOK /\ StoryInv /\ [Next]_vars /\ [TraceIsBooked]_vars => NothingForgotten'
<1> SUFFICES ASSUME MaxReserves <= 1, TypeOK, StoryInv, [Next]_vars, [TraceIsBooked]_vars
             PROVE  NothingForgotten'
  OBVIOUS
<1>0. /\ OncePerOrder /\ OneVerdict /\ CallsInOrder /\ NothingForgotten
      /\ hash \in [Order -> HashState] /\ sold \subseteq Order /\ returned \subseteq Order
  BY DEF StoryInv, VerdictInv, TypeOK, RedisTypeOK, HistoryTypeOK
<1>01. /\ \A o \in Order : o \in Booked("commit") <=> <<o, EntryKind["committed"]>> \in ledger
       /\ \A o \in Order : o \in Booked("release") <=> <<o, EntryKind["released"]>> \in ledger
       /\ \A o \in Order : o \in Booked("expire") <=> <<o, EntryKind["expired"]>> \in ledger
  BY DEF Booked, EntryKind
(* Every trace stays or is booked, and every settlement leaves one.        *)
<1>02. ASSUME ledger \subseteq ledger', sold' \subseteq Order, returned' \subseteq Order,
              \A o \in sold' : o \in sold \/ hash'[o] = "committed",
              \A o \in returned' : o \in returned \/ hash'[o] \in {"released", "expired"},
              \A o \in Order, v \in Settlement :
                hash[o] = v /\ o \in sold \cup returned =>
                  hash'[o] = v \/ <<o, EntryKind[v]>> \in ledger'
       PROVE  NothingForgotten'
  BY <1>0, <1>01, <1>02 DEF NothingForgotten, Settlement, Booked, EntryKind
<1>1. ASSUME NEW o \in Order, Opens(o) \/ Denies(o) PROVE NothingForgotten'
  <2>1. \A p \in Order, v \in Settlement : hash[p] = v => hash'[p] = v
    BY <1>0, <1>1 DEF Opens, Denies, Settlement
  <2> QED BY <1>0, <1>02, <1>1, <2>1 DEF Opens, Denies
<1>2. ASSUME NEW c \in Caller, NEW o \in Order, NEW op, NEW v \in Settlement, Settles(c, o, op, v)
      PROVE  NothingForgotten'
  <2>1. /\ \A p \in Order : hash'[p] = IF p = o THEN v ELSE hash[p]
        /\ hash[o] = "active" /\ ledger' = ledger
    BY <1>0, <1>2 DEF Settles, Held
  <2>2. \A p \in Order, w \in Settlement : hash[p] = w => hash'[p] = w
    BY <2>1 DEF Settlement
  <2>3. /\ sold' \subseteq Order /\ returned' \subseteq Order
        /\ \A p \in sold' : p \in sold \/ hash'[p] = "committed"
        /\ \A p \in returned' : p \in returned \/ hash'[p] \in {"released", "expired"}
    BY <1>0, <1>2, <2>1 DEF Settles, Settlement
  <2> QED BY <1>02, <2>1, <2>2, <2>3
<1>3. ASSUME NEW c \in Caller, NEW o \in Order, NEW op, Completes(c, o, op) \/ Looks(c, o, op)
      PROVE  NothingForgotten'
  BY <1>0, <1>02, <1>3 DEF Completes, Looks, story
<1>4. ASSUME NEW c \in Caller, WriteLedger(c) PROVE NothingForgotten'
  BY <1>0, <1>02, <1>4 DEF WriteLedger, redis, history
(* A call forgets what it has written, and nothing else was said.          *)
<1>5. ASSUME NEW c \in Caller, ForgetSettled(c) PROVE NothingForgotten'
  <2> DEFINE o == call[c].order
             v == call[c].verdict
  <2>1. o \in Order /\ v \in Settlement /\ <<o, EntryKind[v]>> \in ledger
    BY <1>0, <1>5, CallShape DEF ForgetSettled, CallsInOrder, TypeOK, CallTypeOK
  <2>2. UNCHANGED <<ledger, sold, returned>> /\ \A p \in Order : p # o => hash'[p] = hash[p]
    BY <1>0, <1>5 DEF ForgetSettled, mongo, history
  <2>3. \A w \in Settlement : hash[o] = w => w = v
    BY <1>0, <2>1 DEF OneVerdict, Says
  <2> QED BY <1>0, <1>02, <2>1, <2>2, <2>3
<1>6. ASSUME NEW w \in Worker, LookUpLedger(w) PROVE NothingForgotten'
  BY <1>0, <1>02, <1>6 DEF LookUpLedger, redis, mongo, history
<1>7. CASE Quiet
  BY <1>0, <1>02, <1>7 DEF Quiet
<1>8. CASE Tick
  <2>1. now' # now /\ UNCHANGED <<ledger, sold, returned>>
    BY <1>8 DEF Tick, mongo, history, TypeOK, RedisTypeOK
  <2>2. TraceIsBooked
    BY <2>1 DEF vars
  <2> QED BY <1>0, <1>02, <2>1, <2>2 DEF TraceIsBooked
<1> QED BY <1>1, <1>2, <1>3, <1>4, <1>5, <1>6, <1>7, <1>8, KindsOfStep DEF StoryInv, VerdictInv

LEMMA AnswersHoldStep ==
  MaxReserves <= 1 /\ TypeOK /\ StoryInv /\ [Next]_vars => AnswersHold'
<1> SUFFICES ASSUME MaxReserves <= 1, TypeOK, StoryInv, [Next]_vars PROVE AnswersHold'
  OBVIOUS
<1>0. /\ OncePerOrder /\ OneVerdict /\ CallsInOrder /\ NothingForgotten /\ AnswersHold
      /\ hash \in [Order -> HashState] /\ reserves \in [Order -> Nat]
      /\ sold \subseteq Order /\ returned \subseteq Order
  BY DEF StoryInv, VerdictInv, TypeOK, RedisTypeOK, HistoryTypeOK
(* A denied order stays denied: it has been reserved, and is not active.   *)
<1>01. ASSUME answers' = answers, sold \subseteq sold', returned \subseteq returned',
              \A o \in Order : reserves[o] > 0 => reserves'[o] > 0,
              \A o \in Order : hash'[o] = "active" => hash[o] = "active" \/ reserves[o] = 0,
              \A o \in sold' : o \in sold \/ hash[o] = "active"
       PROVE  AnswersHold'
  <2>1. ASSUME NEW o \in Order, <<o, "unsold">> \in answers
        PROVE  o \notin sold' /\ reserves'[o] > 0 /\ hash'[o] # "active"
    <3>1. AnswersHold
      BY <1>0
    <3>2. o \notin sold /\ reserves[o] > 0 /\ hash[o] # "active"
      BY <2>1, <3>1 DEF AnswersHold
    <3>3. reserves[o] # 0
      BY <1>0, <3>2
    <3> QED BY <1>01, <3>2, <3>3
  <2> QED BY <1>0, <1>01, <2>1 DEF AnswersHold
<1>02. ASSUME UNCHANGED <<sold, returned, reserves>>, NEW o \in Order,
              \A p \in Order : hash'[p] = "active" => hash[p] = "active",
              \/ answers' = answers
              \/ answers' = answers \cup {<<o, "sold">>} /\ o \in sold
              \/ answers' = answers \cup {<<o, "returned">>} /\ o \in returned
              \/ /\ answers' = answers \cup {<<o, "unsold">>}
                 /\ o \notin sold /\ reserves[o] > 0 /\ hash[o] # "active"
       PROVE  AnswersHold'
  <2>1. ASSUME NEW p \in Order
        PROVE  /\ <<p, "sold">> \in answers' => <<p, "sold">> \in answers \/ p \in sold
               /\ <<p, "returned">> \in answers' => <<p, "returned">> \in answers \/ p \in returned
               /\ <<p, "unsold">> \in answers' =>
                    <<p, "unsold">> \in answers \/ (p \notin sold /\ reserves[p] > 0 /\ hash[p] # "active")
    BY <1>02
  <2>2. ASSUME NEW p \in Order
        PROVE  /\ <<p, "sold">> \in answers' => p \in sold
               /\ <<p, "returned">> \in answers' => p \in returned
               /\ <<p, "unsold">> \in answers' => p \notin sold /\ reserves[p] > 0 /\ hash[p] # "active"
    BY <1>0, <2>1 DEF AnswersHold
  <2> QED BY <1>02, <2>2 DEF AnswersHold
<1>1. ASSUME NEW o \in Order, Opens(o) PROVE AnswersHold'
  <2>1. /\ UNCHANGED <<answers, sold, returned>> /\ reserves[o] = 0
        /\ \A p \in Order : p # o => hash'[p] = hash[p] /\ reserves'[p] = reserves[p]
    BY <1>0, <1>1 DEF Opens
  <2> QED BY <1>01, <2>1
<1>2. ASSUME NEW o \in Order, Denies(o) PROVE AnswersHold'
  <2>1. o \in returned /\ o \notin sold
    BY <1>0, <1>2 DEF Denies, OneVerdict, OncePerOrder, Says, Settlement
  <2> QED BY <1>02, <1>2, <2>1 DEF Denies
<1>3. ASSUME NEW c \in Caller, NEW o \in Order, NEW op, NEW v \in Settlement, Settles(c, o, op, v)
      PROVE  AnswersHold'
  <2>1. \A p \in Order : hash'[p] = IF p = o THEN v ELSE hash[p]
    BY <1>0, <1>3 DEF Settles
  <2>2. /\ answers' = answers /\ reserves' = reserves /\ hash[o] = "active"
        /\ sold \subseteq sold' /\ returned \subseteq returned' /\ sold' \subseteq sold \cup {o}
    BY <1>3 DEF Settles, Held
  <2> QED BY <1>01, <2>1, <2>2 DEF Settlement
<1>4. ASSUME NEW c \in Caller, NEW o \in Order, NEW op, Completes(c, o, op) \/ Looks(c, o, op)
      PROVE  AnswersHold'
  BY <1>01, <1>4 DEF Completes, Looks, story
<1>5. ASSUME NEW c \in Caller, WriteLedger(c) PROVE AnswersHold'
  BY <1>01, <1>5 DEF WriteLedger, redis, history, bounded
<1>6. ASSUME NEW c \in Caller, ForgetSettled(c) PROVE AnswersHold'
  <2> DEFINE o == call[c].order
             v == call[c].verdict
  <2>1. o \in Order /\ v \in Settlement /\ Says(o, v)
    BY <1>6, CallShape DEF ForgetSettled, TypeOK, CallTypeOK, Says, CallSays
  <2>2. (v = "committed" => o \in sold) /\ (v # "committed" => o \in returned)
    BY <1>0, <2>1 DEF OneVerdict
  <2>3. (call[c].op = "commit" => v = "committed") /\ (call[c].op = "release" => v # "committed")
    BY <1>0, <1>6 DEF ForgetSettled, CallsInOrder
  <2>4. UNCHANGED <<sold, returned, reserves>> /\ \A p \in Order : hash'[p] = "active" => hash[p] = "active"
    BY <1>0, <1>6 DEF ForgetSettled, history, bounded
  <2>5. \/ answers' = answers
        \/ answers' = answers \cup {<<o, "sold">>} /\ call[c].op = "commit"
        \/ answers' = answers \cup {<<o, "returned">>} /\ call[c].op = "release"
    BY <1>6 DEF ForgetSettled, Answer
  <2> QED BY <1>02, <2>1, <2>2, <2>3, <2>4, <2>5
(* Redis knows nothing of the order any more: what happened is booked.     *)
<1>7. ASSUME NEW w \in Worker, LookUpLedger(w) PROVE AnswersHold'
  <2> DEFINE o == call[w].order
             op == call[w].op
             found == {k \in {"release", "expire", "commit"} : <<o, k>> \in ledger}
  <2>1. o \in Order /\ op \in {"release", "commit"}
    BY <1>7 DEF LookUpLedger, TypeOK, CallTypeOK, Caller, CallState, Idle
  <2>2. UNCHANGED <<hash, sold, returned, reserves>>
    BY <1>7 DEF LookUpLedger, redis, history, bounded
  <2>3. /\ "commit" \in found => o \in sold
        /\ {"release", "expire"} \cap found # {} => o \in returned
    BY <1>0, <2>1 DEF OneVerdict, Says, EntryKind, Settlement
  <2>4. op = "commit" => reserves[o] > 0 /\ hash[o] = "none"
    BY <1>0, <1>7 DEF LookUpLedger, CallsInOrder, Caller
  <2>5. op = "commit" /\ o \in sold => "commit" \in found /\ {"release", "expire"} \cap found = {}
    <3>1. hash[o] = "none" /\ o \in sold => o \in Booked("commit")
      BY <1>0 DEF NothingForgotten
    <3>2. o \in sold => o \notin returned
      BY <1>0, <2>1 DEF OncePerOrder
    <3> QED BY <2>3, <2>4, <3>1, <3>2 DEF Booked
  <2>6. CASE (\E k \in found : Confirms(op, k)) /\ Answer(o, IF op = "commit" THEN "sold" ELSE "returned")
    <3>1. op = "commit" => "commit" \in found
      BY <2>6 DEF Confirms
    <3>2. op # "commit" => {"release", "expire"} \cap found # {}
      BY <2>6 DEF Confirms
    <3> HIDE DEF found
    <3> QED BY <1>02, <2>1, <2>2, <2>3, <2>6, <3>1, <3>2 DEF Answer
  <2>7. CASE op = "commit" /\ (found = {} \/ \E k \in found : ~Confirms(op, k)) /\ Answer(o, "unsold")
    <3>1. o \notin sold
      BY <2>5, <2>7 DEF Confirms
    <3> QED BY <1>02, <2>1, <2>2, <2>4, <2>7, <3>1 DEF Answer
  <2>8. CASE UNCHANGED answers
    BY <1>02, <2>1, <2>2, <2>8
  <2> QED BY <1>7, <2>6, <2>7, <2>8 DEF LookUpLedger
<1>8. CASE Quiet
  BY <1>01, <1>8 DEF Quiet
<1>9. CASE Tick
  BY <1>0, <1>01, <1>9 DEF Tick, history, bounded
<1> QED BY <1>1, <1>2, <1>3, <1>4, <1>5, <1>6, <1>7, <1>8, <1>9, KindsOfStep DEF StoryInv, VerdictInv

LEMMA StoryInit == Init => StoryInv
<1> SUFFICES ASSUME Init PROVE StoryInv
  OBVIOUS
<1>1. OncePerOrder /\ ActiveIsIndexed /\ NothingForgotten /\ AnswersHold
  BY DEF Init, OncePerOrder, ActiveIsIndexed, NothingForgotten, AnswersHold
<1>2. OneVerdict /\ CallsInOrder
  BY DEF Init, OneVerdict, Says, CallSays, CallsInOrder, Idle, Settlement
<1> QED BY <1>1, <1>2 DEF StoryInv, VerdictInv

LEMMA StoryAlways ==
  ASSUME MaxReserves <= 1
  PROVE  Spec /\ TracesOutliveCalls => []StoryInv
<1>1. TypeOK /\ StoryInv /\ [Next]_vars /\ [TraceIsBooked]_vars => StoryInv'
  BY OnceStep, IndexStep, OneVerdictStep, CallsInOrderStep, NothingForgottenStep, AnswersHoldStep
  DEF StoryInv, VerdictInv
<1> QED BY StoryInit, <1>1, TypeCorrect, PTL DEF Spec, TracesOutliveCalls

(* ADR-18: when no trace runs out before a call has completed it, and no    *)
(* Reserve comes twice, every settlement is in the ledger or on its way     *)
(* there, and the ledger tells no other one, whichever call dies when.      *)
THEOREM LedgerAgreesWithRedis ==
  ASSUME MaxReserves <= 1
  PROVE  Spec /\ TracesOutliveCalls => []LedgerAgrees
<1>1. TypeOK /\ StoryInv => LedgerAgrees
  <2> SUFFICES ASSUME TypeOK, StoryInv PROVE LedgerAgrees
    OBVIOUS
  <2>1. \A o \in Order : /\ o \in Booked("commit") => Says(o, "committed")
                         /\ o \in Booked("release") => Says(o, "released")
                         /\ o \in Booked("expire") => Says(o, "expired")
    BY DEF Booked, Says, EntryKind
  <2>2. \A kind : Booked(kind) \subseteq Order
    BY DEF Booked
  <2>3. ASSUME NEW o \in Order
        PROVE  /\ o \in Booked("commit") => o \in sold
               /\ o \in Booked("release") \/ o \in Booked("expire") => o \in returned
               /\ ~(o \in Booked("release") /\ o \in Booked("expire"))
    BY <2>1 DEF StoryInv, VerdictInv, OneVerdict, Settlement
  <2>4. LedgerTruthful
    <3>1. Booked("commit") \subseteq Order /\ Booked("release") \subseteq Order /\ Booked("expire") \subseteq Order
      BY <2>2
    <3>2. Booked("commit") \subseteq sold
      BY <2>3, <3>1
    <3>3. Booked("release") \cup Booked("expire") \subseteq returned
      BY <2>3, <3>1
    <3>4. Booked("release") \cap Booked("expire") = {}
      BY <2>3, <3>1
    <3> QED BY <3>2, <3>3, <3>4 DEF LedgerTruthful
  <2> QED BY <2>4 DEF LedgerAgrees, StoryInv
<1> QED BY <1>1, StoryAlways, TypeCorrect, PTL

(* Two callers are never told opposite things of one order, and a caller    *)
(* who was told "unsold", and refunds, is right for ever.                   *)
THEOREM AnswersNeverContradict ==
  ASSUME MaxReserves <= 1
  PROVE  Spec /\ TracesOutliveCalls => []AnswersAgree
<1>1. StoryInv => AnswersAgree
  BY DEF StoryInv, VerdictInv, AnswersHold, AnswersAgree, OncePerOrder
<1> QED BY <1>1, StoryAlways, PTL

-----------------------------------------------------------------------------
(* The time of a reservation is kept.  What a sweep has done to an order   *)
(* reserved once, wherever its settlement stands, it did when the time was *)
(* over; what settles it otherwise has moved its stock before.             *)

Finishing(o) == \E c \in Caller : call[c].step \in {"ledger", "forget"} /\ call[c].order = o
SweptBy(o, c) ==
  call[c].step \in {"ledger", "forget"} /\ call[c].order = o /\ call[c].verdict = "expired"
Swept(o) == \/ hash[o] = "expired" \/ <<o, "expire">> \in ledger
            \/ \E c \in Caller : SweptBy(o, c)
KeptFor(o) ==
  /\ reserves[o] = 0 => hash[o] = "none" /\ ~Finishing(o) /\ ~Swept(o)
  /\ hash[o] = "active" => expiresAt[o] < hashUntil[o]
  /\ reserves[o] = 1 /\ (Settled(o) \/ Finishing(o)) => o \in sold \cup returned
  /\ reserves[o] = 1 /\ ~Due(o) => (Held(o) \/ o \in sold \cup returned) /\ ~Swept(o)
Kept == \A o \in Order : KeptFor(o)

(* An order nothing has touched is kept as before.                         *)
LEMMA KeptUntouched ==
  ASSUME TypeOK, NEW o \in Order, KeptFor(o), now' = now, reserves'[o] = reserves[o],
         hash'[o] = hash[o], hashUntil'[o] = hashUntil[o], expiresAt'[o] = expiresAt[o],
         o \in indexed' <=> o \in indexed,
         (o \in sold \cup returned)' <=> o \in sold \cup returned,
         <<o, "expire">> \in ledger' => Swept(o),
         \A c \in Caller : call'[c].step \in {"ledger", "forget"} /\ call'[c].order = o =>
           Finishing(o) /\ (call'[c].verdict = "expired" => Swept(o))
  PROVE  KeptFor(o)'
<1>1. Finishing(o)' => Finishing(o)
  BY DEF Finishing
<1>2. Swept(o)' => Swept(o)
  BY DEF Swept, SweptBy
<1> QED
  BY <1>1, <1>2 DEF KeptFor, Settled, Held, Due

(* A call that starts on an order whose settlement Redis knows.            *)
LEMMA KeptByCall ==
  ASSUME TypeOK, Kept, NEW o \in Order, NEW r \in CallState,
         \A d \in Caller : call'[d] = call[d] \/ call'[d] = r,
         r.step \in {"ledger", "forget"} =>
           /\ Finishing(r.order) \/ (Settled(r.order) /\ reserves[r.order] # 0)
           /\ r.verdict = "expired" => Swept(r.order),
         now' = now, reserves' = reserves, hash' = hash, hashUntil' = hashUntil,
         expiresAt' = expiresAt, sold' = sold, returned' = returned, ledger' = ledger,
         indexed' = indexed \/ (indexed' = indexed \ {o} /\ hash[o] # "active")
  PROVE  Kept'
<1> SUFFICES ASSUME NEW p \in Order PROVE KeptFor(p)'
  BY DEF Kept
<1>1. KeptFor(p)
  BY DEF Kept
<1>3. Finishing(p)' => Finishing(p) \/ (Settled(p) /\ reserves[p] # 0)
  BY DEF Finishing
<1>4. Swept(p)' => Swept(p)
  BY DEF Swept, SweptBy
<1>5. Held(p)' <=> Held(p)
  BY DEF Held
<1> QED
  BY <1>1, <1>3, <1>4, <1>5 DEF KeptFor, Settled, Due

(* A script that settles a reservation has moved its stock.                *)
LEMMA KeptBySettling ==
  ASSUME TypeOK, Kept, NEW c \in Caller, NEW o \in Order, NEW v \in Settlement,
         NEW op \in {"release", "commit", "sweep"}, Held(o), LeaveTrace(o, v),
         sold \subseteq sold', returned \subseteq returned', o \in sold' \cup returned',
         \A p \in Order : p # o => (p \in sold' \cup returned' <=> p \in sold \cup returned),
         v = "expired" => Due(o),
         call' = [call EXCEPT ![c] = Settling(o, op, v)],
         now' = now, reserves' = reserves, ledger' = ledger
  PROVE  Kept'
<1> SUFFICES ASSUME NEW p \in Order PROVE KeptFor(p)'
  BY DEF Kept
<1>1. KeptFor(p) /\ KeptFor(o)
  BY DEF Kept
<1>2. call' = [d \in Caller |-> IF d = c THEN Settling(o, op, v) ELSE call[d]]
  BY DEF TypeOK, CallTypeOK
<1>3. /\ hash' = [hash EXCEPT ![o] = v] /\ hashUntil' = [hashUntil EXCEPT ![o] = now + TraceTtl]
      /\ indexed' = indexed \ {o} /\ expiresAt' = expiresAt
  BY DEF LeaveTrace
<1>4. CASE p # o
  <2>1. Settling(o, op, v).order = o
    BY DEF Settling
  <2>2. \A d \in Caller : call'[d].step \in {"ledger", "forget"} /\ call'[d].order = p =>
          call'[d] = call[d]
    BY <1>2, <1>4, <2>1
  <2>3. \A d \in Caller : call'[d].step \in {"ledger", "forget"} /\ call'[d].order = p =>
          Finishing(p) /\ (call'[d].verdict = "expired" => Swept(p))
    BY <2>2 DEF Finishing, Swept, SweptBy
  <2> QED
    BY <1>1, <1>3, <1>4, <2>3, KeptUntouched DEF TypeOK, RedisTypeOK, Swept
<1>5. CASE p = o
  <2>1. reserves[o] # 0 /\ reserves'[o] = reserves[o] /\ hash'[o] = v /\ v # "active"
    BY <1>1, <1>3, <1>5 DEF KeptFor, Held, TypeOK, RedisTypeOK, Settlement
  <2>2. Due(o)' <=> Due(o)
    BY <1>3 DEF Due
  <2>3. reserves[o] = 1 /\ ~Due(o) => ~Swept(o)
    BY <1>1, <1>5 DEF KeptFor
  <2>4. Swept(o)' => Swept(o) \/ v = "expired"
    <3>1. \A d \in Caller : SweptBy(o, d)' => SweptBy(o, d) \/ v = "expired"
      BY <1>2 DEF SweptBy, Settling
    <3> QED
      BY <2>1, <3>1 DEF Swept
  <2> QED
    BY <1>5, <2>1, <2>2, <2>3, <2>4 DEF KeptFor
<1> QED
  BY <1>4, <1>5

(* A step that touches no order and ends calls or leaves them.             *)
LEMMA KeptIdle ==
  ASSUME TypeOK, Kept, \A d \in Caller : call'[d] = call[d] \/ call'[d] = Idle,
         now' = now, reserves' = reserves, hash' = hash, hashUntil' = hashUntil,
         expiresAt' = expiresAt, indexed' = indexed, sold' = sold, returned' = returned,
         ledger' = ledger
  PROVE  Kept'
<1> SUFFICES ASSUME NEW p \in Order PROVE KeptFor(p)'
  BY DEF Kept
<1>1. \A d \in Caller : call'[d].step \in {"ledger", "forget"} /\ call'[d].order = p =>
        Finishing(p) /\ (call'[d].verdict = "expired" => Swept(p))
  BY DEF Finishing, Swept, SweptBy, Idle
<1> QED
  BY <1>1, KeptUntouched DEF Kept, Swept

LEMMA KeptStep == TypeOK /\ Kept /\ [Next]_vars => Kept'
<1> SUFFICES ASSUME TypeOK, Kept, [Next]_vars PROVE Kept'
  OBVIOUS
<1>0. /\ \A o \in Order : KeptFor(o)
      /\ \A o \in Order : Settled(o) => reserves[o] # 0
      /\ \A o \in Order : hash[o] = "expired" => Swept(o)
      /\ Worker \subseteq Caller /\ Sweeper \subseteq Caller
  BY DEF Kept, KeptFor, Settled, Settlement, Swept, Caller
<1>a. ASSUME NEW c \in Caller, NEW r, call' = [call EXCEPT ![c] = r]
      PROVE  \A d \in Caller : call'[d] = call[d] \/ call'[d] = r
  BY <1>a DEF TypeOK, CallTypeOK
<1>b. Idle \in CallState /\ Idle.step = "idle"
  BY DEF CallState, Idle
<1>1. ASSUME NEW o \in Order, NEW ttl \in Ttl, Reserve(o, ttl) PROVE Kept'
  <2> SUFFICES ASSUME NEW p \in Order PROVE KeptFor(p)'
    BY DEF Kept
  <2>1. /\ hash' = [hash EXCEPT ![o] = "active"] /\ expiresAt' = [expiresAt EXCEPT ![o] = now + ttl]
        /\ hashUntil' = [hashUntil EXCEPT ![o] = now + ttl + Hold] /\ indexed' = indexed \cup {o}
        /\ reserves' = [reserves EXCEPT ![o] = @ + 1]
        /\ UNCHANGED <<now, ledger, call, sold, returned>>
    BY <1>1 DEF Reserve, mongo, history
  <2>2. CASE p # o
    <3>1. \A d \in Caller : call'[d].step \in {"ledger", "forget"} /\ call'[d].order = p =>
            Finishing(p) /\ (call'[d].verdict = "expired" => Swept(p))
      BY <2>1 DEF Finishing, Swept, SweptBy
    <3> QED
      BY <1>0, <2>1, <2>2, <3>1, KeptUntouched DEF TypeOK, RedisTypeOK, HistoryTypeOK, Swept
  <2>3. CASE p = o
    <3>1. /\ reserves'[o] = reserves[o] + 1 /\ reserves[o] \in Nat /\ hash'[o] = "active"
          /\ expiresAt'[o] = now + ttl /\ hashUntil'[o] = now + ttl + Hold /\ o \in indexed'
          /\ now \in Nat /\ ttl \in Nat /\ Hold \in Nat \ {0}
      BY <2>1, ParameterAssumption DEF TypeOK, RedisTypeOK, HistoryTypeOK
    <3>2. (Finishing(o)' <=> Finishing(o)) /\ (Swept(o)' => Swept(o))
      BY <2>1, <3>1 DEF Finishing, Swept, SweptBy
    <3>3. ~Settled(o)' /\ Held(o)'
      BY <3>1 DEF Settled, Held, Settlement
    <3> QED
      BY <1>0, <2>3, <3>1, <3>2, <3>3 DEF KeptFor
  <2> QED
    BY <2>2, <2>3
<1>2. ASSUME NEW o \in Order, Extend(o) \/ Shorten(o) PROVE Kept'
  <2> SUFFICES ASSUME NEW p \in Order PROVE KeptFor(p)'
    BY DEF Kept
  <2>1. PICK until \in Nat :
          /\ expiresAt' = [expiresAt EXCEPT ![o] = until]
          /\ hashUntil' = [hashUntil EXCEPT ![o] = until + Hold]
    <3>0. now + MaxRemaining \in Nat /\ expiresAt[o] + ExtendBy \in Nat
      BY Durations DEF TypeOK, RedisTypeOK
    <3>1. CASE Extend(o)
      <4>1. expiresAt' = [expiresAt EXCEPT ![o] = expiresAt[o] + ExtendBy]
        BY <3>1 DEF Extend
      <4>2. hashUntil' = [hashUntil EXCEPT ![o] = expiresAt[o] + ExtendBy + Hold]
        BY <3>1 DEF Extend
      <4> QED
        BY ONLY <3>0, <4>1, <4>2
    <3>2. CASE Shorten(o)
      <4>1. /\ expiresAt' = [expiresAt EXCEPT ![o] = now + MaxRemaining]
            /\ hashUntil' = [hashUntil EXCEPT ![o] = now + MaxRemaining + Hold]
        BY <3>2 DEF Shorten
      <4> QED
        BY ONLY <3>0, <4>1
    <3> QED
      BY <1>2, <3>1, <3>2
  <2>2. /\ Held(o) /\ ~Due(o)
        /\ UNCHANGED <<now, hash, indexed, ledger, call, sold, returned, reserves>>
    BY <1>2 DEF Extend, Shorten, mongo, history, bounded
  <2>3. (Finishing(p)' <=> Finishing(p)) /\ (Swept(p)' <=> Swept(p)) /\ (Held(p)' <=> Held(p))
        /\ (Settled(p)' <=> Settled(p))
    BY <2>2 DEF Finishing, Swept, SweptBy, Held, Settled
  <2>4. CASE p # o
    <3>1. Due(p)' <=> Due(p)
      BY <2>1, <2>2, <2>4 DEF Due, TypeOK, RedisTypeOK
    <3> QED
      BY <1>0, <2>1, <2>2, <2>3, <2>4, <3>1 DEF KeptFor, TypeOK, RedisTypeOK
  <2>5. CASE p = o
    <3>1. expiresAt'[o] = until /\ hashUntil'[o] = until + Hold /\ Hold \in Nat \ {0}
      BY <2>1, ParameterAssumption DEF TypeOK, RedisTypeOK
    <3> QED
      BY <1>0, <2>2, <2>3, <2>5, <3>1 DEF KeptFor
  <2> QED
    BY <2>4, <2>5
<1>3. ASSUME NEW w \in Worker, NEW o \in Order, Release(w, o) PROVE Kept'
  <2>1. CASE Held(o) /\ ReturnStock(o, "released")
             /\ call' = [call EXCEPT ![w] = Settling(o, "release", "released")]
    BY <1>0, <1>3, <2>1, KeptBySettling DEF Release, ReturnStock, Settlement, mongo, bounded
  <2>2. CASE /\ hash[o] \in {"released", "expired"}
             /\ call' = [call EXCEPT ![w] = Settling(o, "release", hash[o])]
             /\ UNCHANGED <<redis, history>>
    <3>1. Settling(o, "release", hash[o]) \in CallState
      BY <2>2, CallStarts DEF Settlement
    <3>2. Settled(o)
      BY <2>2 DEF Settled, Settlement
    <3>3. /\ Settling(o, "release", hash[o]).order = o
          /\ Settling(o, "release", hash[o]).verdict = hash[o]
      BY DEF Settling
    <3> QED
      BY <1>0, <1>3, <1>a, <2>2, <3>1, <3>2, <3>3, KeptByCall
      DEF Release, mongo, bounded, redis, history
  <2>3. CASE /\ \/ Absent(o) /\ UNCHANGED <<redis, history>>
                \/ Orphaned(o) /\ DropOrphan(o)
             /\ call' = [call EXCEPT ![w] = Looking(o, "release")]
    <3>1. Looking(o, "release") \in CallState /\ Looking(o, "release").step = "lookup"
      BY CallStarts DEF Looking
    <3>2. /\ UNCHANGED <<hash, hashUntil, expiresAt, sold, returned>>
          /\ (indexed' = indexed \/ (indexed' = indexed \ {o} /\ hash[o] # "active"))
      BY <2>3 DEF Orphaned, DropOrphan, redis, history
    <3> QED
      BY <1>0, <1>3, <1>a, <2>3, <3>1, <3>2, KeptByCall DEF Release, mongo, bounded
  <2> QED
    BY <1>3, <2>1, <2>2, <2>3 DEF Release
<1>4. ASSUME NEW w \in Worker, NEW o \in Order, Commit(w, o) PROVE Kept'
  <2>1. CASE Held(o) /\ TakeStock(o)
             /\ call' = [call EXCEPT ![w] = Settling(o, "commit", "committed")]
    BY <1>0, <1>4, <2>1, KeptBySettling DEF Commit, TakeStock, Settlement, mongo, bounded
  <2>2. CASE /\ hash[o] = "committed"
             /\ call' = [call EXCEPT ![w] = Settling(o, "commit", "committed")]
             /\ UNCHANGED <<redis, history>>
    <3>1. Settling(o, "commit", "committed") \in CallState
      BY CallStarts DEF Settlement
    <3>2. Settled(o)
      BY <2>2 DEF Settled, Settlement
    <3>3. /\ Settling(o, "commit", "committed").order = o
          /\ Settling(o, "commit", "committed").verdict = "committed"
      BY DEF Settling
    <3> QED
      BY <1>0, <1>4, <1>a, <2>2, <3>1, <3>2, <3>3, KeptByCall
      DEF Commit, mongo, bounded, redis, history
  <2>3. CASE UNCHANGED <<redis, history, call>>
    BY <1>4, <1>b, <2>3, KeptByCall DEF Commit, redis, history, mongo, bounded
  <2>4. CASE /\ \/ Absent(o) /\ UNCHANGED <<redis, history>>
                \/ Orphaned(o) /\ DropOrphan(o)
             /\ call' = [call EXCEPT ![w] = Looking(o, "commit")]
    <3>1. Looking(o, "commit") \in CallState /\ Looking(o, "commit").step = "lookup"
      BY CallStarts DEF Looking
    <3>2. /\ UNCHANGED <<hash, hashUntil, expiresAt, sold, returned>>
          /\ (indexed' = indexed \/ (indexed' = indexed \ {o} /\ hash[o] # "active"))
      BY <2>4 DEF Orphaned, DropOrphan, redis, history
    <3> QED
      BY <1>0, <1>4, <1>a, <2>4, <3>1, <3>2, KeptByCall DEF Commit, mongo, bounded
  <2> QED
    BY <1>4, <2>1, <2>2, <2>3, <2>4 DEF Commit
<1>5. ASSUME NEW x \in Sweeper, NEW o \in Order, Sweep(x, o) PROVE Kept'
  <2>1. CASE Expirable(o) /\ ReturnStock(o, "expired")
             /\ call' = [call EXCEPT ![x] = Settling(o, "sweep", "expired")]
    BY <1>0, <1>5, <2>1, KeptBySettling
    DEF Sweep, Expirable, ReturnStock, Settlement, mongo, bounded
  <2>2. CASE /\ hash[o] = "expired"
             /\ call' = [call EXCEPT ![x] = Settling(o, "sweep", "expired")]
             /\ UNCHANGED <<redis, history>>
    <3>1. Settling(o, "sweep", "expired") \in CallState
      BY CallStarts DEF Settlement
    <3>2. Settled(o)
      BY <2>2 DEF Settled, Settlement
    <3>3. /\ Settling(o, "sweep", "expired").order = o
          /\ Settling(o, "sweep", "expired").verdict = "expired"
      BY DEF Settling
    <3> QED
      BY <1>0, <1>5, <1>a, <2>2, <3>1, <3>2, <3>3, KeptByCall
      DEF Sweep, mongo, bounded, redis, history
  <2>3. CASE /\ call' = call
             /\ \/ UNCHANGED <<redis, history>>
                \/ Orphaned(o) /\ DropOrphan(o)
    <3>1. /\ UNCHANGED <<hash, hashUntil, expiresAt, sold, returned>>
          /\ (indexed' = indexed \/ (indexed' = indexed \ {o} /\ hash[o] # "active"))
      BY <2>3 DEF Orphaned, DropOrphan, redis, history
    <3> QED
      BY <1>5, <1>b, <2>3, <3>1, KeptByCall DEF Sweep, mongo, bounded
  <2> QED
    BY <1>5, <2>1, <2>2, <2>3 DEF Sweep
<1>6. ASSUME NEW c \in Caller, WriteLedger(c) PROVE Kept'
  <2> SUFFICES ASSUME NEW p \in Order PROVE KeptFor(p)'
    BY DEF Kept
  <2>1. /\ call[c].step = "ledger" /\ call[c].verdict \in Settlement
        /\ ledger' = ledger \cup {<<call[c].order, EntryKind[call[c].verdict]>>}
        /\ UNCHANGED <<now, hash, hashUntil, expiresAt, indexed, sold, returned, reserves>>
    BY <1>6, CallShape DEF WriteLedger, redis, history, bounded, TypeOK, CallTypeOK
  <2>2. \A d \in Caller : call'[d] = call[d] \/ (d = c /\ call'[c] = [call[c] EXCEPT !.step = "forget"])
    BY <1>6 DEF WriteLedger, TypeOK, CallTypeOK
  <2>3. /\ [call[c] EXCEPT !.step = "forget"].order = call[c].order
        /\ [call[c] EXCEPT !.step = "forget"].verdict = call[c].verdict
    <3>1. call[c] \in [step : {"ledger", "forget"}, order : Order,
                       op : {"release", "commit", "sweep"}, verdict : Settlement]
      BY <2>1 DEF TypeOK, CallTypeOK, CallState, Idle
    <3> QED
      BY <3>1
  <2>4. \A d \in Caller : call'[d].step \in {"ledger", "forget"} /\ call'[d].order = p =>
          Finishing(p) /\ (call'[d].verdict = "expired" => Swept(p))
    BY <2>1, <2>2, <2>3 DEF Finishing, Swept, SweptBy
  <2>5. <<p, "expire">> \in ledger' => Swept(p)
    <3>1. EntryKind[call[c].verdict] = "expire" => call[c].verdict = "expired"
      BY <2>1 DEF EntryKind, Settlement
    <3> QED
      BY <2>1, <3>1 DEF Swept, SweptBy
  <2> QED
    BY <1>0, <2>1, <2>4, <2>5, KeptUntouched
<1>7. ASSUME NEW c \in Caller, ForgetSettled(c) PROVE Kept'
  <2> SUFFICES ASSUME NEW p \in Order PROVE KeptFor(p)'
    BY DEF Kept
  <2>0. PICK o \in Order : call[c].order = o
    BY <1>7, CallShape DEF ForgetSettled, TypeOK, CallTypeOK
  <2>1. /\ call[c].step = "forget"
        /\ hash' = [hash EXCEPT ![o] = "none"] /\ hashUntil' = [hashUntil EXCEPT ![o] = 0]
        /\ call' = [call EXCEPT ![c] = Idle]
        /\ UNCHANGED <<now, expiresAt, indexed, ledger, sold, returned, reserves>>
    BY <1>7, <2>0 DEF ForgetSettled, mongo, history, bounded
  <2>2. \A d \in Caller : call'[d] = call[d] \/ call'[d] = Idle
    BY <1>a, <2>1
  <2>3. \A d \in Caller : call'[d].step \in {"ledger", "forget"} /\ call'[d].order = p =>
          Finishing(p) /\ (call'[d].verdict = "expired" => Swept(p))
    BY <1>b, <2>2 DEF Finishing, Swept, SweptBy
  <2>4. CASE p # o
    BY <1>0, <2>1, <2>3, <2>4, KeptUntouched DEF TypeOK, RedisTypeOK, Swept
  <2>5. CASE p = o
    <3>1. Finishing(o)
      BY <2>0, <2>1 DEF Finishing
    <3>2. hash'[o] = "none" /\ ~Settled(o)' /\ (Due(o)' <=> Due(o))
      BY <2>1 DEF TypeOK, RedisTypeOK, Settled, Settlement, Due
    <3>3. (Finishing(o)' => Finishing(o)) /\ (Swept(o)' => Swept(o))
      BY <2>1, <2>3, <2>5, <3>2 DEF Finishing, Swept, SweptBy
    <3> QED
      BY <1>0, <2>1, <2>5, <3>1, <3>2, <3>3 DEF KeptFor
  <2> QED
    BY <2>4, <2>5
<1>8. ASSUME NEW c \in Caller, CallFails(c) PROVE Kept'
  BY <1>8, <1>a, <1>b, KeptIdle DEF CallFails, redis, mongo, history
<1>9. ASSUME NEW w \in Worker, LookUpLedger(w) PROVE Kept'
  BY <1>0, <1>9, <1>a, <1>b, KeptIdle DEF LookUpLedger, redis, mongo, history, bounded
<1>10. ASSUME NEW x \in Sweeper, Crash(x) PROVE Kept'
  BY <1>0, <1>10, <1>a, <1>b, KeptIdle DEF Crash, redis, mongo, history
<1>11. ASSUME NEW x \in Sweeper, ListDue(x) PROVE Kept'
  BY <1>11, KeptIdle DEF ListDue, redis, mongo, history, bounded
<1>12. ASSUME UNCHANGED vars PROVE Kept'
  BY <1>12, KeptIdle DEF vars, redis, mongo, history, bounded
<1>13. ASSUME Tick PROVE Kept'
  <2> SUFFICES ASSUME NEW p \in Order PROVE KeptFor(p)'
    BY DEF Kept
  <2>1. /\ now \in Nat /\ now' = now + 1 /\ expiresAt[p] \in Nat /\ hashUntil[p] \in Nat
        /\ hash'[p] = (IF hashUntil[p] <= now + 1 THEN "none" ELSE hash[p])
        /\ hashUntil'[p] = (IF hashUntil[p] <= now + 1 THEN 0 ELSE hashUntil[p])
        /\ UNCHANGED <<expiresAt, indexed, ledger, call, sold, returned, reserves>>
    BY <1>13 DEF Tick, TypeOK, RedisTypeOK, mongo, history, bounded
  <2>2. /\ Due(p) => Due(p)'
        /\ Finishing(p)' => Finishing(p)
        /\ Swept(p)' => Swept(p)
        /\ Settled(p)' => Settled(p)
    BY <2>1 DEF Due, Finishing, Swept, SweptBy, Settled, Settlement
  <2>3. ~Due(p)' /\ Held(p) => Held(p)'
    BY <1>0, <2>1 DEF KeptFor, Due, Held
  <2> QED
    BY <1>0, <2>1, <2>2, <2>3 DEF KeptFor
<1> QED
  BY <1>1, <1>2, <1>3, <1>4, <1>5, <1>6, <1>7, <1>8, <1>9, <1>10, <1>11, <1>12, <1>13 DEF Next

(* No sweep expires a reservation before its time.                         *)
SweptLate == \A o \in Order : hash[o] = "expired" => Due(o)

LEMMA SweptLateStep == TypeOK /\ SweptLate /\ [Next]_vars => SweptLate'
<1> SUFFICES ASSUME TypeOK, SweptLate, [Next]_vars, NEW p \in Order, hash'[p] = "expired"
             PROVE  expiresAt'[p] <= now'
  BY DEF SweptLate, Due
<1>0. /\ now \in Nat /\ expiresAt[p] \in Nat /\ hash \in [Order -> HashState]
      /\ hash[p] = "expired" => expiresAt[p] <= now
  BY DEF TypeOK, RedisTypeOK, SweptLate, Due
<1>1. ASSUME NEW o \in Order, NEW ttl \in Ttl, Reserve(o, ttl) PROVE expiresAt'[p] <= now'
  <2>1. p # o /\ expiresAt'[p] = expiresAt[p] /\ hash'[p] = hash[p] /\ now' = now
    BY <1>1 DEF Reserve, TypeOK, RedisTypeOK
  <2> QED
    BY <1>0, <2>1
<1>2. ASSUME NEW o \in Order, Extend(o) \/ Shorten(o) PROVE expiresAt'[p] <= now'
  <2>1. p # o /\ expiresAt'[p] = expiresAt[p] /\ hash'[p] = hash[p] /\ now' = now
    BY <1>2 DEF Extend, Shorten, Held, TypeOK, RedisTypeOK
  <2> QED
    BY <1>0, <2>1
<1>3. ASSUME NEW w \in Worker, NEW o \in Order, Release(w, o) \/ Commit(w, o)
      PROVE  expiresAt'[p] <= now'
  <2>1. expiresAt' = expiresAt /\ now' = now
    BY <1>3 DEF Release, Commit, ReturnStock, TakeStock, LeaveTrace, DropOrphan, redis
  <2>2. hash'[p] = "expired" => hash[p] = "expired"
    BY <1>0, <1>3 DEF Release, Commit, ReturnStock, TakeStock, LeaveTrace, DropOrphan, redis
  <2> QED
    BY <1>0, <2>1, <2>2
<1>4. ASSUME NEW x \in Sweeper, NEW o \in Order, Sweep(x, o) PROVE expiresAt'[p] <= now'
  <2>1. expiresAt' = expiresAt /\ now' = now
    BY <1>4 DEF Sweep, ReturnStock, LeaveTrace, DropOrphan, redis
  <2>2. hash'[p] = hash[p] \/ (p = o /\ Due(o))
    BY <1>0, <1>4 DEF Sweep, Expirable, ReturnStock, LeaveTrace, DropOrphan, redis
  <2> QED
    BY <1>0, <2>1, <2>2 DEF Due
<1>5. ASSUME NEW c \in Caller, WriteLedger(c) \/ ForgetSettled(c) \/ CallFails(c)
      PROVE  expiresAt'[p] <= now'
  <2>1. expiresAt' = expiresAt /\ now' = now
    BY <1>5 DEF WriteLedger, ForgetSettled, CallFails, redis
  <2>2. hash'[p] = "expired" => hash[p] = "expired"
    BY <1>0, <1>5 DEF WriteLedger, ForgetSettled, CallFails, redis
  <2> QED
    BY <1>0, <2>1, <2>2
<1>6. ASSUME \/ \E w \in Worker : LookUpLedger(w)
             \/ \E x \in Sweeper : Crash(x) \/ ListDue(x)
             \/ UNCHANGED vars
      PROVE  expiresAt'[p] <= now'
  BY <1>0, <1>6 DEF LookUpLedger, Crash, ListDue, vars, redis
<1>7. ASSUME Tick PROVE expiresAt'[p] <= now'
  <2>1. expiresAt' = expiresAt /\ now' = now + 1 /\ (hash'[p] = "expired" => hash[p] = "expired")
    BY <1>7 DEF Tick
  <2> QED
    BY <1>0, <2>1
<1> QED
  BY <1>1, <1>2, <1>3, <1>4, <1>5, <1>6, <1>7 DEF Next, Caller

(* What a caller was promised is kept: no sweep with an older list expires *)
(* an order before the time that was answered last, and until then only a  *)
(* Release or a Commit moves the stock of one that is reserved once,       *)
(* whatever is retried, fails or dies.                                     *)
THEOREM TimeIsKept == Spec => []KeptUntilDue
<1>1. Init => Kept /\ SweptLate
  BY DEF Init, Kept, KeptFor, SweptLate, Finishing, Swept, SweptBy, Settled, Settlement, Idle
<1>2. Kept /\ SweptLate => KeptUntilDue
  BY DEF Kept, KeptFor, SweptLate, KeptUntilDue, Swept
<1> QED
  BY <1>1, <1>2, KeptStep, SweptLateStep, TypeCorrect, PTL DEF Spec

-----------------------------------------------------------------------------
(* Nothing leaks.                                                          *)

Balanced(s) == counter[s] + Total(ActiveOrders, s) + Total(Unbooked, s) = onHand[s]

LEMMA ConservedIsBalance ==
  /\ StockConserved <=> \A s \in Sku : Balanced(s)
  /\ StockConserved' <=>
       \A s \in Sku : counter'[s] + Total(ActiveOrders', s) + Total(Unbooked', s) = onHand'[s]
  BY DEF StockConserved, Balanced, Total, Units

LEMMA Numbers ==
  ASSUME TypeOK, NEW s \in Sku
  PROVE  /\ counter[s] \in Int /\ onHand[s] \in Int
         /\ Total(ActiveOrders, s) \in Nat /\ Total(Unbooked, s) \in Nat
         /\ \A o \in Order : Qty[o][s] \in Nat
  BY UnitsFinite, SetsOfOrders, Lines DEF TypeOK, RedisTypeOK, MongoTypeOK

LEMMA BalanceUntouched ==
  ASSUME StockConserved, UNCHANGED <<counter, onHand, ledger, sold>>, ActiveOrders' = ActiveOrders
  PROVE  StockConserved'
<1>1. Unbooked' = Unbooked
  BY DEF Unbooked, Booked
<1> QED BY <1>1, ConservedIsBalance DEF Balanced

LEMMA BalanceAfterReserve ==
  ASSUME TypeOK, StockConserved, NEW o \in Order, NEW ttl \in Ttl, Reserve(o, ttl)
  PROVE  StockConserved'
<1>1. ASSUME NEW s \in Sku
      PROVE  counter'[s] + Total(ActiveOrders', s) + Total(Unbooked', s) = onHand'[s]
  <2>1. Unbooked' = Unbooked /\ onHand' = onHand
    BY DEF Unbooked, Booked, Reserve, mongo, history
  <2>2. o \notin ActiveOrders /\ ActiveOrders' = ActiveOrders \cup {o}
    BY DEF ActiveOrders, Reserve, TypeOK, RedisTypeOK
  <2>3. Total(ActiveOrders', s) = Total(ActiveOrders, s) + Qty[o][s]
    BY <2>2, TotalAdd, SetsOfOrders
  <2>4. counter'[s] = counter[s] - Qty[o][s]
    BY DEF Reserve
  <2>5. Balanced(s)
    BY ConservedIsBalance
  <2> QED BY <2>1, <2>3, <2>4, <2>5, Numbers DEF Balanced
<1> QED BY <1>1, ConservedIsBalance

LEMMA BalanceAfterReturn ==
  ASSUME TypeOK, StockConserved, NEW o \in Order, NEW v \in Settlement,
         Held(o), ReturnStock(o, v), UNCHANGED mongo
  PROVE  StockConserved'
<1>1. ASSUME NEW s \in Sku
      PROVE  counter'[s] + Total(ActiveOrders', s) + Total(Unbooked', s) = onHand'[s]
  <2>1. Unbooked' = Unbooked /\ onHand' = onHand
    BY DEF Unbooked, Booked, ReturnStock, mongo
  <2>2. o \in ActiveOrders /\ ActiveOrders' = ActiveOrders \ {o}
    BY HoldEnds DEF ReturnStock
  <2>3. Total(ActiveOrders', s) = Total(ActiveOrders, s) - Qty[o][s]
    BY <2>2, TotalRemove, SetsOfOrders
  <2>4. counter'[s] = counter[s] + Qty[o][s]
    BY DEF ReturnStock
  <2>5. Balanced(s)
    BY ConservedIsBalance
  <2> QED BY <2>1, <2>3, <2>4, <2>5, Numbers DEF Balanced
<1> QED BY <1>1, ConservedIsBalance

(* An active order has not been sold before, nor booked.                   *)
LEMMA BalanceAfterTake ==
  ASSUME TypeOK, VerdictInv, StockConserved, NEW o \in Order, Held(o), TakeStock(o),
         UNCHANGED mongo
  PROVE  StockConserved'
<1>0. o \notin sold /\ o \notin Booked("commit")
  <2>1. o \notin sold
    BY DEF VerdictInv, OncePerOrder, Held
  <2>2. o \in Booked("commit") => Says(o, "committed")
    BY DEF Booked, Says, EntryKind
  <2> QED BY <2>1, <2>2 DEF VerdictInv, OneVerdict, Settlement
<1>1. ASSUME NEW s \in Sku
      PROVE  counter'[s] + Total(ActiveOrders', s) + Total(Unbooked', s) = onHand'[s]
  <2>1. counter' = counter /\ onHand' = onHand
    BY DEF TakeStock, mongo
  <2>2. o \in ActiveOrders /\ ActiveOrders' = ActiveOrders \ {o}
    BY HoldEnds DEF TakeStock, Settlement
  <2>3. Total(ActiveOrders', s) = Total(ActiveOrders, s) - Qty[o][s]
    BY <2>2, TotalRemove, SetsOfOrders
  <2>4. o \notin Unbooked /\ Unbooked' = Unbooked \cup {o}
    BY <1>0 DEF Unbooked, Booked, TakeStock, mongo
  <2>5. Total(Unbooked', s) = Total(Unbooked, s) + Qty[o][s]
    BY <2>4, TotalAdd, SetsOfOrders
  <2>6. Balanced(s)
    BY ConservedIsBalance
  <2> QED BY <2>1, <2>3, <2>5, <2>6, Numbers DEF Balanced
<1> QED BY <1>1, ConservedIsBalance

LEMMA BalanceAfterBooking ==
  ASSUME TypeOK, VerdictInv, StockConserved, NEW c \in Caller, WriteLedger(c)
  PROVE  StockConserved'
<1> DEFINE o == call[c].order
           v == call[c].verdict
<1>0. o \in Order /\ v \in Settlement /\ Says(o, v)
  BY CallShape DEF WriteLedger, TypeOK, CallTypeOK, Says, CallSays
<1>1. ActiveOrders' = ActiveOrders /\ counter' = counter /\ sold' = sold
  BY DEF WriteLedger, redis, history, ActiveOrders
<1>2. CASE v = "committed" /\ <<o, "commit">> \notin ledger
  <2>0. o \in sold
    BY <1>0, <1>2 DEF VerdictInv, OneVerdict
  <2>1. onHand' = [s \in Sku |-> onHand[s] - Qty[o][s]] /\ ledger' = ledger \cup {<<o, "commit">>}
    BY <1>2 DEF WriteLedger, LoweredOnHand, EntryKind
  <2>2. o \in Unbooked /\ Unbooked' = Unbooked \ {o}
    BY <1>0, <1>1, <1>2, <2>0, <2>1 DEF Unbooked, Booked
  <2>3. ASSUME NEW s \in Sku
        PROVE  counter'[s] + Total(ActiveOrders', s) + Total(Unbooked', s) = onHand'[s]
    <3>1. Total(Unbooked', s) = Total(Unbooked, s) - Qty[o][s]
      BY <2>2, TotalRemove, SetsOfOrders
    <3>2. onHand'[s] = onHand[s] - Qty[o][s]
      BY <2>1
    <3>3. Balanced(s) /\ Qty[o][s] \in Nat
      BY <1>0, ConservedIsBalance, Numbers
    <3> HIDE DEF o
    <3> QED BY <1>1, <3>1, <3>2, <3>3, Numbers DEF Balanced
  <2> QED BY <2>3, ConservedIsBalance
<1>3. CASE ~(v = "committed" /\ <<o, "commit">> \notin ledger)
  <2>1. onHand' = onHand
    BY <1>3 DEF WriteLedger, LoweredOnHand
  <2>2. Booked("commit")' = Booked("commit")
    BY <1>0, <1>3 DEF Booked, WriteLedger, EntryKind, Settlement
  <2>3. Unbooked' = Unbooked
    BY <1>1, <2>2 DEF Unbooked
  <2> QED BY <1>1, <2>1, <2>3, ConservedIsBalance DEF Balanced
<1> QED BY <1>2, <1>3

LEMMA ConservedStep ==
  ASSUME PromptSweeper, TypeOK, VerdictInv, StockConserved, [Next]_vars
  PROVE  StockConserved'
<1>1. ASSUME NEW o \in Order, NEW ttl \in Ttl, Reserve(o, ttl) PROVE StockConserved'
  BY <1>1, BalanceAfterReserve
<1>2. ASSUME UNCHANGED <<counter, hash, onHand, ledger, sold>> PROVE StockConserved'
  BY <1>2, BalanceUntouched DEF ActiveOrders
<1>3. ASSUME NEW w \in Worker, NEW o \in Order, Release(w, o) PROVE StockConserved'
  <2>1. CASE Held(o) /\ ReturnStock(o, "released")
    BY <1>3, <2>1, BalanceAfterReturn DEF Release, Settlement
  <2> QED BY <1>2, <1>3, <2>1 DEF Release, DropOrphan, redis, mongo, history
<1>4. ASSUME NEW w \in Worker, NEW o \in Order, Commit(w, o) PROVE StockConserved'
  <2>1. CASE Held(o) /\ TakeStock(o)
    BY <1>4, <2>1, BalanceAfterTake DEF Commit
  <2> QED BY <1>2, <1>4, <2>1 DEF Commit, DropOrphan, redis, mongo, history
<1>5. ASSUME NEW x \in Sweeper, NEW o \in Order, Sweep(x, o) PROVE StockConserved'
  <2>1. CASE Held(o) /\ ReturnStock(o, "expired")
    BY <1>5, <2>1, BalanceAfterReturn DEF Sweep, Settlement
  <2> QED BY <1>2, <1>5, <2>1 DEF Sweep, Expirable, DropOrphan, redis, mongo, history
<1>6. ASSUME NEW c \in Caller, WriteLedger(c) PROVE StockConserved'
  BY <1>6, BalanceAfterBooking
(* The trace that is deleted is not an active hash.                        *)
<1>7. ASSUME NEW c \in Caller, ForgetSettled(c) PROVE StockConserved'
  <2> DEFINE o == call[c].order
  <2>1. o \in Order /\ \E v \in Settlement : Says(o, v)
    BY <1>7, CallShape DEF ForgetSettled, TypeOK, CallTypeOK, Says, CallSays
  <2>2. hash[o] # "active"
    BY <2>1 DEF VerdictInv, OneVerdict, OncePerOrder
  <2>3. ActiveOrders' = ActiveOrders
    BY <1>7, <2>1, <2>2 DEF ForgetSettled, ActiveOrders, TypeOK, RedisTypeOK
  <2> QED BY <1>7, <2>3, BalanceUntouched DEF ForgetSettled, mongo, history
(* The sweeper comes before Redis drops an active hash.                    *)
<1>8. CASE Tick
  <2>1. \A o \in Order : hash[o] = "active" => ~(hashUntil[o] <= now + 1)
    BY <1>8 DEF Tick, VerdictInv, ActiveIsIndexed, TypeOK, RedisTypeOK
  <2>2. ActiveOrders' = ActiveOrders
    BY <1>8, <2>1 DEF Tick, ActiveOrders
  <2> QED BY <1>8, <2>2, BalanceUntouched DEF Tick, mongo, history
<1> QED
  BY <1>1, <1>2, <1>3, <1>4, <1>5, <1>6, <1>7, <1>8
  DEF Next, vars, redis, mongo, history, Extend, Shorten, ListDue, CallFails, LookUpLedger, Crash

(* As long as the sweeper comes before Redis drops a reservation, and no    *)
(* Reserve comes twice, every unit is open for sale, locked, or sold: no    *)
(* retry, race, crash or failed call of release, commit and sweep loses one.*)
THEOREM NothingLeaks ==
  ASSUME MaxReserves <= 1, PromptSweeper
  PROVE  Spec => []StockConserved
<1>1. Init => VerdictInv /\ StockConserved
  <2> SUFFICES ASSUME Init, NEW s \in Sku PROVE Balanced(s)
    BY StoryInit, ConservedIsBalance DEF StoryInv
  <2>1. ActiveOrders = {} /\ Unbooked = {}
    BY DEF Init, ActiveOrders, Unbooked
  <2>2. Units({}, s) = {} /\ Cardinality({}) = 0
    BY FS_EmptySet DEF Units
  <2>3. counter[s] = onHand[s] /\ counter[s] \in Nat
    BY Lines DEF Init
  <2> QED BY <2>1, <2>2, <2>3 DEF Balanced, Total
<1>2. TypeOK /\ VerdictInv /\ StockConserved /\ [Next]_vars => VerdictInv' /\ StockConserved'
  BY OnceStep, IndexStep, OneVerdictStep, CallsInOrderStep, ConservedStep DEF VerdictInv
<1> QED BY <1>1, <1>2, TypeCorrect, PTL DEF Spec
=============================================================================
