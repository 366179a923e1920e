-------------------------- MODULE StockReservation --------------------------
(***************************************************************************)
(* inventory-service: the life of a stock reservation of one market.       *)
(*                                                                         *)
(* Redis holds the sale counters, one hash per order (`resv:{m}:{order}`), *)
(* the expiry index (`resv:index:{m}`, a sorted set) and one lock per user *)
(* (`resv:user:{u}`).  Every Lua script is one atomic step.  MongoDB holds *)
(* the stock on hand and the append-only stock ledger.  A settlement       *)
(* (release, commit, expiry) is three steps with other calls in between:   *)
(* take ownership in Redis and leave a trace, write Mongo, delete the      *)
(* trace (ADR-18).                                                         *)
(*                                                                         *)
(* Abstractions: the lines of an order are fixed (quantity `qty`), so the  *)
(* pre-read of a script can only be out of date when the order was         *)
(* reserved or forgotten in between; the script then answers `stale`,      *)
(* writes nothing and is retried or refused: no step of its own.  Every    *)
(* sku has its counter (losing Redis is not in this module).  The ledger   *)
(* entries of an order and kind are one element, and the best-effort       *)
(* entries of kind `extend` (delta 0, read by nobody) are left out.        *)
(***************************************************************************)
EXTENDS Integers, FiniteSets

CONSTANTS
  Order, User, Sku,
  Worker,          \* concurrent Release / Commit calls
  Sweeper,         \* instances whose sweeper runs
  NoOrder,         \* the value of a free user lock
  Owner,           \* Owner[o]: the user of an order
  Qty, MaxQty,     \* Qty[o][s]: the quantity of a line
  Opening,         \* Opening[s]: stock on hand when the counters were seeded
  Ttl,             \* the lock lives a Reserve may ask for
  Hold,            \* RESERVATION_HOLD_AFTER_EXPIRY_MS
  TraceTtl,        \* SETTLED_RESERVATION_TTL_MS
  ExtendBy, MaxExtensions, MaxRemaining,
  BatchSize,       \* members one sweep reads from the index
  PromptSweeper,   \* TRUE: time does not outrun the sweeper by Hold
  MaxTime, LastReserve,                  \* bounds of the model: the clock, the
  MaxReserves, MaxFailures, MaxCrashes   \* time of a Reserve, how often things happen

Caller == Worker \cup Sweeper
Settlement == {"released", "expired", "committed"}
HashState == {"none", "active"} \cup Settlement

EntryKind == [released |-> "release", expired |-> "expire", committed |-> "commit"]

ASSUME ParameterAssumption ==
  /\ Worker \cap Sweeper = {}
  /\ NoOrder \notin Order
  /\ Owner \in [Order -> User]
  /\ MaxQty \in Nat
  /\ Qty \in [Order -> [Sku -> 0..MaxQty]]
  /\ Opening \in [Sku -> Nat]
  /\ Ttl \subseteq Nat \ {0}
  /\ Hold \in Nat \ {0}
  /\ TraceTtl \in Nat \ {0}
  /\ ExtendBy \in Nat
  /\ MaxExtensions \in Nat
  /\ MaxRemaining \in Nat
  /\ BatchSize \in Nat \ {0}
  /\ PromptSweeper \in BOOLEAN
  /\ {MaxTime, LastReserve, MaxReserves, MaxFailures, MaxCrashes} \subseteq Nat

ASSUME OrderFinite == IsFiniteSet(Order)

VARIABLES
  now,        \* the clock (coarse units)
  counter,    \* counter[s]: stock open for sale
  hash,       \* hash[o]: no hash, an active reservation, or a settled trace
  expiresAt,  \* expiresAt[o]: field of the hash and score in the index
  extended,   \* extended[o]: extensions used
  hashUntil,  \* hashUntil[o]: when Redis drops the hash
  indexed,    \* members of the expiry index
  userLock, lockUntil,
  onHand,     \* onHand[s]: Mongo
  ledger,     \* <<o, kind>> entries in Mongo
  call,       \* call[w]: where an in-flight settlement stands
  listed,     \* listed[x]: due orders a sweeper read and has not come to
  pending,    \* pending[x]: expiries a sweeper still has to complete
  sold,       \* history: orders whose stock commit.lua took
  returned,   \* history: orders whose stock release.lua gave back
  answers,    \* history: <<o, verdict>> told to the caller
  reserves, failures, crashes   \* how often the bounded events happened

redis == <<counter, hash, expiresAt, extended, hashUntil, indexed, userLock, lockUntil>>
mongo == <<onHand, ledger>>
history == <<sold, returned>>
bounded == <<reserves, failures, crashes>>
sweeping == <<listed, pending>>
vars == <<now, redis, mongo, call, sweeping, history, answers, bounded>>

Idle == [step |-> "idle"]

(* Mutant: the trace is deleted without waiting for the ledger.             *)
SettlingWithoutLedger(o, op, verdict) ==
  [step |-> "forget", order |-> o, op |-> op, verdict |-> verdict]

(* A settlement that Redis has decided is written to the ledger next.       *)
Settling(o, op, verdict) == [step |-> "ledger", order |-> o, op |-> op, verdict |-> verdict]
Looking(o, op) == [step |-> "lookup", order |-> o, op |-> op]
CallState ==
  {Idle}
  \cup [step : {"ledger", "forget"}, order : Order, op : {"release", "commit", "sweep"},
        verdict : Settlement]
  \cup [step : {"lookup"}, order : Order, op : {"release", "commit"}]

Init ==
  /\ now = 0
  /\ counter = Opening /\ onHand = Opening
  /\ hash = [o \in Order |-> "none"]
  /\ expiresAt = [o \in Order |-> 0]
  /\ extended = [o \in Order |-> 0]
  /\ hashUntil = [o \in Order |-> 0]
  /\ indexed = {}
  /\ userLock = [u \in User |-> NoOrder]
  /\ lockUntil = [u \in User |-> 0]
  /\ ledger = {}
  /\ call = [c \in Caller |-> Idle]
  /\ listed = [x \in Sweeper |-> {}]
  /\ pending = [x \in Sweeper |-> {}]
  /\ sold = {} /\ returned = {} /\ answers = {}
  /\ reserves = [o \in Order |-> 0]
  /\ failures = 0 /\ crashes = 0

-----------------------------------------------------------------------------
(* What the scripts see.                                                   *)

Settled(o) == hash[o] \in Settlement
Due(o) == expiresAt[o] <= now

(* Mutant: a hash is taken for an active reservation, ownership unchecked.  *)
HeldByHash(o) == hash[o] # "none"
Held(o) == o \in indexed /\ hash[o] = "active"
Orphaned(o) == o \in indexed /\ hash[o] = "none"
Absent(o) == o \notin indexed /\ ~Settled(o)

(* Mutant: the sweeper trusts the list it read.                             *)
ExpirableAsListed(o) == Held(o)
Expirable(o) == Held(o) /\ Due(o)

(* The user lock is moved or deleted only when it is this order's.         *)
FreeLock(o) ==
  /\ userLock' = [u \in User |-> IF userLock[u] = o THEN NoOrder ELSE userLock[u]]
  /\ UNCHANGED lockUntil

(* Mutant: the lock keeps its first life.                                   *)
MoveLockNever(o, until) == UNCHANGED <<userLock, lockUntil>>
MoveLock(o, until) ==
  /\ lockUntil' = [u \in User |-> IF userLock[u] = o THEN until ELSE lockUntil[u]]
  /\ UNCHANGED userLock

(* reserve.lua: every line is checked before one is written.  A refusal    *)
(* (`already`, `user-active`, `insufficient`) writes nothing.              *)
Reserve(o, ttl) ==
  /\ reserves[o] < MaxReserves /\ now <= LastReserve
  /\ hash[o] = "none"
  /\ userLock[Owner[o]] \in {o, NoOrder}
  /\ \A s \in Sku : Qty[o][s] <= counter[s]
  /\ counter' = [s \in Sku |-> counter[s] - Qty[o][s]]
  /\ hash' = [hash EXCEPT ![o] = "active"]
  /\ expiresAt' = [expiresAt EXCEPT ![o] = now + ttl]
  /\ extended' = [extended EXCEPT ![o] = 0]
  /\ hashUntil' = [hashUntil EXCEPT ![o] = now + ttl + Hold]
  /\ indexed' = indexed \cup {o}
  /\ userLock' = [userLock EXCEPT ![Owner[o]] = o]
  /\ lockUntil' = [lockUntil EXCEPT ![Owner[o]] = now + ttl]
  /\ reserves' = [reserves EXCEPT ![o] = @ + 1]
  /\ UNCHANGED <<now, mongo, call, sweeping, history, answers, failures, crashes>>

(* Mutant: the key of the extended reservation keeps its first life.       *)
ExtendWithoutLife(o) ==
  /\ Held(o) /\ ~Due(o)
  /\ extended[o] < MaxExtensions
  /\ expiresAt' = [expiresAt EXCEPT ![o] = @ + ExtendBy]
  /\ extended' = [extended EXCEPT ![o] = @ + 1]
  /\ MoveLock(o, expiresAt[o] + ExtendBy)
  /\ UNCHANGED <<now, counter, hash, hashUntil, indexed, mongo, call, sweeping, history, answers,
                 bounded>>
(* extend.lua (with the caller's expected expiry right; a wrong one writes *)
(* nothing) and shorten.lua.                                               *)
Extend(o) ==
  /\ Held(o) /\ ~Due(o)
  /\ extended[o] < MaxExtensions
  /\ expiresAt' = [expiresAt EXCEPT ![o] = @ + ExtendBy]
  /\ extended' = [extended EXCEPT ![o] = @ + 1]
  /\ hashUntil' = [hashUntil EXCEPT ![o] = expiresAt[o] + ExtendBy + Hold]
  /\ MoveLock(o, expiresAt[o] + ExtendBy)
  /\ UNCHANGED <<now, counter, hash, indexed, mongo, call, sweeping, history, answers, bounded>>

Shorten(o) ==
  /\ Held(o) /\ ~Due(o)
  /\ expiresAt[o] > now + MaxRemaining
  /\ expiresAt' = [expiresAt EXCEPT ![o] = now + MaxRemaining]
  /\ hashUntil' = [hashUntil EXCEPT ![o] = now + MaxRemaining + Hold]
  /\ MoveLock(o, now + MaxRemaining)
  /\ UNCHANGED <<now, counter, hash, extended, indexed, mongo, call, sweeping, history, answers,
                 bounded>>

(* Mutant: the counters move, ownership and state stay as they were.        *)
LeaveTraceNone(o, verdict) ==
  UNCHANGED <<hash, hashUntil, indexed, expiresAt, extended, userLock, lockUntil>>

(* The trace a settling script leaves in the hash.                         *)
LeaveTrace(o, verdict) ==
  /\ hash' = [hash EXCEPT ![o] = verdict]
  /\ hashUntil' = [hashUntil EXCEPT ![o] = now + TraceTtl]
  /\ indexed' = indexed \ {o}
  /\ FreeLock(o)
  /\ UNCHANGED <<expiresAt, extended>>

(* release.lua, the writing part (both modes).                             *)
ReturnStock(o, verdict) ==
  /\ counter' = [s \in Sku |-> counter[s] + Qty[o][s]]
  /\ LeaveTrace(o, verdict)
  /\ returned' = returned \cup {o}
  /\ UNCHANGED sold

(* Mutant: a commit lowers the counters a second time.                      *)
TakeStockTwice(o) ==
  /\ LeaveTrace(o, "committed")
  /\ sold' = sold \cup {o}
  /\ counter' = [s \in Sku |-> counter[s] - Qty[o][s]]
  /\ UNCHANGED returned

(* commit.lua, the writing part: the counters fell when it was reserved.   *)
TakeStock(o) ==
  /\ LeaveTrace(o, "committed")
  /\ sold' = sold \cup {o}
  /\ UNCHANGED <<counter, returned>>

(* An index member without its hash: the quantities are lost.              *)
DropOrphan(o) ==
  /\ indexed' = indexed \ {o}
  /\ UNCHANGED <<counter, hash, expiresAt, extended, hashUntil, userLock, lockUntil, history>>

-----------------------------------------------------------------------------
(* Release and Commit RPCs.  They may come at any time and more than once: *)
(* order-service retries both, cancels, sweeps and compensates.            *)

Answer(o, verdict) == answers' = answers \cup {<<o, verdict>>}

Release(w, o) ==
  /\ call[w] = Idle
  /\ \/ /\ Held(o)
        /\ ReturnStock(o, "released")
        /\ call' = [call EXCEPT ![w] = Settling(o, "release", "released")]
     \/ /\ hash[o] \in {"released", "expired"}
        /\ call' = [call EXCEPT ![w] = Settling(o, "release", hash[o])]
        /\ UNCHANGED <<redis, history>>
     \/ /\ \/ Absent(o) /\ UNCHANGED <<redis, history>>
           \/ Orphaned(o) /\ DropOrphan(o)
        /\ call' = [call EXCEPT ![w] = Looking(o, "release")]
  /\ UNCHANGED <<now, mongo, sweeping, answers, bounded>>

(* Only an order whose Reserve was made is ever committed.  A trace of the *)
(* other outcome answers not-found at once and is left alone.              *)
Commit(w, o) ==
  /\ call[w] = Idle
  /\ reserves[o] > 0
  /\ \/ /\ Held(o)
        /\ TakeStock(o)
        /\ call' = [call EXCEPT ![w] = Settling(o, "commit", "committed")]
        /\ UNCHANGED answers
     \/ /\ hash[o] = "committed"
        /\ call' = [call EXCEPT ![w] = Settling(o, "commit", "committed")]
        /\ UNCHANGED <<redis, history, answers>>
     \/ /\ hash[o] \in {"released", "expired"}
        /\ Answer(o, "unsold")
        /\ UNCHANGED <<redis, history, call>>
     \/ /\ \/ Absent(o) /\ UNCHANGED <<redis, history>>
           \/ Orphaned(o) /\ DropOrphan(o)
        /\ call' = [call EXCEPT ![w] = Looking(o, "commit")]
        /\ UNCHANGED answers
  /\ UNCHANGED <<now, mongo, sweeping, bounded>>

(* The sweeper.  A turn first takes the expiries left over from earlier    *)
(* turns, then the BatchSize oldest due members of the index, one by one;  *)
(* the list may be out of date when an order's turn comes.                 *)
ListDue(x) ==
  LET due == {o \in indexed : Due(o)}
  IN /\ call[x] = Idle /\ listed[x] = {} /\ due # {}
     /\ \E batch \in SUBSET due :
          /\ Cardinality(batch) = IF Cardinality(due) < BatchSize THEN Cardinality(due) ELSE BatchSize
          /\ \A o \in batch, p \in due \ batch : expiresAt[o] <= expiresAt[p]
          /\ listed' = [listed EXCEPT ![x] = batch]
     /\ UNCHANGED <<now, redis, mongo, call, pending, history, answers, bounded>>

(* release.lua in mode `expire` checks everything again.  The trace of     *)
(* another path (release, commit) is that path's to complete.              *)
Sweep(x, o) ==
  /\ call[x] = Idle
  /\ o \in pending[x] \cup listed[x]
  /\ \/ /\ Expirable(o)
        /\ ReturnStock(o, "expired")
        /\ call' = [call EXCEPT ![x] = Settling(o, "sweep", "expired")]
        /\ UNCHANGED pending
     \/ /\ hash[o] = "expired"
        /\ call' = [call EXCEPT ![x] = Settling(o, "sweep", "expired")]
        /\ UNCHANGED <<redis, history, pending>>
     \/ /\ \/ Orphaned(o) /\ Due(o) /\ DropOrphan(o)
           \/ /\ \/ hash[o] \in {"released", "committed"}
                 \/ Absent(o)
                 \/ o \in indexed /\ ~Due(o) /\ ~Settled(o)
              /\ UNCHANGED <<redis, history>>
        /\ pending' = [pending EXCEPT ![x] = @ \ {o}]
        /\ UNCHANGED call
  /\ listed' = [listed EXCEPT ![x] = @ \ {o}]
  /\ UNCHANGED <<now, mongo, answers, bounded>>

-----------------------------------------------------------------------------
(* The rest of a settlement: Mongo, then the trace.                        *)

(* The verdict of an order as a repeated call reads it, and a mutant that   *)
(* takes any settlement for the one asked about.                            *)
ConfirmsAny(op, kind) == TRUE
Confirms(op, kind) == (op = "commit") = (kind = "commit")

(* Mutant: the stock on hand falls even when the entry was already there.   *)
LoweredOnHandAlways(o, verdict) ==
  IF verdict = "committed" THEN [s \in Sku |-> onHand[s] - Qty[o][s]] ELSE onHand
LoweredOnHand(o, verdict) ==
  IF verdict = "committed" /\ <<o, "commit">> \notin ledger
    THEN [s \in Sku |-> onHand[s] - Qty[o][s]]
    ELSE onHand

(* record() upserts the entry; commit() inserts it and lowers the stock on *)
(* hand in one transaction, only when the entry is new.                    *)
WriteLedger(c) ==
  /\ call[c].step = "ledger"
  /\ ledger' = ledger \cup {<<call[c].order, EntryKind[call[c].verdict]>>}
  /\ onHand' = LoweredOnHand(call[c].order, call[c].verdict)
  /\ call' = [call EXCEPT ![c].step = "forget"]
  /\ UNCHANGED <<now, redis, sweeping, history, answers, bounded>>

(* forgetSettled: DEL of the hash, whatever it holds by then.              *)
ForgetSettled(c) ==
  /\ call[c].step = "forget"
  /\ LET o == call[c].order
     IN /\ hash' = [hash EXCEPT ![o] = "none"]
        /\ hashUntil' = [hashUntil EXCEPT ![o] = 0]
        /\ pending' = IF c \in Sweeper THEN [pending EXCEPT ![c] = @ \ {o}] ELSE pending
        /\ CASE call[c].op = "release" -> Answer(o, "returned")
             [] call[c].op = "commit" -> Answer(o, "sold")
             [] OTHER -> UNCHANGED answers
  /\ call' = [call EXCEPT ![c] = Idle]
  /\ UNCHANGED <<now, counter, expiresAt, extended, indexed, userLock, lockUntil, mongo, listed,
                 history, bounded>>

(* settlementOf: any settlement entry of the order, or none.               *)
LookUpLedger(w) ==
  /\ call[w].step = "lookup"
  /\ LET o == call[w].order
         op == call[w].op
         found == {k \in {"release", "expire", "commit"} : <<o, k>> \in ledger}
     IN \/ /\ \E k \in found : Confirms(op, k)
           /\ Answer(o, IF op = "commit" THEN "sold" ELSE "returned")
        \/ /\ op = "commit"
           /\ found = {} \/ \E k \in found : ~Confirms(op, k)
           /\ Answer(o, "unsold")
        \/ /\ op = "release"
           /\ found = {} \/ \E k \in found : ~Confirms(op, k)
           /\ UNCHANGED answers
  /\ call' = [call EXCEPT ![w] = Idle]
  /\ UNCHANGED <<now, redis, mongo, sweeping, history, bounded>>

(* Mutant: an error ends the sweeper's timer.                              *)
CallFailsForGood(c) ==
  /\ call[c] # Idle /\ failures < MaxFailures
  /\ failures' = failures + 1
  /\ call' = [call EXCEPT ![c] = Looking(call[c].order, "release")]
  /\ UNCHANGED <<now, redis, mongo, sweeping, history, answers, reserves, crashes>>

(* Mongo or Redis refuses a step: the caller gets an error, the sweeper    *)
(* keeps the order for its next turn.                                      *)
CallFails(c) ==
  /\ call[c] # Idle
  /\ failures < MaxFailures
  /\ failures' = failures + 1
  /\ pending' = IF c \in Sweeper THEN [pending EXCEPT ![c] = @ \cup {call[c].order}] ELSE pending
  /\ call' = [call EXCEPT ![c] = Idle]
  /\ UNCHANGED <<now, redis, mongo, listed, history, answers, reserves, crashes>>

(* A sweeping instance dies: what it had read and its pending expiries     *)
(* were in memory.                                                         *)
Crash(x) ==
  /\ crashes < MaxCrashes
  /\ call[x] # Idle \/ pending[x] \cup listed[x] # {}
  /\ crashes' = crashes + 1
  /\ call' = [call EXCEPT ![x] = Idle]
  /\ pending' = [pending EXCEPT ![x] = {}]
  /\ listed' = [listed EXCEPT ![x] = {}]
  /\ UNCHANGED <<now, redis, mongo, history, answers, reserves, failures>>

(* Time passes and Redis drops the keys whose life is over; an index       *)
(* member has none.                                                        *)
Tick ==
  /\ now < MaxTime
  /\ PromptSweeper => \A o \in indexed : hashUntil[o] > now + 1
  /\ now' = now + 1
  /\ hash' = [o \in Order |-> IF hashUntil[o] <= now + 1 THEN "none" ELSE hash[o]]
  /\ hashUntil' = [o \in Order |-> IF hashUntil[o] <= now + 1 THEN 0 ELSE hashUntil[o]]
  /\ userLock' = [u \in User |-> IF lockUntil[u] <= now + 1 THEN NoOrder ELSE userLock[u]]
  /\ UNCHANGED <<counter, expiresAt, extended, indexed, lockUntil, mongo, call, sweeping, history,
                 answers, bounded>>

Next ==
  \/ \E o \in Order, ttl \in Ttl : Reserve(o, ttl)
  \/ \E o \in Order : Extend(o) \/ Shorten(o)
  \/ \E w \in Worker, o \in Order : Release(w, o) \/ Commit(w, o)
  \/ \E x \in Sweeper : ListDue(x) \/ \E o \in Order : Sweep(x, o)
  \/ \E c \in Caller : WriteLedger(c) \/ ForgetSettled(c) \/ CallFails(c)
  \/ \E w \in Worker : LookUpLedger(w)
  \/ \E x \in Sweeper : Crash(x)
  \/ Tick

Spec == Init /\ [][Next]_vars

-----------------------------------------------------------------------------
(* Quantities over a set of orders, as the number of units in their lines. *)

Units(S, s) == {u \in S \X (1..MaxQty) : u[2] <= Qty[u[1]][s]}
Total(S, s) == Cardinality(Units(S, s))

ActiveOrders == {o \in Order : hash[o] = "active"}
Booked(kind) == {o \in Order : <<o, kind>> \in ledger}
Unbooked == sold \ Booked("commit")

RedisTypeOK ==
  /\ now \in Nat
  /\ counter \in [Sku -> Int]
  /\ hash \in [Order -> HashState]
  /\ expiresAt \in [Order -> Nat]
  /\ extended \in [Order -> Nat]
  /\ hashUntil \in [Order -> Nat]
  /\ indexed \subseteq Order
  /\ userLock \in [User -> Order \cup {NoOrder}]
  /\ lockUntil \in [User -> Nat]

MongoTypeOK ==
  /\ onHand \in [Sku -> Int]
  /\ ledger \subseteq Order \X {"release", "expire", "commit"}

CallTypeOK ==
  /\ call \in [Caller -> CallState]
  /\ listed \in [Sweeper -> SUBSET Order]
  /\ pending \in [Sweeper -> SUBSET Order]

HistoryTypeOK ==
  /\ sold \subseteq Order
  /\ returned \subseteq Order
  /\ answers \subseteq Order \X {"sold", "returned", "unsold"}
  /\ reserves \in [Order -> Nat]
  /\ failures \in Nat
  /\ crashes \in Nat

(* Every variable keeps its type.                                          *)
TypeOK == RedisTypeOK /\ MongoTypeOK /\ CallTypeOK /\ HistoryTypeOK

(* The shop never promises more than it has (ADR-01, ADR-03): what is open *)
(* for sale, what is locked and what is sold but not yet taken off the     *)
(* stock on hand together never exceed the stock on hand, whatever is      *)
(* retried, duplicated, lost or forgotten too early.                       *)
NoOversell ==
  \A s \in Sku :
    /\ 0 <= counter[s]
    /\ counter[s] + Total(ActiveOrders, s) + Total(Unbooked, s) <= onHand[s]

(* Nothing leaks either while the sweeper keeps up and no Reserve comes    *)
(* twice: the same sum is exactly the stock on hand.                       *)
StockConserved ==
  \A s \in Sku : counter[s] + Total(ActiveOrders, s) + Total(Unbooked, s) = onHand[s]

(* Cancel, payment and sweeper race for one reservation (B3): its stock is *)
(* sold or returned, never both (ADR-18: "moves exactly once").            *)
MovesOnce == sold \cap returned = {}

(* Callers who ask about one order are never told opposite things: not     *)
(* "sold" to the payment and "returned" to the cancel, and not "unsold"  *)
(* (which makes order-service refund) of an order whose stock is taken.    *)
AnswersAgree ==
  \A o \in Order :
    /\ <<o, "sold">> \in answers => o \in sold /\ <<o, "returned">> \notin answers
    /\ <<o, "returned">> \in answers => o \in returned
    /\ <<o, "unsold">> \in answers => o \notin sold

(* The ledger is the account of the stock on hand: the deltas of the       *)
(* opening and the commits add up to it, however many calls complete one   *)
(* commit (B14).                                                           *)
LedgerBalances ==
  \A s \in Sku : onHand[s] = Opening[s] - Total(Booked("commit"), s)

(* A settlement is in the ledger or its trace still says how to complete   *)
(* it: nothing that happened in Redis can be forgotten before Mongo knows. *)
NothingForgotten ==
  /\ \A o \in sold : o \in Booked("commit") \/ hash[o] = "committed"
  /\ \A o \in returned : \/ o \in Booked("release") \cup Booked("expire")
                         \/ hash[o] \in {"released", "expired"}

(* The ledger never tells a settlement that did not happen, nor two.       *)
LedgerTruthful ==
  /\ Booked("commit") \subseteq sold
  /\ Booked("release") \cup Booked("expire") \subseteq returned
  /\ Booked("release") \cap Booked("expire") = {}

(* The ledger and Redis tell the same story of every settlement, whichever  *)
(* call stopped between the two writes.                                    *)
LedgerAgrees == NothingForgotten /\ LedgerTruthful

(* One live reservation per user (B22): of two reservations of one user,   *)
(* one is past its expiry and only waits for the sweeper.                  *)
OneLivePerUser ==
  \A o, p \in Order : o # p /\ Owner[o] = Owner[p] /\ Held(o) /\ Held(p) => Due(o) \/ Due(p)

(* The time that a Reserve, an Extend or a Shorten answered last is kept   *)
(* (extend.lua:1-5, B21): until then no sweep with an older list expires   *)
(* an order, however often it was reserved, and one that was reserved once *)
(* is locked for its user, or a Release or a Commit moved its stock: no    *)
(* key of it has run out, no call that ends late has deleted its hash, and *)
(* the ledger knows of no expiry.                                          *)
KeptUntilDue ==
  \A o \in Order : ~Due(o) =>
    /\ hash[o] # "expired"
    /\ reserves[o] = 1 => /\ Held(o) \/ o \in sold \cup returned
                          /\ <<o, "expire">> \notin ledger

-----------------------------------------------------------------------------
(* The sweeper ticks every second and an answered call goes on; Mongo      *)
(* fails only finitely often (MaxFailures).                                *)
Fairness ==
  /\ WF_vars(Tick)
  /\ \A x \in Sweeper : /\ \A o \in Order : WF_vars(Sweep(x, o))
                        /\ WF_vars(ListDue(x))
                        /\ WF_vars(WriteLedger(x)) /\ WF_vars(ForgetSettled(x))
  /\ \A w \in Worker : WF_vars(WriteLedger(w)) /\ WF_vars(ForgetSettled(w))

FairSpec == Spec /\ Fairness

(* No reservation stays locked for ever: it is sold or goes back to sale.  *)
EveryHoldEnds == \A o \in Order : Held(o) ~> o \in sold \cup returned
=============================================================================
