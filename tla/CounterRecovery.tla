--------------------------- MODULE CounterRecovery ---------------------------
(***************************************************************************)
(* Redis may lose the counters of inventory-service with everything else   *)
(* it keeps.  A call that misses a counter looks for the marker of the      *)
(* counter set: a marker that is there says that the shop does not sell     *)
(* the SKU, a missing one has the counters written from MongoDB again,      *)
(* batch after batch and the marker last.  The calls of one instance wait   *)
(* for one rebuild; other instances run their own.                          *)
(*                                                                          *)
(* A counter is its existence: the levels of MongoDB do not change here.    *)
(* Source: inventory-service, application/counter-recovery.ts,              *)
(* seed-counters.ts, check-availability.ts and reserve-stock.ts.            *)
(***************************************************************************)
EXTENDS Naturals, Sequences, FiniteSets, SequencesExt

CONSTANTS
  Instance,     \* copies of inventory-service
  Caller,       \* calls of CheckAvailability or Reserve
  ServedBy(_),  \* the instance that answers a call
  Asked(_),     \* the SKU a call asks for
  Batches,      \* the SKUs of MongoDB in the order their batches are read
  MaxLosses     \* Redis loses its data at most this often

Sold == UNION Range(Batches)   \* the SKUs MongoDB has a level for

NoRebuild == 0
MarkerNext == Len(Batches) + 1

\* A call reads, looks for the marker, waits, reads again, and is answered
\* with a quantity, with "this SKU is not sold", or with "try again".
CallStep == {"read", "check", "wait", "again", "known", "unknown", "unavailable"}

VARIABLES
  counters,   \* SKUs that have a counter in Redis
  marker,     \* whether stock:seeded is there
  rebuild,    \* the batch an instance writes next
  call,       \* how far each call is
  losses

vars == <<counters, marker, rebuild, call, losses>>

TypeOK ==
  /\ counters \subseteq Sold
  /\ marker \in BOOLEAN
  /\ rebuild \in [Instance -> NoRebuild .. MarkerNext]
  /\ call \in [Caller -> CallStep]
  /\ losses \in 0 .. MaxLosses

\* The service has seeded the counters at its start.
Init ==
  /\ counters = Sold
  /\ marker = TRUE
  /\ rebuild = [i \in Instance |-> NoRebuild]
  /\ call = [c \in Caller |-> "read"]
  /\ losses = 0

Goes(c, step) == call' = [call EXCEPT ![c] = step]

\* Redis comes back empty; calls and rebuilds that are under way go on.
RedisLoses ==
  /\ losses < MaxLosses
  /\ losses' = losses + 1
  /\ counters' = {}
  /\ marker' = FALSE
  /\ UNCHANGED <<rebuild, call>>

\* MGET of the counters, or the answer 'missing' of reserve.lua.
Read(c) ==
  /\ call[c] = "read"
  /\ Goes(c, IF Asked(c) \in counters THEN "known" ELSE "check")
  /\ UNCHANGED <<counters, marker, rebuild, losses>>

\* The marker is there: recoverCounters answers false.
FindMarker(c) ==
  /\ call[c] = "check"
  /\ marker
  /\ Goes(c, "unknown")
  /\ UNCHANGED <<counters, marker, rebuild, losses>>

\* The marker is missing: the call waits for the rebuild of its instance and
\* starts it when none is under way.
MissMarker(c) ==
  /\ call[c] = "check"
  /\ ~marker
  /\ Goes(c, "wait")
  /\ rebuild' = [rebuild EXCEPT ![ServedBy(c)] = IF @ = NoRebuild THEN 1 ELSE @]
  /\ UNCHANGED <<counters, marker, losses>>

\* SET NX of the next batch: a counter that is there stays as it is.
WriteBatch(i) ==
  /\ rebuild[i] \in 1 .. Len(Batches)
  /\ counters' = counters \cup Batches[rebuild[i]]
  /\ rebuild' = [rebuild EXCEPT ![i] = @ + 1]
  /\ UNCHANGED <<marker, call, losses>>

Waiting(i) == {c \in Caller : ServedBy(c) = i /\ call[c] = "wait"}

\* The end of a rebuild is the end of the wait of every call that shares it.
Release(i, step) ==
  /\ rebuild' = [rebuild EXCEPT ![i] = NoRebuild]
  /\ call' = [c \in Caller |-> IF c \in Waiting(i) THEN step ELSE call[c]]

MarkPresent(i) ==
  /\ rebuild[i] = MarkerNext
  /\ marker' = TRUE
  /\ Release(i, "again")
  /\ UNCHANGED <<counters, losses>>

\* MongoDB or Redis answers an error: no marker is written.
RebuildFails(i) ==
  /\ rebuild[i] # NoRebuild
  /\ Release(i, "unavailable")
  /\ UNCHANGED <<counters, marker, losses>>

\* The call has waited for timeoutMs; the rebuild goes on without it.
TimesOut(c) ==
  /\ call[c] = "wait"
  /\ Goes(c, "unavailable")
  /\ UNCHANGED <<counters, marker, rebuild, losses>>

ReadAgain(c) ==
  /\ call[c] = "again"
  /\ Goes(c, IF Asked(c) \in counters THEN "known" ELSE "unknown")
  /\ UNCHANGED <<counters, marker, rebuild, losses>>

\* Redis does not answer a read or the look at the marker.
CallFails(c) ==
  /\ call[c] \in {"read", "check", "again"}
  /\ Goes(c, "unavailable")
  /\ UNCHANGED <<counters, marker, rebuild, losses>>

Next ==
  \/ RedisLoses
  \/ \E c \in Caller :
       \/ Read(c) \/ FindMarker(c) \/ MissMarker(c)
       \/ TimesOut(c) \/ ReadAgain(c) \/ CallFails(c)
  \/ \E i \in Instance : WriteBatch(i) \/ MarkPresent(i) \/ RebuildFails(i)

Spec == Init /\ [][Next]_vars

-----------------------------------------------------------------------------
\* "The SKU is not sold" is only said of a SKU MongoDB has no level for
\* (counter-recovery.ts, ADR 0017): a call whose first read came before a
\* rebuild and whose look at the marker comes after it breaks this.
UnknownIsNotSold ==
  \A c \in Caller : call[c] = "unknown" => Asked(c) \notin Sold
=============================================================================
