----------------------------- MODULE EventGroup ------------------------------
(* One consumer group of the event stream with several copies of a service:   *)
(* reading, claiming stale entries, delivery counts, dead letters, and the    *)
(* handler of realtime-service that shows an order's newest status to its     *)
(* room. Each action is one call to Redis of one copy. What comes down the    *)
(* stream is the feed of module EventFeed.                                    *)
EXTENDS EventFeed, FiniteSets

CONSTANTS
  Consumer,       \* the copies of the service
  BatchSize,      \* entries read in one turn
  MaxDeliveries,  \* deliveries of one entry before it is given up
  MaxLength,      \* entries the stream keeps at least (MAXLEN ~)
  Heard,          \* the topics the group has a handler for
  MaxTroubles     \* bound: copies, failed turns, handlers and bodies together

ASSUME GroupAssumption ==
  /\ BatchSize \in Nat \ {0} /\ MaxDeliveries \in Nat \ {0} /\ MaxLength \in Nat \ {0}
  /\ MaxTroubles \in Nat
ASSUME ConsumersAssumption == IsFiniteSet(Consumer)

VARIABLES
  gone,      \* entries 1..gone were trimmed from the stream
  position,  \* the last entry delivered to the group
  pending,   \* entry -> its delivery count and whether it is stale
  turn,      \* consumer -> where it is in its turn
  dead,      \* entries in the dead letter stream, with their reason
  newest,    \* order -> the newest version recorded for its room
  shown,     \* order -> the newest version sent to its room
  handled,   \* entries whose handler finished
  calls,     \* entry -> how often it was given to the handler
  broken,    \* turns of consumers that broke off
  thrown     \* calls of the handler that threw or rejected the body

group == <<position, pending, turn>>
room == <<newest, shown, handled>>
count == <<calls, broken, thrown>>
vars == <<stream, gone, group, dead, room, count>>

------------------------------------------------------------------------------
Stage == {"listing", "stale", "batch"}
Step == {"take", "dispatch", "emit", "ack"}
Reason == {"rejected", "exhausted"}
Begin == [stage |-> "listing", todo |-> <<>>, step |-> "take", skipped |-> {}]

Larger(a, b) == IF a > b THEN a ELSE b
Smaller(a, b) == IF a < b THEN a ELSE b

\* The first n members of a set of entries, in ascending order.
Firsts(S, n) ==
  LET picked == {i \in S : Cardinality({j \in S : j < i}) < n}
  IN  [k \in 1..Cardinality(picked) |->
         CHOOSE i \in picked : Cardinality({j \in picked : j < i}) = k - 1]

GroupInit ==
  /\ Init /\ gone = 0 /\ position = 0 /\ pending = <<>>
  /\ turn = [c \in Consumer |-> Begin] /\ dead = {}
  /\ newest = [o \in Order |-> 0] /\ shown = [o \in Order |-> 0] /\ handled = {}
  /\ calls = <<>> /\ broken = 0 /\ thrown = 0

------------------------------------------------------------------------------
(* The stream. *)

Copies == Len(stream) - Cardinality({stream[i] : i \in DOMAIN stream})
Trouble == Copies + broken + thrown < MaxTroubles

\* XADD with MAXLEN ~: the stream may be cut down to MaxLength entries.
Arrive(event) ==
  /\ Add(event)
  /\ Sent(event) => Trouble
  /\ gone' \in {gone, Larger(gone, Len(stream) + 1 - MaxLength)}
  /\ calls' = Append(calls, 0)
  /\ UNCHANGED <<group, dead, room, broken, thrown>>

\* The entry has been unacknowledged for claimIdleMs; in a long batch this may
\* happen before its turn comes.
GoesStale(i) ==
  /\ i \in DOMAIN pending /\ ~pending[i].stale
  /\ pending' = [pending EXCEPT ![i].stale = TRUE]
  /\ UNCHANGED <<stream, gone, position, turn, dead, room, count>>

------------------------------------------------------------------------------
(* A turn of a consumer: stale entries one by one, then a batch of new ones. *)

Without(ids) == [i \in DOMAIN pending \ ids |-> pending[i]]
Stale == {i \in DOMAIN pending : pending[i].stale}
Current(c) == Head(turn[c].todo)
Moved(c) == [turn[c] EXCEPT !.todo = Tail(@), !.step = "take"]
At(c, step) == [turn[c] EXCEPT !.step = step]

\* XPENDING IDLE: the list is worked off entry by entry later, with the delivery
\* counts it holds.
Listed ==
  LET ids == Firsts(Stale, BatchSize)
  IN  [k \in DOMAIN ids |-> [id |-> ids[k], attempt |-> pending[ids[k]].deliveries + 1]]

StalePending(c) ==
  /\ turn[c].stage = "listing"
  /\ turn' = [turn EXCEPT ![c].stage = "stale", ![c].todo = Listed]
  /\ UNCHANGED <<stream, gone, position, pending, dead, room, count>>

\* Mutant: an entry that was trimmed stays in the pending list.
ClaimKeepsTrimmed(c) ==
  /\ turn[c].stage = "stale" /\ turn[c].step = "take" /\ turn[c].todo # <<>>
  /\ LET id == Current(c).id IN
       IF id \in Stale /\ id > gone
         THEN /\ pending' = [pending EXCEPT ![id] = [deliveries |-> @.deliveries + 1, stale |-> FALSE]]
              /\ turn' = [turn EXCEPT ![c] = At(c, "dispatch")]
         ELSE /\ pending' = pending
              /\ turn' = [turn EXCEPT ![c] = Moved(c)]
  /\ UNCHANGED <<stream, gone, position, dead, room, count>>

\* XCLAIM with the idle time again: nothing comes back when another consumer was
\* faster; an entry that was trimmed leaves the pending list with it.
Claim(c) ==
  /\ turn[c].stage = "stale" /\ turn[c].step = "take" /\ turn[c].todo # <<>>
  /\ LET id == Current(c).id IN
       IF id \in Stale /\ id > gone
         THEN /\ pending' = [pending EXCEPT ![id] = [deliveries |-> @.deliveries + 1, stale |-> FALSE]]
              /\ turn' = [turn EXCEPT ![c] = At(c, "dispatch")]
         ELSE /\ pending' = Without({id} \cap Stale)
              /\ turn' = [turn EXCEPT ![c] = Moved(c)]
  /\ UNCHANGED <<stream, gone, position, dead, room, count>>

\* The stale entries are done with.
Reading(c) == turn[c].stage = "stale" /\ turn[c].todo = <<>>
Behind == Larger(position, gone)

\* XREADGROUP '>': the position of the group moves past the batch, each entry is
\* delivered for the first time.
ReadNew(c) ==
  /\ Reading(c) /\ Behind < Len(stream)
  /\ position' = Smaller(Behind + BatchSize, Len(stream))
  /\ pending' = [i \in DOMAIN pending \cup (Behind + 1)..position' |->
       IF i > Behind THEN [deliveries |-> 1, stale |-> FALSE] ELSE pending[i]]
  /\ turn' = [turn EXCEPT ![c].stage = "batch",
       ![c].todo = [k \in 1..(position' - Behind) |-> [id |-> Behind + k, attempt |-> 1]]]
  /\ UNCHANGED <<stream, gone, dead, room, count>>

\* The wait for new entries ends without one.
ReadNothing(c) ==
  /\ Reading(c) /\ Behind = Len(stream) /\ Stale # {}
  /\ turn' = [turn EXCEPT ![c] = Begin]
  /\ UNCHANGED <<stream, gone, position, pending, dead, room, count>>

\* The batch is worked off: the entries of topics nobody hears are acknowledged.
AckSkipped(c) ==
  /\ turn[c].stage = "batch" /\ turn[c].todo = <<>>
  /\ pending' = Without(turn[c].skipped)
  /\ turn' = [turn EXCEPT ![c] = Begin]
  /\ UNCHANGED <<stream, gone, position, dead, room, count>>

------------------------------------------------------------------------------
(* dispatchEntry, the handler of realtime-service and the verdict. *)

Dispatching(c) ==
  \/ turn[c].step = "dispatch"
  \/ turn[c].stage = "batch" /\ turn[c].step = "take" /\ turn[c].todo # <<>>

EntryOf(c) == stream[Current(c).id]

\* Mutant: the last delivery is given up without a call.
UsedUpEarly(attempt) == attempt >= MaxDeliveries
UsedUp(attempt) == attempt > MaxDeliveries

LastTry(attempt) == attempt >= MaxDeliveries

\* A skipped entry of the batch waits for its end, a claimed one is acknowledged at once.
Skip(c) ==
  /\ Dispatching(c) /\ EntryOf(c).topic \notin Heard
  /\ turn' = [turn EXCEPT ![c] =
       IF turn[c].stage = "batch" THEN [Moved(c) EXCEPT !.skipped = @ \cup {Current(c).id}]
                                  ELSE At(c, "ack")]
  /\ UNCHANGED <<stream, gone, position, pending, dead, room, count>>

\* deadLetter: XADD to the dead letters, the XACK comes after it.
Bury(c, reason) ==
  /\ dead' = dead \cup {[id |-> Current(c).id, reason |-> reason]}
  /\ turn' = [turn EXCEPT ![c] = At(c, "ack")]
  /\ UNCHANGED <<stream, gone, position, pending, room, broken>>

\* The tries were used up by deliveries that went down with their consumer.
GiveUp(c) ==
  /\ Dispatching(c) /\ EntryOf(c).topic \in Heard /\ UsedUp(Current(c).attempt)
  /\ Bury(c, "exhausted")
  /\ UNCHANGED <<calls, thrown>>

Called(c) ==
  /\ Dispatching(c) /\ EntryOf(c).topic \in Heard /\ ~UsedUp(Current(c).attempt)
  /\ calls' = [calls EXCEPT ![Current(c).id] = @ + 1]

\* The body breaks the contract, or what it speaks of does not exist: no retry
\* would change that.
Reject(c) ==
  /\ Called(c) /\ Trouble
  /\ Bury(c, "rejected")
  /\ thrown' = thrown + 1

\* Mutant: an equal version is not sent again.
SupersededByItself(recorded, version) == recorded >= version

\* decideSeq: an older version is not sent, an equal one is sent again.
Superseded(recorded, version) == recorded > version

\* recordIfNewer: ZSCORE and ZADD GT in one MULTI, before the broadcast.
Record(c) ==
  /\ Called(c)
  /\ LET o == EntryOf(c).order
         v == EntryOf(c).version
     IN  /\ newest' = [newest EXCEPT ![o] = Larger(@, v)]
         /\ \/ /\ Superseded(newest[o], v)
               /\ handled' = handled \cup {Current(c).id}
               /\ turn' = [turn EXCEPT ![c] = At(c, "ack")]
            \/ /\ ~Superseded(newest[o], v)
               /\ turn' = [turn EXCEPT ![c] = At(c, "emit")]
               /\ UNCHANGED handled
  /\ UNCHANGED <<stream, gone, position, pending, dead, shown, broken, thrown>>

\* Mutant: an entry is acknowledged whatever its handler did.
ThrowsAcked(c) ==
  /\ Called(c) /\ Trouble
  /\ thrown' = thrown + 1
  /\ turn' = [turn EXCEPT ![c] = At(c, "ack")]
  /\ UNCHANGED <<stream, gone, position, pending, dead, room, broken>>

\* The handler throws: the last delivery ends in the dead letters, an earlier
\* one is left pending.
Throws(c) ==
  /\ Called(c) /\ Trouble
  /\ thrown' = thrown + 1
  /\ \/ LastTry(Current(c).attempt) /\ Bury(c, "exhausted")
     \/ /\ ~LastTry(Current(c).attempt)
        /\ turn' = [turn EXCEPT ![c] = Moved(c)]
        /\ UNCHANGED <<stream, gone, position, pending, dead, room, broken>>

\* The broadcast to the room; a client drops a version it has passed already.
Emit(c) ==
  /\ turn[c].step = "emit"
  /\ shown' = [shown EXCEPT ![EntryOf(c).order] = Larger(@, EntryOf(c).version)]
  /\ handled' = handled \cup {Current(c).id}
  /\ turn' = [turn EXCEPT ![c] = At(c, "ack")]
  /\ UNCHANGED <<stream, gone, position, pending, dead, newest, count>>

Ack(c) ==
  /\ turn[c].step = "ack"
  /\ pending' = Without({Current(c).id})
  /\ turn' = [turn EXCEPT ![c] = Moved(c)]
  /\ UNCHANGED <<stream, gone, position, dead, room, count>>

\* Redis is lost during a turn, or the process ends: the rest of the turn is
\* dropped and its entries stay pending.
TurnBreaks(c) ==
  /\ turn[c].todo # <<>> \/ turn[c].skipped # {}
  /\ Trouble
  /\ turn' = [turn EXCEPT ![c] = Begin]
  /\ broken' = broken + 1
  /\ UNCHANGED <<stream, gone, position, pending, dead, room, calls, thrown>>

------------------------------------------------------------------------------
Works(c) ==
  \/ StalePending(c) \/ Claim(c) \/ ReadNew(c) \/ ReadNothing(c) \/ AckSkipped(c)
  \/ Skip(c) \/ GiveUp(c) \/ Record(c) \/ Emit(c) \/ Ack(c)

GroupNext ==
  \/ \E event \in Events : Arrive(event)
  \/ \E i \in DOMAIN stream : GoesStale(i)
  \/ \E c \in Consumer : Works(c) \/ Throws(c) \/ Reject(c) \/ TurnBreaks(c)

GroupSpec == GroupInit /\ [][GroupNext]_vars

\* Every event arrives once (OutboxRelay), the copies of the service run in loops,
\* and an entry nobody acknowledges becomes stale.
ArrivesFirst == \E event \in Events : ~Sent(event) /\ Arrive(event)

FairGroupSpec ==
  /\ GroupSpec
  /\ WF_vars(ArrivesFirst)
  /\ \A c \in Consumer : WF_vars(Works(c))
  /\ WF_vars(\E i \in DOMAIN stream : GoesStale(i))

------------------------------------------------------------------------------
(* Properties. *)

Heeds(i) == stream[i].topic \in Heard
Buried(i) == \E letter \in dead : letter.id = i

\* The consumer was given the entry and has not come to it, or is at it.
Holds(c, i) ==
  \/ turn[c].stage = "batch" /\ \E k \in DOMAIN turn[c].todo : turn[c].todo[k].id = i
  \/ turn[c].step # "take" /\ Current(c).id = i

TypeOK ==
  /\ stream \in Seq(Event)
  /\ gone \in 0..Len(stream) /\ position \in 0..Len(stream)
  /\ DOMAIN pending \subseteq 1..position
  /\ \A i \in DOMAIN pending : pending[i] \in [deliveries : Nat, stale : BOOLEAN]
  /\ turn \in [Consumer -> [stage : Stage, todo : Seq([id : 1..position, attempt : Nat]),
                           step : Step, skipped : SUBSET (1..position)]]
  /\ dead \subseteq [id : 1..position, reason : Reason]
  /\ newest \in [Order -> 0..MaxVersion] /\ shown \in [Order -> 0..MaxVersion]
  /\ handled \subseteq 1..position
  /\ calls \in Seq(Nat) /\ Len(calls) = Len(stream)
  /\ broken \in Nat /\ thrown \in Nat /\ Copies + broken + thrown <= MaxTroubles

(* group-worker.ts, redis-stream-group.ts: an entry the group has passed is     *)
(* pending, handled or in the dead letters; only trimming makes one vanish,     *)
(* whatever breaks between two calls.                                           *)
NoneVanishes ==
  \A i \in 1..position :
    i \in DOMAIN pending \/ i \in handled \/ Buried(i) \/ ~Heeds(i) \/ i <= gone

(* group-worker.ts:5-7: an entry is given up for its own failures: each of its  *)
(* deliveries was a call of the handler, is still in the hands of a consumer,   *)
(* or went down with a turn.                                                    *)
TriesAreUsed ==
  \A letter \in dead :
    letter.reason = "exhausted" =>
      calls[letter.id] + broken + Cardinality({c \in Consumer : Holds(c, letter.id)})
        >= MaxDeliveries

(* publish-order-status.ts:4-8: when an event is done, its room has seen its    *)
(* version or a newer one, unless a newer one is still to be delivered, dead or *)
(* trimmed: a consumer that dies between the record and the broadcast hides     *)
(* nothing.                                                                     *)
HandledIsShown ==
  \A i \in handled :
    \/ shown[stream[i].order] >= stream[i].version
    \/ \E j \in 1..position : /\ Earlier(stream[i], stream[j])
                             /\ (j \in DOMAIN pending \/ Buried(j) \/ j <= gone)

(* No entry stays pending for ever: it is handled, skipped or buried.           *)
NothingStaysPending == []<>(DOMAIN pending = {})
==============================================================================
