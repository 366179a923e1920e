----------------------------- MODULE OutboxRelay -----------------------------
(* The outbox order-service writes in the transaction of the order, and the    *)
(* publishers that carry it to the Redis stream. Each action is one call to    *)
(* Mongo or Redis of one publisher; any number of them may run.                *)
EXTENDS EventFeed, FiniteSets

CONSTANTS
  Relay,          \* the running copies of the outbox publisher
  BatchSize,      \* events read in one round
  MaxEntries,     \* bound: entries of the stream
  MaxMisses       \* bound: failed publications and rounds

ASSUME RelayAssumption == BatchSize \in Nat \ {0} /\ MaxEntries \in Nat /\ MaxMisses \in Nat

VARIABLES
  outbox,    \* the events of all orders, in the order they are published in
  marked,    \* positions of the outbox that carry publishedAt
  round,     \* relay -> the positions it read and how many of them it published
  misses     \* failures so far

vars == <<outbox, stream, marked, round, misses>>

------------------------------------------------------------------------------
Resting == [batch |-> <<>>, sent |-> 0]

\* The first n members of a set of positions, in ascending order.
Firsts(S, n) ==
  LET picked == {i \in S : Cardinality({j \in S : j < i}) < n}
  IN  [k \in 1..Cardinality(picked) |->
         CHOOSE i \in picked : Cardinality({j \in picked : j < i}) = k - 1]

RelayInit == Init /\ outbox = <<>> /\ marked = {} /\ round = [r \in Relay |-> Resting] /\ misses = 0

Misses == misses < MaxMisses /\ misses' = misses + 1
Unpublished == DOMAIN outbox \ marked

Written(o, v) == \E k \in DOMAIN outbox : outbox[k].order = o /\ outbox[k].version = v

\* insertMany in the transaction that writes the order; its version rises by one.
Write(o, v) ==
  /\ ~Written(o, v)
  /\ \A w \in 1..(v - 1) : Written(o, w)
  /\ outbox' = outbox \o EventsOf(o, v)
  /\ UNCHANGED <<stream, marked, round, misses>>

\* Mutant: the events are marked when they are read, so that no other relay takes them.
ReadPendingMarks(r) ==
  /\ round[r] = Resting /\ Unpublished # {}
  /\ round' = [round EXCEPT ![r].batch = Firsts(Unpublished, BatchSize)]
  /\ marked' = marked \cup {round'[r].batch[k] : k \in DOMAIN round'[r].batch}
  /\ UNCHANGED <<outbox, stream, misses>>

\* outbox.pending(batchSize): a round begins.
ReadPending(r) ==
  /\ round[r] = Resting /\ Unpublished # {}
  /\ round' = [round EXCEPT ![r].batch = Firsts(Unpublished, BatchSize)]
  /\ UNCHANGED <<outbox, stream, marked, misses>>

Publishing(r) == round[r].sent < Len(round[r].batch)

\* XADD of the next event of the round.
Xadd(r) ==
  /\ Len(stream) < MaxEntries
  /\ stream' = Append(stream, outbox[round[r].batch[round[r].sent + 1]])

Publish(r) ==
  /\ Publishing(r) /\ Xadd(r)
  /\ round' = [round EXCEPT ![r].sent = @ + 1]
  /\ UNCHANGED <<outbox, marked, misses>>

\* Mutant: the round goes on with the event after it.
StoppedNever(r) == [round[r] EXCEPT !.batch =
                      SubSeq(@, 1, round[r].sent) \o SubSeq(@, round[r].sent + 2, Len(@))]

\* The round when an event could not be published: it stops, and only what was
\* sent is marked.
Stopped(r) == [round[r] EXCEPT !.batch = SubSeq(@, 1, round[r].sent)]

\* XADD fails, or its answer is lost after the entry was added.
PublishFails(r) ==
  /\ Publishing(r) /\ Misses
  /\ Xadd(r) \/ UNCHANGED stream
  /\ round' = [round EXCEPT ![r] = Stopped(r)]
  /\ UNCHANGED <<outbox, marked>>

\* markPublished, in the finally of the round.
MarkPublished(r) ==
  /\ round[r] # Resting /\ ~Publishing(r)
  /\ marked' = marked \cup {round[r].batch[k] : k \in DOMAIN round[r].batch}
  /\ round' = [round EXCEPT ![r] = Resting]
  /\ UNCHANGED <<outbox, stream, misses>>

\* The process ends, or Mongo fails on the mark: what was sent stays unmarked.
RelayDies(r) ==
  /\ round[r] # Resting /\ Misses
  /\ round' = [round EXCEPT ![r] = Resting]
  /\ UNCHANGED <<outbox, stream, marked>>

Relays(r) == ReadPending(r) \/ Publish(r) \/ MarkPublished(r)

RelayNext ==
  \/ \E o \in Order, v \in 1..MaxVersion : Write(o, v)
  \/ \E r \in Relay : Relays(r) \/ PublishFails(r) \/ RelayDies(r)

RelaySpec == RelayInit /\ [][RelayNext]_vars

\* The publisher is a chain of timers: a round follows a round.
FairRelaySpec == RelaySpec /\ \A r \in Relay : WF_vars(Relays(r))

------------------------------------------------------------------------------
(* Properties. *)

TypeOK ==
  /\ outbox \in Seq(Event) /\ stream \in Seq(Event)
  /\ marked \subseteq DOMAIN outbox
  /\ round \in [Relay -> [batch : Seq(Nat), sent : Nat]]
  /\ misses \in 0..MaxMisses

(* relay-outbox.ts: an event carries publishedAt only when the stream got it,   *)
(* whichever relay died at which point.                                         *)
MarkedWasSent == \A k \in marked : Sent(outbox[k])

(* relay-outbox.ts:6-7: the stream is such a feed for its consumers, although   *)
(* relays run side by side, rounds stop, die and are read again: no event of an *)
(* order overtakes an earlier one.                                              *)
FollowsFeed == Spec

(* Every event of the outbox comes to the stream, although each publisher may   *)
(* die in its round.                                                            *)
EveryEventIsSent ==
  \A k \in 1..MaxEntries : (k \in DOMAIN outbox) ~> (k \in DOMAIN outbox /\ Sent(outbox[k]))
==============================================================================
