------------------------------ MODULE EventFeed ------------------------------
(* What the consumers of order events may count on: the first copy of an event *)
(* comes after a copy of each event of an earlier version of its order. Copies *)
(* may follow at any time.                                                     *)
EXTENDS Integers, Sequences

CONSTANTS
  Order,
  Topics(_),      \* version -> the topics of the events written with it
  MaxVersion      \* bound: versions of one order

ASSUME TopicsAssumption ==
  MaxVersion \in Nat /\ \A v \in 1..MaxVersion : Topics(v) \in Seq(STRING)

VARIABLE stream   \* every entry ever added; the id of an entry is its position

\* The events of one write of an order.
EventsOf(o, v) == [k \in DOMAIN Topics(v) |-> [order |-> o, version |-> v, topic |-> Topics(v)[k]]]

Events == UNION {{EventsOf(o, v)[k] : k \in DOMAIN Topics(v)} : o \in Order, v \in 1..MaxVersion}
Event == [order : Order, version : 1..MaxVersion, topic : STRING]

Earlier(e, f) == e.order = f.order /\ e.version < f.version
Sent(event) == \E i \in DOMAIN stream : stream[i] = event

Init == stream = <<>>

Add(event) ==
  /\ \A e \in Events : Earlier(e, event) => Sent(e)
  /\ stream' = Append(stream, event)

Next == \E event \in Events : Add(event)

Spec == Init /\ [][Next]_stream
==============================================================================
