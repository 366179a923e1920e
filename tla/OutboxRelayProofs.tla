-------------------------- MODULE OutboxRelayProofs --------------------------
(***************************************************************************)
(* What holds of the outbox and its publishers for any number of orders,   *)
(* events, relays and failures.  The inductive invariant says of a round   *)
(* that an event is never read without the unmarked ones before it: so     *)
(* what a relay sends has all its predecessors in the stream, sent by this *)
(* relay or marked by another.                                             *)
(***************************************************************************)
EXTENDS OutboxRelay, SequenceTheorems, FiniteSetTheorems, TLAPS

-----------------------------------------------------------------------------
(* The first members of a finite set of positions *)

(* Of two members the smaller one has fewer members below it. *)
LEMMA FewerBelow ==
  ASSUME NEW S \in SUBSET Nat, IsFiniteSet(S), NEW i \in S, NEW j \in Nat, i < j
  PROVE  /\ Cardinality({x \in S : x < i}) \in Nat
         /\ Cardinality({x \in S : x < j}) \in Nat
         /\ Cardinality({x \in S : x < i}) + 1 <= Cardinality({x \in S : x < j})
<1> DEFINE I == {x \in S : x < i}
           J == {x \in S : x < j}
<1>1. IsFiniteSet(I) /\ IsFiniteSet(J)
  BY FS_Subset, I \in SUBSET S, J \in SUBSET S
<1>2. IsFiniteSet(I \cup {i}) /\ Cardinality(I \cup {i}) = Cardinality(I) + 1
  BY <1>1, FS_AddElement, i \notin I
<1>3. I \cup {i} \in SUBSET J
  <2>1. i \in J
    OBVIOUS
  <2>2. \A x \in I : x \in J
    OBVIOUS
  <2> HIDE DEF I, J
  <2> QED BY <2>1, <2>2
<1>4. Cardinality(I \cup {i}) <= Cardinality(J)
  BY <1>1, <1>3, FS_Subset
<1>5. Cardinality(I) \in Nat /\ Cardinality(J) \in Nat
  BY <1>1, FS_CardinalityType
<1> HIDE DEF I, J
<1>6. Cardinality(I) + 1 <= Cardinality(J)
  BY <1>2, <1>4, <1>5
<1> QED BY <1>5, <1>6 DEF I, J

(* Firsts lists members only, each after all the smaller ones. *)
LEMMA FirstsAscend ==
  ASSUME NEW S \in SUBSET Nat, IsFiniteSet(S), NEW n \in Nat
  PROVE  /\ Firsts(S, n) \in Seq(S)
         /\ \A k \in DOMAIN Firsts(S, n) : \A j \in S :
              j < Firsts(S, n)[k] => \E m \in 1 .. k - 1 : Firsts(S, n)[m] = j
<1> DEFINE picked == {i \in S : Cardinality({j \in S : j < i}) < n}
           c == Cardinality(picked)
           rank == [i \in picked |-> Cardinality({j \in picked : j < i})]
           first(k) == CHOOSE i \in picked : Cardinality({j \in picked : j < i}) = k - 1
<1>1. picked \in SUBSET S /\ picked \in SUBSET Nat /\ IsFiniteSet(picked)
  BY FS_Subset, picked \in SUBSET S
<1>2. c \in Nat
  BY <1>1, FS_CardinalityType
<1>3. \A i \in picked : rank[i] \in 0 .. c - 1
  <2> SUFFICES ASSUME NEW i \in picked
               PROVE  Cardinality({j \in picked : j < i}) \in 0 .. c - 1
    OBVIOUS
  <2> DEFINE B == {j \in picked : j < i}
  <2>1. IsFiniteSet(B)
    BY <1>1, FS_Subset, B \in SUBSET picked
  <2>2. IsFiniteSet(B \cup {i}) /\ Cardinality(B \cup {i}) = Cardinality(B) + 1
    BY <1>1, <2>1, FS_AddElement, i \notin B
  <2>3. Cardinality(B \cup {i}) <= c
    BY <1>1, FS_Subset, B \cup {i} \in SUBSET picked
  <2>4. Cardinality(B) \in Nat
    BY <2>1, FS_CardinalityType
  <2> HIDE DEF B, c
  <2>5. Cardinality(B) \in 0 .. c - 1
    BY <1>2, <2>2, <2>3, <2>4
  <2> QED BY <2>5 DEF B
<1>4. \A i, j \in picked : i < j => rank[i] < rank[j]
  <2> SUFFICES ASSUME NEW i \in picked, NEW j \in picked, i < j
               PROVE  rank[i] < rank[j]
    OBVIOUS
  <2> DEFINE I == Cardinality({x \in picked : x < i})
             J == Cardinality({x \in picked : x < j})
  <2>1. I \in Nat /\ J \in Nat /\ I + 1 <= J
    <3>1. j \in Nat
      BY <1>1
    <3> HIDE DEF picked
    <3> QED BY <1>1, <3>1, FewerBelow
  <2>2. rank[i] = I /\ rank[j] = J
    OBVIOUS
  <2> HIDE DEF I, J, rank
  <2> QED BY <2>1, <2>2
<1>5. \A k \in 1 .. c : first(k) \in picked /\ rank[first(k)] = k - 1
  <2>1. IsFiniteSet(0 .. c - 1) /\ Cardinality(0 .. c - 1) = c
    <3>1. c - 1 \in Int
      BY <1>2
    <3> HIDE DEF c
    <3> QED BY <1>2, <3>1, FS_Interval
  <2>2. rank \in [picked -> 0 .. c - 1]
    BY <1>3
  <2>3. rank \in Injection(picked, 0 .. c - 1)
    <3>1. \A i, j \in picked : i # j => rank[i] # rank[j]
      <4> SUFFICES ASSUME NEW i \in picked, NEW j \in picked, i # j
                   PROVE  rank[i] # rank[j]
        OBVIOUS
      <4>1. i \in Nat /\ j \in Nat /\ rank[i] \in Int /\ rank[j] \in Int
        <5>1. rank[i] \in 0 .. c - 1 /\ rank[j] \in 0 .. c - 1
          BY <1>3
        <5> HIDE DEF rank, picked, c
        <5> QED BY <1>1, <1>2, <5>1
      <4>2. i < j \/ j < i
        BY <4>1
      <4> HIDE DEF rank, picked
      <4> QED BY <1>4, <4>1, <4>2
    <3> HIDE DEF rank, picked, c
    <3> QED BY <2>2, <3>1 DEF Injection, IsInjective
  <2>4. rank \in Surjection(picked, 0 .. c - 1)
    <3> HIDE DEF rank
    <3> QED BY <2>1, <2>3, FS_Injection
  <2> SUFFICES ASSUME NEW k \in 1 .. c
               PROVE  first(k) \in picked /\ rank[first(k)] = k - 1
    OBVIOUS
  <2>5. k - 1 \in 0 .. c - 1
    BY <1>2
  <2>6. PICK i \in picked : rank[i] = k - 1
    <3> HIDE DEF rank, picked, c
    <3> QED BY <2>4, <2>5 DEF Surjection
  <2>7. Cardinality({j \in picked : j < i}) = k - 1
    BY <2>6
  <2> QED BY <2>7
<1>6. Firsts(S, n) = [k \in 1 .. c |-> first(k)]
  BY DEF Firsts
<1>7. ASSUME NEW k \in 1 .. c, NEW j \in S, j < first(k)
      PROVE  \E m \in 1 .. k - 1 : first(m) = j
  <2> DEFINE f == first(k)
  <2>1. f \in picked /\ f \in S /\ f \in Nat /\ rank[f] = k - 1
    BY <1>1, <1>5
  <2>2. j \in picked
    <3> DEFINE J == {x \in S : x < j}
               F == {x \in S : x < f}
    <3>1. j \in Nat /\ j < f
      BY <1>7
    <3>2. Cardinality(J) \in Nat /\ Cardinality(F) \in Nat /\ Cardinality(J) + 1 <= Cardinality(F)
      <4> HIDE DEF f
      <4> QED BY <2>1, <3>1, FewerBelow
    <3>3. Cardinality(F) < n
      BY <2>1
    <3>4. Cardinality(J) < n
      <4> HIDE DEF J, F
      <4> QED BY <3>2, <3>3
    <3> QED BY <3>4
  <2>3. rank[j] < k - 1 /\ rank[j] \in Nat
    <3>1. rank[j] < rank[f]
      <4> HIDE DEF rank, picked
      <4> QED BY <1>4, <1>7, <2>1, <2>2
    <3>2. rank[j] \in 0 .. c - 1
      <4> HIDE DEF rank, picked
      <4> QED BY <1>3, <2>2
    <3> HIDE DEF rank, f, picked, c
    <3> QED BY <1>2, <2>1, <3>1, <3>2
  <2> DEFINE m == rank[j] + 1
  <2>4. m \in 1 .. k - 1 /\ m \in 1 .. c /\ m - 1 = rank[j]
    <3> HIDE DEF rank, c
    <3> QED BY <1>2, <2>3
  <2>5. first(m) \in picked /\ rank[first(m)] = rank[j]
    <3> HIDE DEF rank, first, picked, m, c
    <3> QED BY <1>5, <2>4
  <2>6. first(m) = j
    <3> DEFINE g == first(m)
    <3>1. g \in picked /\ rank[g] = rank[j] /\ g \in Nat /\ j \in Nat /\ rank[j] \in Nat
      BY <1>1, <2>2, <2>3, <2>5
    <3> HIDE DEF g, rank, picked
    <3>2. ~(g < j) /\ ~(j < g)
      BY <1>4, <2>2, <3>1
    <3>3. g = j
      BY <3>1, <3>2
    <3> QED BY <3>3 DEF g
  <2> QED BY <2>4, <2>6
<1>8. [k \in 1 .. c |-> first(k)] \in Seq(S)
  <2>1. \A k \in 1 .. c : first(k) \in S
    BY <1>1, <1>5
  <2> HIDE DEF first, c
  <2> QED BY <1>2, <2>1, IsASeq
<1> HIDE DEF first, c
<1>9. DOMAIN Firsts(S, n) = 1 .. c /\ \A k \in 1 .. c : Firsts(S, n)[k] = first(k)
  BY <1>6
<1>10. ASSUME NEW k \in DOMAIN Firsts(S, n), NEW j \in S, j < Firsts(S, n)[k]
       PROVE  \E m \in 1 .. k - 1 : Firsts(S, n)[m] = j
  <2>1. k \in 1 .. c /\ j < first(k)
    BY <1>9, <1>10
  <2>2. PICK m \in 1 .. k - 1 : first(m) = j
    BY <1>7, <2>1
  <2>3. m \in 1 .. c
    BY <1>2, <2>1
  <2> QED BY <1>9, <2>2, <2>3
<1> QED BY <1>6, <1>8, <1>10

-----------------------------------------------------------------------------
(* The inductive invariant *)

(* The outbox holds events, and every event of an order stands behind all   *)
(* the events of the order's earlier versions; a version comes as a whole.  *)
OutboxInv ==
  /\ outbox \in Seq(Events)
  /\ \A k \in DOMAIN outbox, f \in Events :
       Earlier(f, outbox[k]) => \E j \in 1 .. k - 1 : outbox[j] = f
  /\ \A o \in Order, v \in 1 .. MaxVersion :
       Written(o, v) => \A n \in DOMAIN Topics(v) :
                          \E j \in DOMAIN outbox : outbox[j] = EventsOf(o, v)[n]

(* A round holds positions of the outbox; what precedes one of them is      *)
(* marked or stands before it in the round; what was passed is in the       *)
(* stream.                                                                  *)
RoundInv(r) ==
  /\ round[r].batch \in Seq(DOMAIN outbox)
  /\ round[r].sent \in 0 .. Len(round[r].batch)
  /\ \A k \in DOMAIN round[r].batch : \A j \in DOMAIN outbox :
       j < round[r].batch[k] =>
         j \in marked \/ \E m \in 1 .. k - 1 : round[r].batch[m] = j
  /\ \A k \in 1 .. round[r].sent : Sent(outbox[round[r].batch[k]])

IInv ==
  /\ OutboxInv
  /\ stream \in Seq(Events)
  /\ marked \subseteq DOMAIN outbox
  /\ misses \in 0 .. MaxMisses
  /\ round \in [Relay -> [batch : Seq(Nat), sent : Nat]]
  /\ \A r \in Relay : RoundInv(r)
  /\ MarkedWasSent

(* An event has the fields its type names. *)
LEMMA EventsAreTyped ==
  /\ \A o \in Order, v \in 1 .. MaxVersion : EventsOf(o, v) \in Seq(Events)
  /\ Events \subseteq Event
  /\ \A f \in Events : \E o \in Order, v \in 1 .. MaxVersion : \E n \in DOMAIN Topics(v) :
       f = EventsOf(o, v)[n] /\ f.order = o /\ f.version = v
<1>1. ASSUME NEW o \in Order, NEW v \in 1 .. MaxVersion
      PROVE  /\ DOMAIN EventsOf(o, v) = DOMAIN Topics(v)
             /\ DOMAIN Topics(v) = 1 .. Len(Topics(v)) /\ Len(Topics(v)) \in Nat
             /\ \A n \in DOMAIN Topics(v) :
                  /\ EventsOf(o, v)[n] = [order |-> o, version |-> v, topic |-> Topics(v)[n]]
                  /\ Topics(v)[n] \in STRING
                  /\ EventsOf(o, v)[n] \in Events
  <2>1. Topics(v) \in Seq(STRING)
    BY TopicsAssumption
  <2>2. /\ DOMAIN Topics(v) = 1 .. Len(Topics(v)) /\ Len(Topics(v)) \in Nat
        /\ \A n \in DOMAIN Topics(v) : Topics(v)[n] \in STRING
    BY <2>1
  <2>3. /\ DOMAIN EventsOf(o, v) = DOMAIN Topics(v)
        /\ \A n \in DOMAIN Topics(v) :
             EventsOf(o, v)[n] = [order |-> o, version |-> v, topic |-> Topics(v)[n]]
    BY DEF EventsOf
  <2>4. ASSUME NEW n \in DOMAIN Topics(v)
        PROVE  EventsOf(o, v)[n] \in Events
    <3> DEFINE Those(p, w) == {EventsOf(p, w)[k] : k \in DOMAIN Topics(w)}
    <3>1. EventsOf(o, v)[n] \in Those(o, v)
      OBVIOUS
    <3>2. Those(o, v) \in {Those(p, w) : p \in Order, w \in 1 .. MaxVersion}
      <4> HIDE DEF Those
      <4> QED OBVIOUS
    <3>3. Events = UNION {Those(p, w) : p \in Order, w \in 1 .. MaxVersion}
      BY DEF Events
    <3> HIDE DEF Those
    <3> QED BY <3>1, <3>2, <3>3
  <2> QED BY <2>2, <2>3, <2>4
<1>2. ASSUME NEW f \in Events
      PROVE  \E o \in Order, v \in 1 .. MaxVersion : \E n \in DOMAIN Topics(v) :
               f = EventsOf(o, v)[n]
  BY DEF Events
<1>3. ASSUME NEW o \in Order, NEW v \in 1 .. MaxVersion
      PROVE  EventsOf(o, v) \in Seq(Events)
  <2>1. EventsOf(o, v) \in [1 .. Len(Topics(v)) -> Events]
    <3>1. EventsOf(o, v) = [n \in DOMAIN Topics(v) |-> [order |-> o, version |-> v, topic |-> Topics(v)[n]]]
      BY DEF EventsOf
    <3>2. \A n \in DOMAIN Topics(v) :
            [order |-> o, version |-> v, topic |-> Topics(v)[n]] \in Events
      BY <1>1
    <3>3. DOMAIN Topics(v) = 1 .. Len(Topics(v))
      BY <1>1
    <3> QED BY <3>1, <3>2, <3>3
  <2>2. Len(Topics(v)) \in Nat
    BY <1>1
  <2> QED BY <2>1, <2>2, SeqDef
<1>4. Events \subseteq Event
  <2> SUFFICES ASSUME NEW f \in Events PROVE f \in Event
    OBVIOUS
  <2>1. PICK o \in Order, v \in 1 .. MaxVersion : \E n \in DOMAIN Topics(v) :
               f = EventsOf(o, v)[n]
    BY <1>2
  <2>2. PICK n \in DOMAIN Topics(v) : f = EventsOf(o, v)[n]
    BY <2>1
  <2>3. f = [order |-> o, version |-> v, topic |-> Topics(v)[n]] /\ Topics(v)[n] \in STRING
    BY <1>1, <2>2
  <2> QED BY <2>3 DEF Event
<1>5. ASSUME NEW f \in Events
      PROVE  \E o \in Order, v \in 1 .. MaxVersion : \E n \in DOMAIN Topics(v) :
               f = EventsOf(o, v)[n] /\ f.order = o /\ f.version = v
  <2>1. PICK o \in Order, v \in 1 .. MaxVersion : \E n \in DOMAIN Topics(v) :
               f = EventsOf(o, v)[n]
    BY <1>2
  <2>2. PICK n \in DOMAIN Topics(v) : f = EventsOf(o, v)[n]
    BY <2>1
  <2>3. f = [order |-> o, version |-> v, topic |-> Topics(v)[n]]
    BY <1>1, <2>2
  <2>4. f.order = o /\ f.version = v
    BY <2>3
  <2> QED BY <2>2, <2>4
<1> QED BY <1>3, <1>4, <1>5

(* What the stream has, it keeps. *)
LEMMA SentStays ==
  ASSUME stream \in Seq(Events), NEW e \in Events,
         stream' = stream \/ stream' = Append(stream, e)
  PROVE  /\ stream' \in Seq(Events)
         /\ \A f : Sent(f) => Sent(f)'
         /\ stream' = Append(stream, e) => Sent(e)'
<1>1. CASE stream' = stream
  <2>1. stream' = Append(stream, e) => FALSE
    <3>1. Len(Append(stream, e)) = Len(stream) + 1 /\ Len(stream) \in Nat
      OBVIOUS
    <3> QED BY <1>1, <3>1
  <2> QED BY <1>1, <2>1 DEF Sent
<1>2. CASE stream' = Append(stream, e)
  <2>1. /\ stream' \in Seq(Events) /\ Len(stream) \in Nat
        /\ DOMAIN stream = 1 .. Len(stream) /\ DOMAIN stream' = 1 .. Len(stream) + 1
        /\ \A i \in 1 .. Len(stream) : stream'[i] = stream[i]
        /\ stream'[Len(stream) + 1] = e
    BY <1>2
  <2>2. \A i \in DOMAIN stream : i \in DOMAIN stream' /\ stream'[i] = stream[i]
    BY <2>1
  <2>3. Len(stream) + 1 \in DOMAIN stream'
    BY <2>1
  <2> QED BY <2>1, <2>2, <2>3 DEF Sent
<1> QED BY <1>1, <1>2

LEMMA InitInv == RelayInit => IInv
<1> SUFFICES ASSUME RelayInit PROVE IInv
  OBVIOUS
<1>1. outbox = <<>> /\ stream = <<>> /\ marked = {} /\ misses = 0
      /\ round = [r \in Relay |-> Resting]
  BY DEF RelayInit, Init
<1>2. OutboxInv
  BY <1>1 DEF OutboxInv, Written
<1>3. ASSUME NEW r \in Relay
      PROVE  RoundInv(r)
  <2>1. round[r].batch = <<>> /\ round[r].sent = 0
    BY <1>1 DEF Resting
  <2>2. DOMAIN round[r].batch = {} /\ Len(round[r].batch) = 0
    BY <2>1
  <2>3. round[r].batch \in Seq(DOMAIN outbox)
    BY <2>1
  <2> QED BY <2>1, <2>2, <2>3 DEF RoundInv
<1>4. round \in [Relay -> [batch : Seq(Nat), sent : Nat]]
  BY <1>1 DEF Resting
<1> QED BY <1>1, <1>2, <1>3, <1>4, RelayAssumption DEF IInv, MarkedWasSent

-----------------------------------------------------------------------------
(* Every step keeps the invariant *)

(* A relay that does not move keeps its round right, whatever the others    *)
(* and the writers of orders do meanwhile.                                  *)
LEMMA RoundKept ==
  ASSUME NEW r \in Relay, IInv, round'[r] = round[r],
         outbox' \in Seq(Events), Len(outbox) <= Len(outbox'),
         \A k \in DOMAIN outbox : outbox'[k] = outbox[k],
         marked \subseteq marked', \A f : Sent(f) => Sent(f)'
  PROVE  RoundInv(r)'
<1> DEFINE b == round[r].batch
<1>1. /\ outbox \in Seq(Events) /\ DOMAIN outbox = 1 .. Len(outbox) /\ Len(outbox) \in Nat
      /\ DOMAIN outbox' = 1 .. Len(outbox') /\ Len(outbox') \in Nat
  BY DEF IInv, OutboxInv
<1>2. DOMAIN outbox \subseteq DOMAIN outbox'
  BY <1>1
<1>3. /\ b \in Seq(DOMAIN outbox) /\ DOMAIN b = 1 .. Len(b) /\ Len(b) \in Nat
      /\ \A k \in DOMAIN b : b[k] \in DOMAIN outbox
      /\ round[r].sent \in 0 .. Len(b)
      /\ \A k \in DOMAIN b : \A j \in DOMAIN outbox :
           j < b[k] => j \in marked \/ \E m \in 1 .. k - 1 : b[m] = j
      /\ \A k \in 1 .. round[r].sent : Sent(outbox[b[k]])
  <2>1. RoundInv(r)
    BY DEF IInv
  <2>2. b \in Seq(DOMAIN outbox) /\ round[r].sent \in 0 .. Len(b)
    BY <2>1 DEF RoundInv
  <2>3. /\ \A k \in DOMAIN b : \A j \in DOMAIN outbox :
             j < b[k] => j \in marked \/ \E m \in 1 .. k - 1 : b[m] = j
        /\ \A k \in 1 .. round[r].sent : Sent(outbox[b[k]])
    BY <2>1 DEF RoundInv
  <2> HIDE DEF b
  <2>4. DOMAIN b = 1 .. Len(b) /\ Len(b) \in Nat /\ \A k \in DOMAIN b : b[k] \in DOMAIN outbox
    BY <2>2
  <2> QED BY <2>2, <2>3, <2>4
<1>4. b \in Seq(DOMAIN outbox')
  BY <1>2, <1>3
<1>5. ASSUME NEW k \in DOMAIN b, NEW j \in DOMAIN outbox', j < b[k]
      PROVE  j \in marked' \/ \E m \in 1 .. k - 1 : b[m] = j
  <2>1. j \in DOMAIN outbox
    BY <1>1, <1>3, <1>5
  <2> QED BY <1>3, <1>5, <2>1
<1>6. ASSUME NEW k \in 1 .. round[r].sent
      PROVE  \E i \in DOMAIN stream' : stream'[i] = outbox'[b[k]]
  <2>1. k \in DOMAIN b /\ b[k] \in DOMAIN outbox /\ outbox'[b[k]] = outbox[b[k]]
    BY <1>3
  <2>2. Sent(outbox[b[k]])
    BY <1>3
  <2>3. PICK i \in DOMAIN stream' : stream'[i] = outbox[b[k]]
    BY <2>2 DEF Sent
  <2> QED BY <2>1, <2>3
<1> HIDE DEF b
<1>7. round'[r].batch = b /\ round'[r].sent = round[r].sent
  BY DEF b
<1> QED BY <1>3, <1>4, <1>5, <1>6, <1>7 DEF RoundInv, Sent

(* A relay sends an event that the feed allows. *)
LEMMA XaddFeeds ==
  ASSUME NEW r \in Relay, IInv, Publishing(r), Xadd(r)
  PROVE  /\ round[r].sent + 1 \in DOMAIN round[r].batch
         /\ outbox[round[r].batch[round[r].sent + 1]] \in Events
         /\ stream' = Append(stream, outbox[round[r].batch[round[r].sent + 1]])
         /\ Next
<1> DEFINE b == round[r].batch
           n == round[r].sent + 1
           e == outbox[b[n]]
<1>1. /\ outbox \in Seq(Events) /\ DOMAIN outbox = 1 .. Len(outbox) /\ Len(outbox) \in Nat
      /\ b \in Seq(DOMAIN outbox) /\ DOMAIN b = 1 .. Len(b) /\ Len(b) \in Nat
      /\ round[r].sent \in 0 .. Len(b) /\ round[r].sent < Len(b)
  BY DEF IInv, OutboxInv, RoundInv, Publishing
<1>2. n \in DOMAIN b /\ n - 1 = round[r].sent
  BY <1>1
<1>3. b[n] \in DOMAIN outbox /\ b[n] \in Nat
  <2> HIDE DEF b, n
  <2>1. b \in Seq(DOMAIN outbox) /\ n \in 1 .. Len(b)
    BY <1>1, <1>2
  <2>2. b[n] \in DOMAIN outbox
    BY <2>1
  <2> QED BY <1>1, <2>2
<1>4. e \in Events
  BY <1>1, <1>3
<1>5. ASSUME NEW f \in Events, Earlier(f, e)
      PROVE  Sent(f)
  <2>1. PICK j \in 1 .. b[n] - 1 : outbox[j] = f
    BY <1>3, <1>5 DEF IInv, OutboxInv
  <2>2. j \in DOMAIN outbox /\ j < b[n]
    BY <1>1, <1>3
  <2>3. CASE j \in marked
    BY <2>1, <2>3 DEF IInv, MarkedWasSent
  <2>4. CASE \E m \in 1 .. n - 1 : b[m] = j
    <3>1. PICK m \in 1 .. round[r].sent : b[m] = j
      BY <1>2, <2>4
    <3>2. Sent(outbox[b[m]])
      BY DEF IInv, RoundInv
    <3> QED BY <2>1, <3>1, <3>2
  <2> QED BY <1>2, <2>2, <2>3, <2>4 DEF IInv, RoundInv
<1>6. stream' = Append(stream, e)
  BY DEF Xadd
<1> HIDE DEF e
<1>7. Next
  BY <1>4, <1>5, <1>6 DEF Next, Add
<1> QED BY <1>2, <1>4, <1>6, <1>7 DEF e

LEMMA RestingIsRight ==
  ASSUME NEW r \in Relay, round'[r] = Resting
  PROVE  RoundInv(r)'
<1>1. round'[r].batch = <<>> /\ round'[r].sent = 0
  BY DEF Resting
<1>2. DOMAIN round'[r].batch = {} /\ Len(round'[r].batch) = 0
  BY <1>1
<1>3. round'[r].batch \in Seq(DOMAIN outbox')
  BY <1>1
<1> QED BY <1>1, <1>2, <1>3 DEF RoundInv

(* The events of one more version of an order. *)
LEMMA WriteKeeps ==
  ASSUME IInv, NEW o \in Order, NEW v \in 1 .. MaxVersion, Write(o, v)
  PROVE  /\ OutboxInv'
         /\ Len(outbox) <= Len(outbox')
         /\ \A k \in DOMAIN outbox : outbox'[k] = outbox[k]
<1> DEFINE new == EventsOf(o, v)
<1>1. /\ outbox \in Seq(Events) /\ DOMAIN outbox = 1 .. Len(outbox) /\ Len(outbox) \in Nat
      /\ new \in Seq(Events) /\ DOMAIN new = 1 .. Len(new) /\ Len(new) \in Nat
  BY EventsAreTyped DEF IInv, OutboxInv
<1>2. outbox' = outbox \o new
  BY DEF Write
<1>3. \A n \in DOMAIN new : new[n].order = o /\ new[n].version = v
  BY DEF EventsOf
<1> HIDE DEF new
<1>4. /\ outbox' \in Seq(Events) /\ Len(outbox') = Len(outbox) + Len(new)
      /\ DOMAIN outbox' = 1 .. Len(outbox) + Len(new)
      /\ \A k \in 1 .. Len(outbox) : outbox'[k] = outbox[k]
      /\ \A n \in 1 .. Len(new) : outbox'[Len(outbox) + n] = new[n]
  BY <1>1, <1>2, ConcatProperties
<1>5. \A k \in DOMAIN outbox' :
        k \in DOMAIN outbox \/ \E n \in DOMAIN new : k = Len(outbox) + n
  <2> SUFFICES ASSUME NEW k \in DOMAIN outbox', k \notin DOMAIN outbox
               PROVE  \E n \in DOMAIN new : k = Len(outbox) + n
    OBVIOUS
  <2>1. k - Len(outbox) \in DOMAIN new /\ k = Len(outbox) + (k - Len(outbox))
    BY <1>1, <1>4
  <2> QED BY <2>1
<1>6. ASSUME NEW k \in DOMAIN outbox', NEW f \in Events, Earlier(f, outbox'[k])
      PROVE  \E j \in 1 .. k - 1 : outbox'[j] = f
  <2>1. CASE k \in DOMAIN outbox
    <3>1. Earlier(f, outbox[k])
      BY <1>1, <1>4, <1>6, <2>1
    <3>2. PICK j \in 1 .. k - 1 : outbox[j] = f
      BY <2>1, <3>1 DEF IInv, OutboxInv
    <3>3. j \in 1 .. Len(outbox)
      BY <1>1, <2>1
    <3> QED BY <1>4, <3>2, <3>3
  <2>2. CASE \E n \in DOMAIN new : k = Len(outbox) + n
    <3>1. PICK n \in DOMAIN new : k = Len(outbox) + n
      BY <2>2
    <3>2. outbox'[k] = new[n]
      BY <1>1, <1>4, <3>1
    <3>3. f.order = o /\ f.version < v
      BY <1>3, <1>6, <3>2 DEF Earlier
    <3>4. PICK p \in Order, w \in 1 .. MaxVersion : \E i \in DOMAIN Topics(w) :
            f = EventsOf(p, w)[i] /\ f.order = p /\ f.version = w
      BY EventsAreTyped
    <3>5. p = o /\ w \in 1 .. v - 1
      BY <3>3, <3>4, TopicsAssumption
    <3>6. Written(o, w)
      BY <3>5 DEF Write
    <3>7. PICK j \in DOMAIN outbox : outbox[j] = f
      BY <3>4, <3>5, <3>6 DEF IInv, OutboxInv
    <3>8. j \in 1 .. k - 1 /\ j \in 1 .. Len(outbox)
      BY <1>1, <3>1
    <3> QED BY <1>4, <3>7, <3>8
  <2> QED BY <1>5, <2>1, <2>2
<1>7. ASSUME NEW p \in Order, NEW w \in 1 .. MaxVersion,
             \E k \in DOMAIN outbox' : outbox'[k].order = p /\ outbox'[k].version = w,
             NEW i \in DOMAIN Topics(w)
      PROVE  \E j \in DOMAIN outbox' : outbox'[j] = EventsOf(p, w)[i]
  <2>1. PICK k \in DOMAIN outbox' : outbox'[k].order = p /\ outbox'[k].version = w
    BY <1>7
  <2>2. CASE k \in DOMAIN outbox
    <3>1. Written(p, w)
      BY <1>1, <1>4, <2>1, <2>2 DEF Written
    <3>2. PICK j \in DOMAIN outbox : outbox[j] = EventsOf(p, w)[i]
      BY <3>1 DEF IInv, OutboxInv
    <3>3. j \in DOMAIN outbox' /\ outbox'[j] = outbox[j]
      BY <1>1, <1>4
    <3> QED BY <3>2, <3>3
  <2>3. CASE \E n \in DOMAIN new : k = Len(outbox) + n
    <3>1. PICK n \in DOMAIN new : k = Len(outbox) + n
      BY <2>3
    <3>2. p = o /\ w = v
      BY <1>1, <1>3, <1>4, <2>1, <3>1
    <3>3. i \in DOMAIN new /\ new = EventsOf(p, w)
      BY <3>2 DEF new, EventsOf
    <3>4. Len(outbox) + i \in DOMAIN outbox' /\ outbox'[Len(outbox) + i] = new[i]
      BY <1>1, <1>4, <3>3
    <3> QED BY <3>3, <3>4
  <2> QED BY <1>5, <2>2, <2>3
<1>8. OutboxInv'
  BY <1>4, <1>6, <1>7 DEF OutboxInv, Written
<1> QED BY <1>1, <1>4, <1>8

(* A new round: the first of the unmarked events. *)
LEMMA ReadKeeps ==
  ASSUME IInv, NEW r \in Relay, ReadPending(r)
  PROVE  RoundInv(r)' /\ round' \in [Relay -> [batch : Seq(Nat), sent : Nat]]
<1> DEFINE b == Firsts(Unpublished, BatchSize)
<1>1. /\ DOMAIN outbox = 1 .. Len(outbox) /\ Len(outbox) \in Nat
      /\ BatchSize \in Nat /\ round \in [Relay -> [batch : Seq(Nat), sent : Nat]]
  BY RelayAssumption DEF IInv, OutboxInv
<1>2. /\ Unpublished \in SUBSET DOMAIN outbox /\ Unpublished \in SUBSET Nat
      /\ IsFiniteSet(DOMAIN outbox)
  <2>1. IsFiniteSet(1 .. Len(outbox))
    BY <1>1, FS_Interval
  <2> QED BY <1>1, <2>1 DEF Unpublished
<1>3. IsFiniteSet(Unpublished)
  BY <1>2, FS_Subset
<1>4. /\ b \in Seq(Unpublished)
      /\ \A k \in DOMAIN b : \A j \in Unpublished :
           j < b[k] => \E m \in 1 .. k - 1 : b[m] = j
  BY <1>1, <1>2, <1>3, FirstsAscend
<1> HIDE DEF b
<1>5. b \in Seq(DOMAIN outbox) /\ b \in Seq(Nat) /\ Len(b) \in Nat
  BY <1>2, <1>4, SeqMonotonic
<1>6. /\ round' = [round EXCEPT ![r].batch = b]
      /\ round[r].sent = 0 /\ outbox' = outbox /\ marked' = marked /\ stream' = stream
  BY DEF ReadPending, Resting, b
<1>7. round'[r].batch = b /\ round'[r].sent = 0
  BY <1>1, <1>6
<1>8. round' \in [Relay -> [batch : Seq(Nat), sent : Nat]]
  BY <1>1, <1>5, <1>6
<1>9. \A k \in DOMAIN b : \A j \in DOMAIN outbox :
        j < b[k] => j \in marked \/ \E m \in 1 .. k - 1 : b[m] = j
  BY <1>4 DEF Unpublished
<1>10. RoundInv(r)'
  BY <1>5, <1>6, <1>7, <1>9 DEF RoundInv
<1> QED BY <1>8, <1>10

(* One event more, or its failure: the round of the relay that sends.       *)
LEMMA PublishKeeps ==
  ASSUME IInv, NEW r \in Relay, Publish(r) \/ PublishFails(r)
  PROVE  /\ RoundInv(r)' /\ stream' \in Seq(Events) /\ \A f : Sent(f) => Sent(f)'
         /\ round' \in [Relay -> [batch : Seq(Nat), sent : Nat]]
         /\ misses' \in 0 .. MaxMisses
<1> DEFINE b == round[r].batch
           n == round[r].sent
           e == outbox[b[n + 1]]
<1>1. /\ outbox \in Seq(Events) /\ DOMAIN outbox = 1 .. Len(outbox) /\ Len(outbox) \in Nat
      /\ b \in Seq(DOMAIN outbox) /\ DOMAIN b = 1 .. Len(b) /\ Len(b) \in Nat
      /\ b \in Seq(Nat) /\ n \in 0 .. Len(b) /\ n < Len(b)
      /\ \A k \in DOMAIN b : b[k] \in DOMAIN outbox
      /\ \A k \in DOMAIN b : \A j \in DOMAIN outbox :
           j < b[k] => j \in marked \/ \E m \in 1 .. k - 1 : b[m] = j
      /\ \A k \in 1 .. n : Sent(outbox[b[k]])
      /\ stream \in Seq(Events)
      /\ round \in [Relay -> [batch : Seq(Nat), sent : Nat]]
  BY DEF IInv, OutboxInv, RoundInv, Publish, PublishFails, Publishing
<1>2. outbox' = outbox /\ marked' = marked
  BY DEF Publish, PublishFails
<1>3. e \in Events
  <2>1. n + 1 \in DOMAIN b
    BY <1>1
  <2> QED BY <1>1, <2>1
<1>4. stream' = stream \/ stream' = Append(stream, e)
  BY DEF Publish, PublishFails, Xadd
<1> HIDE DEF e
<1>5. PICK x \in Events : x = e
  BY <1>3
<1>8. /\ stream' \in Seq(Events) /\ \A f : Sent(f) => Sent(f)'
      /\ stream' = Append(stream, x) => Sent(x)'
  <2>1. stream \in Seq(Events) /\ (stream' = stream \/ stream' = Append(stream, x))
    BY <1>1, <1>4, <1>5
  <2> QED BY <2>1, SentStays
<1>6. CASE Publish(r)
  <2>1. stream' = Append(stream, e)
    BY <1>6 DEF Publish, Xadd, e
  <2>2. round'[r].batch = b /\ round'[r].sent = n + 1
    BY <1>1, <1>6 DEF Publish
  <2>3. ASSUME NEW k \in 1 .. n + 1
        PROVE  Sent(outbox[b[k]])'
    <3>1. CASE k \in 1 .. n
      <4>1. Sent(outbox[b[k]])
        BY <1>1, <3>1
      <4>2. PICK i \in DOMAIN stream' : stream'[i] = outbox[b[k]]
        BY <1>8, <4>1 DEF Sent
      <4>3. \E j \in DOMAIN stream' : stream'[j] = outbox'[b'[k]]
        <5>1. round'[r].batch[k] = b[k]
          BY <2>2
        <5> QED BY <1>2, <4>2, <5>1
      <4> QED BY <4>3 DEF Sent
    <3>2. CASE k = n + 1
      <4>1. PICK i \in DOMAIN stream' : stream'[i] = e
        BY <1>5, <1>8, <2>1 DEF Sent
      <4>2. outbox'[b'[k]] = e
        BY <1>2, <2>2, <3>2 DEF e
      <4> QED BY <4>1, <4>2 DEF Sent
    <3> QED BY <1>1, <3>1, <3>2
  <2>4. RoundInv(r)'
    <3>1. \A k \in 1 .. round'[r].sent : \E i \in DOMAIN stream' : stream'[i] = outbox'[round'[r].batch[k]]
      BY <2>2, <2>3 DEF Sent
    <3>2. n + 1 \in 0 .. Len(b)
      BY <1>1
    <3> HIDE DEF b, n
    <3> QED BY <1>1, <1>2, <2>2, <3>1, <3>2 DEF RoundInv, Sent
  <2>5. round' \in [Relay -> [batch : Seq(Nat), sent : Nat]]
    <3>1. round' = [round EXCEPT ![r].sent = n + 1] /\ n + 1 \in Nat
      BY <1>1, <1>6 DEF Publish
    <3> HIDE DEF n, b
    <3> QED BY <1>1, <3>1
  <2>6. misses' \in 0 .. MaxMisses
    BY <1>6 DEF Publish, IInv
  <2> QED BY <1>8, <2>4, <2>5, <2>6
<1>7. CASE PublishFails(r)
  <2> DEFINE c == SubSeq(b, 1, n)
  <2>1. round' = [round EXCEPT ![r] = [round[r] EXCEPT !.batch = c]]
    BY <1>7 DEF PublishFails, Stopped
  <2>2. /\ c \in Seq(DOMAIN outbox) /\ c \in Seq(Nat) /\ Len(c) = n /\ DOMAIN c = 1 .. n
        /\ \A k \in 1 .. n : c[k] = b[k]
    <3>1. 1 \in 1 .. Len(b) + 1 /\ n \in 1 - 1 .. Len(b) /\ n \in Nat
      BY <1>1
    <3> HIDE DEF b, n
    <3>2. c \in Seq(DOMAIN outbox) /\ Len(c) = n /\ \A k \in 1 .. n : c[k] = b[k]
      BY <1>1, <3>1
    <3>3. DOMAIN c = 1 .. n
      BY <3>1, <3>2
    <3>4. DOMAIN outbox \subseteq Nat
      BY <1>1
    <3> HIDE DEF c
    <3> QED BY <3>2, <3>3, <3>4, SeqMonotonic
  <2> HIDE DEF c
  <2>3. round'[r].batch = c /\ round'[r].sent = n
    BY <1>1, <2>1
  <2>4. \A k \in 1 .. n : \A j \in DOMAIN outbox :
          j < c[k] => j \in marked \/ \E m \in 1 .. k - 1 : c[m] = j
    <3> SUFFICES ASSUME NEW k \in 1 .. n, NEW j \in DOMAIN outbox, j < c[k], j \notin marked
                 PROVE  \E m \in 1 .. k - 1 : c[m] = j
      OBVIOUS
    <3>1. k \in DOMAIN b
      BY <1>1
    <3>2. PICK m \in 1 .. k - 1 : b[m] = j
      BY <1>1, <2>2, <3>1
    <3>3. m \in 1 .. n
      BY <1>1
    <3> QED BY <2>2, <3>2, <3>3
  <2>5. \A k \in 1 .. n : \E i \in DOMAIN stream' : stream'[i] = outbox'[c[k]]
    <3> SUFFICES ASSUME NEW k \in 1 .. n
                 PROVE  \E i \in DOMAIN stream' : stream'[i] = outbox[b[k]]
      BY <1>2, <2>2
    <3>1. Sent(outbox[b[k]])
      BY <1>1
    <3> QED BY <1>8, <3>1 DEF Sent
  <2>6. RoundInv(r)'
    <3>1. n \in 0 .. n
      BY <1>1
    <3> HIDE DEF n, b
    <3> QED BY <1>2, <2>2, <2>3, <2>4, <2>5, <3>1 DEF RoundInv, Sent
  <2>7. round' \in [Relay -> [batch : Seq(Nat), sent : Nat]]
    BY <1>1, <2>1, <2>2
  <2>8. misses' \in 0 .. MaxMisses
    BY <1>7, RelayAssumption DEF PublishFails, Misses, IInv
  <2> QED BY <1>8, <2>6, <2>7, <2>8
<1> QED BY <1>6, <1>7

(* The mark: a round that sent all of its batch marks only what was sent.   *)
LEMMA MarkKeeps ==
  ASSUME IInv, NEW r \in Relay, MarkPublished(r)
  PROVE  /\ marked \subseteq marked' /\ marked' \subseteq DOMAIN outbox'
         /\ \A k \in marked' : Sent(outbox[k])
<1> DEFINE b == round[r].batch
<1>1. /\ b \in Seq(DOMAIN outbox) /\ DOMAIN b = 1 .. Len(b) /\ Len(b) \in Nat
      /\ round[r].sent \in 0 .. Len(b) /\ ~(round[r].sent < Len(b))
      /\ \A k \in 1 .. round[r].sent : Sent(outbox[b[k]])
      /\ outbox' = outbox /\ marked' = marked \cup {b[k] : k \in DOMAIN b}
  BY DEF IInv, RoundInv, MarkPublished, Publishing
<1>2. \A k \in DOMAIN b : b[k] \in DOMAIN outbox /\ Sent(outbox[b[k]])
  <2>1. round[r].sent = Len(b)
    BY <1>1
  <2> QED BY <1>1, <2>1
<1> HIDE DEF b
<1> QED BY <1>1, <1>2 DEF IInv, MarkedWasSent

(* A step of one relay leaves the rounds of the others as they are. *)
LEMMA OthersRest ==
  ASSUME IInv, NEW r \in Relay, Relays(r) \/ PublishFails(r) \/ RelayDies(r)
  PROVE  /\ outbox' = outbox
         /\ \A q \in Relay : q # r => round'[q] = round[q]
<1>1. round \in [Relay -> [batch : Seq(Nat), sent : Nat]]
  BY DEF IInv
<1>2. CASE ReadPending(r)
  BY <1>1, <1>2 DEF ReadPending
<1>3. CASE Publish(r)
  BY <1>1, <1>3 DEF Publish
<1>4. CASE MarkPublished(r)
  BY <1>1, <1>4 DEF MarkPublished
<1>5. CASE PublishFails(r)
  BY <1>1, <1>5 DEF PublishFails
<1>6. CASE RelayDies(r)
  BY <1>1, <1>6 DEF RelayDies
<1> QED BY <1>2, <1>3, <1>4, <1>5, <1>6 DEF Relays

(* A step of a relay keeps the parts of the invariant. *)
LEMMA RelayKeeps ==
  ASSUME IInv, NEW r \in Relay, Relays(r) \/ PublishFails(r) \/ RelayDies(r)
  PROVE  /\ stream' \in Seq(Events)
         /\ \A f : Sent(f) => Sent(f)'
         /\ marked \subseteq marked' /\ marked' \subseteq DOMAIN outbox
         /\ \A k \in marked' : Sent(outbox[k]) \/ k \in marked
         /\ misses' \in 0 .. MaxMisses
         /\ round' \in [Relay -> [batch : Seq(Nat), sent : Nat]]
         /\ RoundInv(r)'
<1>1. /\ stream \in Seq(Events) /\ marked \subseteq DOMAIN outbox /\ misses \in 0 .. MaxMisses
      /\ round \in [Relay -> [batch : Seq(Nat), sent : Nat]]
      /\ outbox' = outbox
  BY OthersRest DEF IInv
<1>2. Resting \in [batch : Seq(Nat), sent : Nat]
  BY DEF Resting
<1>3. CASE ReadPending(r)
  <2>1. RoundInv(r)' /\ round' \in [Relay -> [batch : Seq(Nat), sent : Nat]]
    BY <1>3, ReadKeeps
  <2>2. stream' = stream /\ marked' = marked /\ misses' = misses
    BY <1>3 DEF ReadPending
  <2> QED BY <1>1, <2>1, <2>2 DEF Sent
<1>4. CASE Publish(r) \/ PublishFails(r)
  <2>1. marked' = marked
    BY <1>4 DEF Publish, PublishFails
  <2> QED BY <1>1, <1>4, <2>1, PublishKeeps
<1>5. CASE MarkPublished(r)
  <2>1. round' = [round EXCEPT ![r] = Resting] /\ stream' = stream /\ misses' = misses
    BY <1>5 DEF MarkPublished
  <2>2. round'[r] = Resting /\ round' \in [Relay -> [batch : Seq(Nat), sent : Nat]]
    BY <1>1, <1>2, <2>1
  <2>3. RoundInv(r)'
    BY <2>2, RestingIsRight
  <2> QED BY <1>1, <1>5, <2>1, <2>2, <2>3, MarkKeeps DEF Sent
<1>6. CASE RelayDies(r)
  <2>1. /\ round' = [round EXCEPT ![r] = Resting] /\ stream' = stream /\ marked' = marked
        /\ misses' \in 0 .. MaxMisses
    BY <1>1, <1>6, RelayAssumption DEF RelayDies, Misses
  <2>2. round'[r] = Resting /\ round' \in [Relay -> [batch : Seq(Nat), sent : Nat]]
    BY <1>1, <1>2, <2>1
  <2>3. RoundInv(r)'
    BY <2>2, RestingIsRight
  <2> QED BY <1>1, <2>1, <2>2, <2>3 DEF Sent
<1> QED BY <1>3, <1>4, <1>5, <1>6 DEF Relays

LEMMA StepKeeps == IInv /\ [RelayNext]_vars => IInv'
<1> SUFFICES ASSUME IInv, [RelayNext]_vars PROVE IInv'
  OBVIOUS
<1>1. ASSUME NEW o \in Order, NEW v \in 1 .. MaxVersion, Write(o, v)
      PROVE  IInv'
  <2>1. /\ OutboxInv' /\ Len(outbox) <= Len(outbox')
        /\ \A k \in DOMAIN outbox : outbox'[k] = outbox[k]
    BY <1>1, WriteKeeps
  <2>2. /\ stream' = stream /\ marked' = marked /\ round' = round /\ misses' = misses
    BY <1>1 DEF Write
  <2>3. outbox \in Seq(Events) /\ outbox' \in Seq(Events)
    BY <2>1 DEF IInv, OutboxInv
  <2>4. DOMAIN outbox \subseteq DOMAIN outbox'
    <3>1. /\ DOMAIN outbox = 1 .. Len(outbox) /\ Len(outbox) \in Nat
          /\ DOMAIN outbox' = 1 .. Len(outbox') /\ Len(outbox') \in Nat
      BY <2>3
    <3> QED BY <2>1, <3>1
  <2>5. \A f : Sent(f) => Sent(f)'
    BY <2>2 DEF Sent
  <2>6. \A r \in Relay : RoundInv(r)'
    BY <2>1, <2>2, <2>3, <2>5, RoundKept
  <2>7. \A k \in marked' : \E i \in DOMAIN stream' : stream'[i] = outbox'[k]
    BY <2>1, <2>2 DEF IInv, MarkedWasSent, Sent
  <2>8. MarkedWasSent'
    BY <2>7 DEF MarkedWasSent, Sent
  <2> QED BY <2>1, <2>2, <2>4, <2>6, <2>8 DEF IInv
<1>2. ASSUME NEW r \in Relay, Relays(r) \/ PublishFails(r) \/ RelayDies(r)
      PROVE  IInv'
  <2>1. /\ outbox' = outbox
        /\ \A q \in Relay : q # r => round'[q] = round[q]
    BY <1>2, OthersRest
  <2>2. /\ stream' \in Seq(Events)
        /\ \A f : Sent(f) => Sent(f)'
        /\ marked \subseteq marked' /\ marked' \subseteq DOMAIN outbox
        /\ \A k \in marked' : Sent(outbox[k]) \/ k \in marked
        /\ misses' \in 0 .. MaxMisses
        /\ round' \in [Relay -> [batch : Seq(Nat), sent : Nat]]
        /\ RoundInv(r)'
    BY <1>2, RelayKeeps
  <2>3. OutboxInv'
    <3>1. \A k \in DOMAIN outbox', f \in Events :
            Earlier(f, outbox'[k]) => \E j \in 1 .. k - 1 : outbox'[j] = f
      BY <2>1 DEF IInv, OutboxInv
    <3>2. ASSUME NEW o \in Order, NEW v \in 1 .. MaxVersion, Written(o, v)'
          PROVE  \A n \in DOMAIN Topics(v) : \E j \in DOMAIN outbox' : outbox'[j] = EventsOf(o, v)[n]
      <4>1. Written(o, v)
        BY <2>1, <3>2 DEF Written
      <4> QED BY <2>1, <4>1 DEF IInv, OutboxInv
    <3>3. outbox' \in Seq(Events)
      BY <2>1 DEF IInv, OutboxInv
    <3> QED BY <3>1, <3>2, <3>3 DEF OutboxInv
  <2>4. outbox' \in Seq(Events) /\ Len(outbox) \in Nat
    BY <2>1 DEF IInv, OutboxInv
  <2>5. ASSUME NEW q \in Relay, q # r
        PROVE  RoundInv(q)'
    <3>1. round'[q] = round[q] /\ Len(outbox) <= Len(outbox')
      BY <2>1, <2>4, <2>5
    <3> QED BY <2>1, <2>2, <2>4, <3>1, RoundKept
  <2>6. \A k \in marked' : \E i \in DOMAIN stream' : stream'[i] = outbox'[k]
    <3>1. \A k \in marked' : Sent(outbox[k])
      BY <2>2 DEF IInv, MarkedWasSent
    <3> QED BY <2>1, <2>2, <3>1 DEF Sent
  <2>7. MarkedWasSent'
    BY <2>6 DEF MarkedWasSent, Sent
  <2> QED BY <2>1, <2>2, <2>3, <2>5, <2>7 DEF IInv
<1>3. CASE UNCHANGED vars
  <2>1. /\ outbox' = outbox /\ stream' = stream /\ marked' = marked /\ round' = round
        /\ misses' = misses
    BY <1>3 DEF vars
  <2>2. OutboxInv'
    BY <2>1 DEF IInv, OutboxInv, Written
  <2>3. \A r \in Relay : RoundInv(r)'
    BY <2>1 DEF IInv, RoundInv, Sent
  <2> QED BY <2>1, <2>2, <2>3 DEF IInv, MarkedWasSent, Sent
<1> QED BY <1>1, <1>2, <1>3 DEF RelayNext

LEMMA RelayInvariant == RelaySpec => []IInv
BY InitInv, StepKeeps, PTL DEF RelaySpec

-----------------------------------------------------------------------------
(* What follows *)

(* The outbox, the stream and the rounds keep their types. *)
THEOREM RelayTypeCorrect == RelaySpec => []TypeOK
<1>1. IInv => TypeOK
  <2>1. Events \subseteq Event
    BY EventsAreTyped
  <2> QED BY <2>1, SeqMonotonic DEF IInv, OutboxInv, TypeOK
<1> QED BY <1>1, RelayInvariant, PTL

(* However many relays run and wherever each of them dies: an event marked as *)
(* published is in the stream.                                                *)
THEOREM MarkedIsSent == RelaySpec => []MarkedWasSent
<1>1. IInv => MarkedWasSent
  BY DEF IInv
<1> QED BY <1>1, RelayInvariant, PTL

(* The relays implement the feed: the first copy of an event never overtakes  *)
(* an earlier event of its order.                                             *)
THEOREM RelayFollowsFeed == RelaySpec => FollowsFeed
<1>1. RelayInit => Init
  BY DEF RelayInit
<1>2. IInv /\ [RelayNext]_vars => [Next]_stream
  <2> SUFFICES ASSUME IInv, RelayNext, stream' # stream PROVE Next
    BY DEF vars
  <2>1. PICK r \in Relay : Publish(r) \/ PublishFails(r)
    BY DEF RelayNext, Write, Relays, ReadPending, MarkPublished, RelayDies
  <2>2. Publishing(r) /\ Xadd(r)
    BY <2>1 DEF Publish, PublishFails
  <2> QED BY <2>2, XaddFeeds
<1> QED BY <1>1, <1>2, RelayInvariant, PTL DEF RelaySpec, FollowsFeed, Spec
=============================================================================
