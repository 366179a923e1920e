--------------------------- MODULE EventGroupProofs ---------------------------
(***************************************************************************)
(* What holds of a consumer group for any number of copies, events and     *)
(* troubles.  Three arguments, one inductive invariant: an entry leaves    *)
(* the pending list only when it is done with; the newest recorded version *)
(* of an order has an entry that is not yet done with or was shown; and    *)
(* the tries of an entry - its calls, the turns that broke off, and the    *)
(* consumers that still owe it a call - never become fewer.                *)
(***************************************************************************)
EXTENDS EventGroup, SequenceTheorems, FiniteSetTheorems, TLAPS

-----------------------------------------------------------------------------
(* Lists of entries, and the stream *)

(* Of two members the smaller one has fewer members below it. *)
LEMMA FewerBelow ==
  ASSUME NEW S \in SUBSET Nat, IsFiniteSet(S), NEW i \in S, NEW j \in Nat, i < j
  PROVE  /\ Cardinality({x \in S : x < i}) \in Nat
         /\ Cardinality({x \in S : x < j}) \in Nat
         /\ Cardinality({x \in S : x < i}) + 1 <= Cardinality({x \in S : x < j})
<1> DEFINE I == {x \in S : x < i}
           J == {x \in S : x < j}
<1>1. IsFiniteSet(I) /\ IsFiniteSet(J)
  BY FS_Subset, I \in SUBSET S, J \in SUBSET S
<1>2. IsFiniteSet(I \cup {i}) /\ Cardinality(I \cup {i}) = Cardinality(I) + 1
  BY <1>1, FS_AddElement, i \notin I
<1>3. I \cup {i} \in SUBSET J
  <2>1. i \in J
    OBVIOUS
  <2>2. \A x \in I : x \in J
    OBVIOUS
  <2> HIDE DEF I, J
  <2> QED BY <2>1, <2>2
<1>4. Cardinality(I \cup {i}) <= Cardinality(J)
  BY <1>1, <1>3, FS_Subset
<1>5. Cardinality(I) \in Nat /\ Cardinality(J) \in Nat
  BY <1>1, FS_CardinalityType
<1> HIDE DEF I, J
<1>6. Cardinality(I) + 1 <= Cardinality(J)
  BY <1>2, <1>4, <1>5
<1> QED BY <1>5, <1>6 DEF I, J

(* Firsts lists members only. *)
LEMMA FirstsAreMembers ==
  ASSUME NEW S \in SUBSET Nat, IsFiniteSet(S), NEW n \in Nat
  PROVE  Firsts(S, n) \in Seq(S)
<1> DEFINE picked == {i \in S : Cardinality({j \in S : j < i}) < n}
           c == Cardinality(picked)
           rank == [i \in picked |-> Cardinality({j \in picked : j < i})]
           first(k) == CHOOSE i \in picked : Cardinality({j \in picked : j < i}) = k - 1
<1>1. picked \in SUBSET S /\ picked \in SUBSET Nat /\ IsFiniteSet(picked)
  BY FS_Subset, picked \in SUBSET S
<1>2. c \in Nat
  BY <1>1, FS_CardinalityType
<1>3. \A i \in picked : rank[i] \in 0 .. c - 1
  <2> SUFFICES ASSUME NEW i \in picked
               PROVE  Cardinality({j \in picked : j < i}) \in 0 .. c - 1
    OBVIOUS
  <2> DEFINE B == {j \in picked : j < i}
  <2>1. IsFiniteSet(B)
    BY <1>1, FS_Subset, B \in SUBSET picked
  <2>2. IsFiniteSet(B \cup {i}) /\ Cardinality(B \cup {i}) = Cardinality(B) + 1
    BY <1>1, <2>1, FS_AddElement, i \notin B
  <2>3. Cardinality(B \cup {i}) <= c
    BY <1>1, FS_Subset, B \cup {i} \in SUBSET picked
  <2>4. Cardinality(B) \in Nat
    BY <2>1, FS_CardinalityType
  <2> HIDE DEF B, c
  <2>5. Cardinality(B) \in 0 .. c - 1
    BY <1>2, <2>2, <2>3, <2>4
  <2> QED BY <2>5 DEF B
<1>4. \A i, j \in picked : i < j => rank[i] < rank[j]
  <2> SUFFICES ASSUME NEW i \in picked, NEW j \in picked, i < j
               PROVE  rank[i] < rank[j]
    OBVIOUS
  <2> DEFINE I == Cardinality({x \in picked : x < i})
             J == Cardinality({x \in picked : x < j})
  <2>1. I \in Nat /\ J \in Nat /\ I + 1 <= J
    <3>1. j \in Nat
      BY <1>1
    <3> HIDE DEF picked
    <3> QED BY <1>1, <3>1, FewerBelow
  <2>2. rank[i] = I /\ rank[j] = J
    OBVIOUS
  <2> HIDE DEF I, J, rank
  <2> QED BY <2>1, <2>2
<1>5. \A k \in 1 .. c : first(k) \in picked /\ rank[first(k)] = k - 1
  <2>1. IsFiniteSet(0 .. c - 1) /\ Cardinality(0 .. c - 1) = c
    <3>1. c - 1 \in Int
      BY <1>2
    <3> HIDE DEF c
    <3> QED BY <1>2, <3>1, FS_Interval
  <2>2. rank \in [picked -> 0 .. c - 1]
    BY <1>3
  <2>3. rank \in Injection(picked, 0 .. c - 1)
    <3>1. \A i, j \in picked : i # j => rank[i] # rank[j]
      <4> SUFFICES ASSUME NEW i \in picked, NEW j \in picked, i # j
                   PROVE  rank[i] # rank[j]
        OBVIOUS
      <4>1. i \in Nat /\ j \in Nat /\ rank[i] \in Int /\ rank[j] \in Int
        <5>1. rank[i] \in 0 .. c - 1 /\ rank[j] \in 0 .. c - 1
          BY <1>3
        <5> HIDE DEF rank, picked, c
        <5> QED BY <1>1, <1>2, <5>1
      <4>2. i < j \/ j < i
        BY <4>1
      <4> HIDE DEF rank, picked
      <4> QED BY <1>4, <4>1, <4>2
    <3> HIDE DEF rank, picked, c
    <3> QED BY <2>2, <3>1 DEF Injection, IsInjective
  <2>4. rank \in Surjection(picked, 0 .. c - 1)
    <3> HIDE DEF rank
    <3> QED BY <2>1, <2>3, FS_Injection
  <2> SUFFICES ASSUME NEW k \in 1 .. c
               PROVE  first(k) \in picked /\ rank[first(k)] = k - 1
    OBVIOUS
  <2>5. k - 1 \in 0 .. c - 1
    BY <1>2
  <2>6. PICK i \in picked : rank[i] = k - 1
    <3> HIDE DEF rank, picked, c
    <3> QED BY <2>4, <2>5 DEF Surjection
  <2>7. Cardinality({j \in picked : j < i}) = k - 1
    BY <2>6
  <2> QED BY <2>7
<1>6. Firsts(S, n) = [k \in 1 .. c |-> first(k)]
  BY DEF Firsts
<1>7. [k \in 1 .. c |-> first(k)] \in Seq(S)
  <2>1. \A k \in 1 .. c : first(k) \in S
    BY <1>1, <1>5
  <2> HIDE DEF first, c
  <2> QED BY <1>2, <2>1, IsASeq
<1> QED BY <1>6, <1>7

(* What is published is an event, with the fields its type names. *)
LEMMA EventsAreTyped == Events \subseteq Event
<1> SUFFICES ASSUME NEW f \in Events PROVE f \in Event
  OBVIOUS
<1>1. PICK o \in Order, v \in 1..MaxVersion : \E k \in DOMAIN Topics(v) : f = EventsOf(o, v)[k]
  BY DEF Events
<1>2. PICK k \in DOMAIN Topics(v) : f = EventsOf(o, v)[k]
  BY <1>1
<1>3. f = [order |-> o, version |-> v, topic |-> Topics(v)[k]]
  BY <1>2 DEF EventsOf
<1>4. Topics(v)[k] \in STRING
  BY TopicsAssumption
<1> QED BY <1>3, <1>4 DEF Event

(* The copies are counted by a number. *)
LEMMA CopiesAreCounted ==
  ASSUME stream \in Seq(Event)
  PROVE  /\ IsFiniteSet({stream[i] : i \in DOMAIN stream})
         /\ Copies \in Int
<1> DEFINE S == {stream[i] : i \in DOMAIN stream}
<1>1. Len(stream) \in Nat /\ DOMAIN stream = 1..Len(stream)
  OBVIOUS
<1>2. IsFiniteSet(1..Len(stream))
  BY <1>1, FS_Interval
<1>3. stream \in Surjection(DOMAIN stream, S)
  BY DEF Surjection
<1>4. IsFiniteSet(S)
  <2> HIDE DEF S
  <2> QED BY <1>1, <1>2, <1>3, FS_Surjection
<1>5. Cardinality(S) \in Nat
  BY <1>4, FS_CardinalityType
<1>6. Copies = Len(stream) - Cardinality(S)
  BY DEF Copies
<1> HIDE DEF S
<1>7. Copies \in Int
  BY <1>1, <1>5, <1>6
<1> QED BY <1>4, <1>7 DEF S

(* A repeated entry makes one copy more, a new one makes none. *)
LEMMA CopiesOfAppend ==
  ASSUME stream \in Seq(Event), NEW e, stream' = Append(stream, e)
  PROVE  /\ Copies \in Int /\ Copies' \in Int
         /\ Sent(e) => Copies' = Copies + 1
         /\ ~Sent(e) => Copies' = Copies
<1> DEFINE S == {stream[i] : i \in DOMAIN stream}
           T == {stream'[i] : i \in DOMAIN stream'}
<1>1. /\ Len(stream) \in Nat /\ DOMAIN stream = 1..Len(stream)
      /\ Len(stream') = Len(stream) + 1 /\ DOMAIN stream' = 1..(Len(stream) + 1)
      /\ \A i \in 1..Len(stream) : stream'[i] = stream[i]
      /\ stream'[Len(stream) + 1] = e
  BY AppendProperties
<1>2. IsFiniteSet(S) /\ Cardinality(S) \in Nat
  BY CopiesAreCounted, FS_CardinalityType
<1>3. T = S \cup {e}
  <2>1. ASSUME NEW x \in T PROVE x \in S \cup {e}
    <3>1. PICK i \in 1..(Len(stream) + 1) : x = stream'[i]
      BY <1>1
    <3>2. CASE i = Len(stream) + 1
      BY <1>1, <3>1, <3>2
    <3>3. CASE i \in 1..Len(stream)
      BY <1>1, <3>1, <3>3
    <3> QED BY <1>1, <3>2, <3>3
  <2>2. \A i \in DOMAIN stream : i \in DOMAIN stream' /\ stream'[i] = stream[i]
    BY <1>1
  <2>3. Len(stream) + 1 \in DOMAIN stream'
    BY <1>1
  <2>4. \A x \in S \cup {e} : x \in T
    BY <1>1, <2>2, <2>3
  <2> QED BY <2>1, <2>4
<1>4. Copies = Len(stream) - Cardinality(S) /\ Copies' = Len(stream') - Cardinality(T)
  BY DEF Copies
<1>5. e \in S <=> Sent(e)
  BY DEF Sent
<1> HIDE DEF S, T
<1>6. Cardinality(S \cup {e}) = IF e \in S THEN Cardinality(S) ELSE Cardinality(S) + 1
  BY <1>2, FS_AddElement
<1> QED BY <1>1, <1>2, <1>3, <1>4, <1>5, <1>6

-----------------------------------------------------------------------------
(* The inductive invariant *)

(* Nothing is left to do for the entry. *)
Done(i) == i \in handled \/ Buried(i) \/ ~Heeds(i)

(* Where a consumer is in its turn: what it is about to acknowledge is done  *)
(* with.                                                                     *)
TurnInv(c) ==
  /\ turn[c].stage = "listing" => turn[c] = Begin
  /\ turn[c].step # "take" => turn[c].todo # <<>>
  /\ turn[c].step = "dispatch" => turn[c].stage = "stale"
  /\ turn[c].step = "emit" => Heeds(Current(c).id)
  /\ turn[c].step = "ack" => Done(Current(c).id)
  /\ \A i \in turn[c].skipped : ~Heeds(i)

(* A recorded version was brought by an entry.                               *)
NewestInv ==
  \A o \in Order :
    newest[o] > 0 => \E j \in 1..position :
                       stream[j].order = o /\ stream[j].version = newest[o] /\ Heeds(j)

(* HandledIsShown, with an excuse the group hears of.                        *)
Excused(i) ==
  \E j \in 1..position :
    Earlier(stream[i], stream[j]) /\ Heeds(j) /\ (j \in DOMAIN pending \/ Buried(j) \/ j <= gone)
ShownInv == \A i \in handled : shown[stream[i].order] >= stream[i].version \/ Excused(i)

(* The k-th entry of the list of c was delivered to c, which has not come to *)
(* it.                                                                       *)
Waits(c, k) ==
  \/ turn[c].stage = "batch" /\ (k > 1 \/ turn[c].step = "take")
  \/ k = 1 /\ turn[c].step = "dispatch"

(* The consumers that will give the entry to the handler, unless they break. *)
Owes(c, i) ==
  \E k \in DOMAIN turn[c].todo :
    turn[c].todo[k].id = i /\ turn[c].todo[k].attempt <= MaxDeliveries /\ Waits(c, k)
Owing(i) == {c \in Consumer : Owes(c, i)}

Tries(i) == calls[i] + broken + Cardinality(Owing(i))

(* A count of deliveries is no larger than the tries of the entry, as long   *)
(* as it is not used up.                                                     *)
Counted(n, i) == Heeds(i) => Smaller(n, MaxDeliveries) <= Tries(i)

CountsInv ==
  /\ \A i \in DOMAIN pending : Counted(pending[i].deliveries, i)
  /\ \A c \in Consumer : \A k \in DOMAIN turn[c].todo :
       /\ Waits(c, k) => Counted(turn[c].todo[k].attempt, turn[c].todo[k].id)
       /\ turn[c].stage = "stale" /\ turn[c].todo[k].id \in DOMAIN pending =>
            turn[c].todo[k].attempt <= pending[turn[c].todo[k].id].deliveries + 1
  /\ \A letter \in dead : letter.reason = "exhausted" =>
       Heeds(letter.id) /\ Tries(letter.id) >= MaxDeliveries

IInv ==
  /\ TypeOK
  /\ \A c \in Consumer : TurnInv(c)
  /\ NoneVanishes
  /\ NewestInv
  /\ ShownInv
  /\ CountsInv

-----------------------------------------------------------------------------
(* What the actions do *)

TurnType(p) == [stage : Stage, todo : Seq([id : 1..p, attempt : Nat]),
                step : Step, skipped : SUBSET (1..p)]

(* The kinds of step in a turn, by what they do to the consumer's own record. *)
Keeps(c, step) == /\ turn[c].todo # <<>> /\ turn'[c].stage = turn[c].stage
                  /\ turn'[c].todo = turn[c].todo /\ turn'[c].step = step
                  /\ turn'[c].skipped = turn[c].skipped
Moves(c) == /\ turn[c].todo # <<>> /\ turn'[c].stage = turn[c].stage
            /\ turn'[c].todo = Tail(turn[c].todo) /\ turn'[c].step = "take"
Lists(c, stage, todo) == /\ turn'[c].stage = stage /\ turn'[c].todo = todo
                         /\ turn'[c].step = turn[c].step /\ turn'[c].skipped = turn[c].skipped

(* An entry in hand is the first of its list, and was added to the stream.   *)
LEMMA InHand ==
  ASSUME TypeOK, NEW c \in Consumer, turn[c].todo # <<>>
  PROVE  /\ turn[c].todo[1] = Current(c) /\ 1 \in DOMAIN turn[c].todo
         /\ Current(c) \in [id : 1..position, attempt : Nat]
         /\ Current(c).id \in 1..position /\ Current(c).id \in 1..Len(stream)
         /\ Current(c).attempt \in Nat
         /\ EntryOf(c) = stream[Current(c).id] /\ EntryOf(c) \in Event
         /\ Tail(turn[c].todo) \in Seq([id : 1..position, attempt : Nat])
         /\ \A k \in DOMAIN Tail(turn[c].todo) :
              k \in Nat \ {0} /\ k + 1 \in DOMAIN turn[c].todo /\ Tail(turn[c].todo)[k] = turn[c].todo[k + 1]
         /\ \A k \in DOMAIN turn[c].todo :
              k = 1 \/ (k > 1 /\ k - 1 \in DOMAIN Tail(turn[c].todo)
                              /\ Tail(turn[c].todo)[k - 1] = turn[c].todo[k])
<1> DEFINE E == [id : 1..position, attempt : Nat]
           q == turn[c].todo
<1>1. q \in Seq(E) /\ q # <<>>
  BY DEF TypeOK
<1>2. /\ Len(q) \in Nat /\ Len(q) >= 1 /\ DOMAIN q = 1..Len(q)
      /\ Head(q) = q[1] /\ q[1] \in E
      /\ Tail(q) \in Seq(E) /\ Len(Tail(q)) = Len(q) - 1 /\ DOMAIN Tail(q) = 1..(Len(q) - 1)
      /\ \A k \in 1..(Len(q) - 1) : Tail(q)[k] = q[k + 1]
  <2> HIDE DEF E, q
  <2> QED BY <1>1, HeadTailProperties
<1>3. Current(c) = q[1]
  BY <1>2 DEF Current
<1>4. position \in 0..Len(stream) /\ Len(stream) \in Nat /\ stream \in Seq(Event)
  BY DEF TypeOK
<1>5. q[1].id \in 1..position /\ q[1].id \in 1..Len(stream) /\ q[1].attempt \in Nat
  BY <1>2, <1>4
<1>6. stream[q[1].id] \in Event
  BY <1>4, <1>5
<1>7. EntryOf(c) = stream[q[1].id]
  BY <1>3 DEF EntryOf
<1>8. \A k \in DOMAIN Tail(q) : k \in Nat \ {0} /\ k + 1 \in DOMAIN q /\ Tail(q)[k] = q[k + 1]
  <2> HIDE DEF E, q
  <2> QED BY <1>2
<1>9. \A k \in DOMAIN q : k = 1 \/ (k > 1 /\ k - 1 \in DOMAIN Tail(q) /\ Tail(q)[k - 1] = q[k])
  <2> SUFFICES ASSUME NEW k \in DOMAIN q, k # 1
               PROVE  k > 1 /\ k - 1 \in DOMAIN Tail(q) /\ Tail(q)[k - 1] = q[k]
    OBVIOUS
  <2> HIDE DEF E, q
  <2>1. k - 1 \in 1..(Len(q) - 1) /\ (k - 1) + 1 = k /\ k > 1
    BY <1>2
  <2> QED BY <1>2, <2>1
<1> HIDE DEF E
<1>10. 1 \in DOMAIN q
  BY <1>2
<1>11. q[1] \in E /\ Tail(q) \in Seq(E)
  BY <1>2
<1> QED BY <1>3, <1>5, <1>6, <1>7, <1>8, <1>9, <1>10, <1>11 DEF E

(* A turn that moves on keeps its type; a list may be of any later position. *)
LEMMA TurnsAreTyped ==
  ASSUME TypeOK, NEW c \in Consumer
  PROVE  /\ turn[c] \in TurnType(position) /\ Begin \in TurnType(position)
         /\ turn[c] = [stage |-> turn[c].stage, todo |-> turn[c].todo,
                       step |-> turn[c].step, skipped |-> turn[c].skipped]
         /\ \A s \in Step :
              /\ At(c, s) = [stage |-> turn[c].stage, todo |-> turn[c].todo,
                             step |-> s, skipped |-> turn[c].skipped]
              /\ At(c, s) \in TurnType(position)
         /\ Moved(c) = [stage |-> turn[c].stage, todo |-> Tail(turn[c].todo),
                        step |-> "take", skipped |-> turn[c].skipped]
         /\ turn[c].todo # <<>> => Moved(c) \in TurnType(position)
         /\ \A p \in Nat : p >= position => TurnType(position) \subseteq TurnType(p)
<1>1. turn[c] \in TurnType(position) /\ position \in Nat
  <2>1. turn \in [Consumer -> TurnType(position)]
    BY DEF TypeOK, TurnType
  <2>2. stream \in Seq(Event) /\ position \in 0..Len(stream)
    BY DEF TypeOK
  <2> QED BY <2>1, <2>2
<1>2. Begin \in TurnType(position)
  <2>1. <<>> \in Seq([id : 1..position, attempt : Nat])
    OBVIOUS
  <2> QED BY <2>1 DEF Begin, TurnType, Stage, Step
<1>3. turn[c] = [stage |-> turn[c].stage, todo |-> turn[c].todo,
                 step |-> turn[c].step, skipped |-> turn[c].skipped]
  BY <1>1 DEF TurnType
<1>4. ASSUME NEW s \in Step
      PROVE  /\ At(c, s) = [stage |-> turn[c].stage, todo |-> turn[c].todo,
                            step |-> s, skipped |-> turn[c].skipped]
             /\ At(c, s) \in TurnType(position)
  <2>1. At(c, s) = [stage |-> turn[c].stage, todo |-> turn[c].todo,
                    step |-> s, skipped |-> turn[c].skipped]
    <3> DEFINE E == [id : 1..position, attempt : Nat]
    <3>1. turn[c] \in [stage : Stage, todo : Seq(E), step : Step, skipped : SUBSET (1..position)]
      BY <1>1 DEF TurnType
    <3> HIDE DEF E
    <3> QED BY <3>1 DEF At
  <2>2. /\ turn[c].stage \in Stage /\ turn[c].skipped \in SUBSET (1..position)
        /\ turn[c].todo \in Seq([id : 1..position, attempt : Nat])
    BY <1>1 DEF TurnType
  <2> QED BY <2>1, <2>2 DEF TurnType
<1>5. Moved(c) = [stage |-> turn[c].stage, todo |-> Tail(turn[c].todo),
                  step |-> "take", skipped |-> turn[c].skipped]
  <2> DEFINE E == [id : 1..position, attempt : Nat]
  <2>1. turn[c] \in [stage : Stage, todo : Seq(E), step : Step, skipped : SUBSET (1..position)]
    BY <1>1 DEF TurnType
  <2> HIDE DEF E
  <2> DEFINE r == turn[c]
             x == Tail(turn[c].todo)
  <2>2. [r EXCEPT !.todo = x] = [stage |-> r.stage, todo |-> x, step |-> r.step, skipped |-> r.skipped]
    <3> HIDE DEF x
    <3> QED BY <2>1
  <2>3. Moved(c) = [[r EXCEPT !.todo = x] EXCEPT !.step = "take"]
    BY DEF Moved
  <2> HIDE DEF r, x
  <2>4. Moved(c) = [stage |-> r.stage, todo |-> x, step |-> "take", skipped |-> r.skipped]
    BY <2>2, <2>3
  <2> QED BY <2>4 DEF r, x
<1>6. turn[c].todo # <<>> => Moved(c) \in TurnType(position)
  <2> SUFFICES ASSUME turn[c].todo # <<>> PROVE Moved(c) \in TurnType(position)
    OBVIOUS
  <2>1. Tail(turn[c].todo) \in Seq([id : 1..position, attempt : Nat])
    BY InHand
  <2>2. turn[c].stage \in Stage /\ turn[c].skipped \in SUBSET (1..position) /\ "take" \in Step
    BY <1>1 DEF TurnType, Step
  <2> QED BY <1>5, <2>1, <2>2 DEF TurnType
<1>7. ASSUME NEW p \in Nat, p >= position
      PROVE  TurnType(position) \subseteq TurnType(p)
  <2>1. 1..position \subseteq 1..p
    BY <1>1, <1>7
  <2>2. [id : 1..position, attempt : Nat] \subseteq [id : 1..p, attempt : Nat]
    BY <2>1
  <2>3. Seq([id : 1..position, attempt : Nat]) \subseteq Seq([id : 1..p, attempt : Nat])
    <3> DEFINE A == [id : 1..position, attempt : Nat]
               B == [id : 1..p, attempt : Nat]
    <3>1. ASSUME NEW q \in Seq(A) PROVE q \in Seq(B)
      <4>1. A \subseteq B
        BY <2>2
      <4> HIDE DEF A, B
      <4> QED BY <3>1, <4>1
    <3> QED BY <3>1
  <2> QED BY <2>1, <2>3 DEF TurnType
<1> QED BY <1>1, <1>2, <1>3, <1>4, <1>5, <1>6, <1>7

(* One consumer moves on in its turn, the others stay where they are.        *)
LEMMA TypeOfOneTurn ==
  ASSUME TypeOK, NEW c \in Consumer, NEW p \in Nat, p >= position,
         NEW t \in TurnType(p), turn' = [turn EXCEPT ![c] = t]
  PROVE  turn' \in [Consumer -> TurnType(p)]
<1>1. turn \in [Consumer -> TurnType(position)]
  BY DEF TypeOK, TurnType
<1>2. TurnType(position) \subseteq TurnType(p)
  BY TurnsAreTyped
<1> QED BY <1>1, <1>2

(* The types most proofs use, with what follows from them.                   *)
LEMMA TypeOKSplit ==
  /\ TypeOK =>
       /\ stream \in Seq(Event) /\ Len(stream) \in Nat
       /\ gone \in 0..Len(stream) /\ gone \in Nat
       /\ position \in 0..Len(stream) /\ position \in Nat
       /\ DOMAIN pending \subseteq 1..position
       /\ turn \in [Consumer -> TurnType(position)]
       /\ calls \in Seq(Nat) /\ Len(calls) = Len(stream) /\ DOMAIN calls = 1..Len(stream)
       /\ broken \in Nat /\ thrown \in Nat
       /\ Copies \in Int /\ Copies + broken + thrown <= MaxTroubles
<1> SUFFICES ASSUME TypeOK
             PROVE  /\ stream \in Seq(Event) /\ Len(stream) \in Nat
                    /\ gone \in 0..Len(stream) /\ gone \in Nat
                    /\ position \in 0..Len(stream) /\ position \in Nat
                    /\ DOMAIN pending \subseteq 1..position
                    /\ turn \in [Consumer -> TurnType(position)]
                    /\ calls \in Seq(Nat) /\ Len(calls) = Len(stream) /\ DOMAIN calls = 1..Len(stream)
                    /\ broken \in Nat /\ thrown \in Nat
                    /\ Copies \in Int /\ Copies + broken + thrown <= MaxTroubles
  OBVIOUS
<1>1. /\ stream \in Seq(Event) /\ gone \in 0..Len(stream) /\ position \in 0..Len(stream)
      /\ DOMAIN pending \subseteq 1..position
      /\ calls \in Seq(Nat) /\ Len(calls) = Len(stream)
      /\ broken \in Nat /\ thrown \in Nat /\ Copies + broken + thrown <= MaxTroubles
  BY DEF TypeOK
<1>2. turn \in [Consumer -> TurnType(position)]
  BY DEF TypeOK, TurnType
<1>3. Copies \in Int
  BY <1>1, CopiesAreCounted
<1>4. DOMAIN calls = 1..Len(stream)
  BY <1>1
<1>5. Len(stream) \in Nat /\ gone \in Nat /\ position \in Nat
  BY <1>1
<1> QED BY <1>1, <1>2, <1>3, <1>4, <1>5

(* What a call of the handler does to the counts. *)
LEMMA CallsAreTyped ==
  ASSUME TypeOK, NEW c \in Consumer, TurnInv(c), Called(c)
  PROVE  /\ turn[c].todo # <<>>
         /\ calls' \in Seq(Nat) /\ Len(calls') = Len(stream)
         /\ calls'[Current(c).id] = calls[Current(c).id] + 1
         /\ \A i \in 1..Len(stream) : i # Current(c).id => calls'[i] = calls[i]
<1>1. turn[c].todo # <<>>
  BY DEF Called, Dispatching, TurnInv
<1>2. Current(c).id \in 1..Len(stream)
  BY <1>1, InHand
<1>3. calls' = [calls EXCEPT ![Current(c).id] = calls[Current(c).id] + 1]
  BY DEF Called
<1>4. calls \in Seq(Nat) /\ Len(calls) = Len(stream) /\ DOMAIN calls = 1..Len(stream)
  BY TypeOKSplit
<1>5. calls[Current(c).id] + 1 \in Nat
  BY <1>2, <1>4
<1>6. calls' \in Seq(Nat) /\ Len(calls') = Len(calls)
  BY <1>2, <1>3, <1>4, <1>5, ExceptSeq
<1> QED BY <1>1, <1>2, <1>3, <1>4, <1>6

(* Without leaves the other entries as they are. *)
LEMMA WithoutKeepsTheOthers ==
  ASSUME NEW ids, pending' = Without(ids)
  PROVE  /\ DOMAIN pending' = DOMAIN pending \ ids
         /\ \A i \in DOMAIN pending' : i \in DOMAIN pending /\ pending'[i] = pending[i]
BY DEF Without

-----------------------------------------------------------------------------
(* Type correctness *)

(* A step of a consumer keeps the types when what it writes has its type.      *)
LEMMA TypeOfConsumerStep ==
  ASSUME TypeOK, NEW c \in Consumer, NEW p \in Nat, p = position', p >= position, p <= Len(stream),
         NEW t \in TurnType(p),
         UNCHANGED <<stream, gone>>, turn' = [turn EXCEPT ![c] = t],
         DOMAIN pending' \subseteq 1..p,
         \A i \in DOMAIN pending' : pending'[i] \in [deliveries : Nat, stale : BOOLEAN],
         dead' \subseteq [id : 1..p, reason : Reason],
         newest' \in [Order -> 0..MaxVersion], shown' \in [Order -> 0..MaxVersion],
         handled' \subseteq 1..p,
         calls' \in Seq(Nat), Len(calls') = Len(stream),
         \/ UNCHANGED <<broken, thrown>>
         \/ Trouble /\ broken' = broken + 1 /\ thrown' = thrown
         \/ Trouble /\ thrown' = thrown + 1 /\ broken' = broken
  PROVE  TypeOK'
<1>1. turn' \in [Consumer -> TurnType(position')]
  BY TypeOfOneTurn
<1>2. Copies' = Copies
  BY DEF Copies
<1>3. /\ broken \in Nat /\ thrown \in Nat /\ Copies \in Int /\ MaxTroubles \in Nat
      /\ Copies + broken + thrown <= MaxTroubles /\ Len(stream) \in Nat
      /\ Trouble => Copies + broken + thrown < MaxTroubles
  BY TypeOKSplit, GroupAssumption DEF Trouble
<1>4. broken' \in Nat /\ thrown' \in Nat /\ Copies' + broken' + thrown' <= MaxTroubles
  <2>1. CASE UNCHANGED <<broken, thrown>>
    BY <1>2, <1>3, <2>1
  <2>2. CASE Trouble /\ broken' = broken + 1 /\ thrown' = thrown
    <3>1. broken + 1 \in Nat /\ Copies + (broken + 1) + thrown <= MaxTroubles
      BY <1>3, <2>2
    <3> QED BY <1>2, <1>3, <2>2, <3>1
  <2>3. CASE Trouble /\ thrown' = thrown + 1 /\ broken' = broken
    <3>1. thrown + 1 \in Nat /\ Copies + broken + (thrown + 1) <= MaxTroubles
      BY <1>3, <2>3
    <3> QED BY <1>2, <1>3, <2>3, <3>1
  <2> QED BY <2>1, <2>2, <2>3
<1>5. gone' \in 0..Len(stream') /\ stream' \in Seq(Event) /\ position' \in 0..Len(stream')
  <2>1. p \in 0..Len(stream)
    BY <1>3
  <2> QED BY <2>1 DEF TypeOK
<1>6. /\ DOMAIN pending' \subseteq 1..position'
      /\ dead' \subseteq [id : 1..position', reason : Reason]
      /\ handled' \subseteq 1..position'
      /\ Len(calls') = Len(stream')
  OBVIOUS
<1> QED BY <1>1, <1>4, <1>5, <1>6 DEF TypeOK, TurnType

(* The same for the steps that deliver nothing new. *)
LEMMA TypeOfStepInPlace ==
  ASSUME TypeOK, NEW c \in Consumer, NEW t \in TurnType(position),
         UNCHANGED <<stream, gone, position>>, turn' = [turn EXCEPT ![c] = t],
         DOMAIN pending' \subseteq 1..position,
         \A i \in DOMAIN pending' : pending'[i] \in [deliveries : Nat, stale : BOOLEAN],
         dead' \subseteq [id : 1..position, reason : Reason],
         newest' \in [Order -> 0..MaxVersion], shown' \in [Order -> 0..MaxVersion],
         handled' \subseteq 1..position,
         calls' \in Seq(Nat), Len(calls') = Len(stream),
         \/ UNCHANGED <<broken, thrown>>
         \/ Trouble /\ broken' = broken + 1 /\ thrown' = thrown
         \/ Trouble /\ thrown' = thrown + 1 /\ broken' = broken
  PROVE  TypeOK'
<1>1. PICK p \in Nat : p = position /\ p <= Len(stream) /\ p >= position
  BY TypeOKSplit
<1> QED BY <1>1, TypeOfConsumerStep

(* The list of stale entries holds pending ones, and each count of one more *)
(* delivery.                                                                *)
LEMMA ListedIsTyped ==
  ASSUME TypeOK
  PROVE  /\ Listed \in Seq([id : 1..position, attempt : Nat])
         /\ \A k \in DOMAIN Listed : /\ Listed[k].id \in DOMAIN pending
                                     /\ Listed[k].attempt = pending[Listed[k].id].deliveries + 1
<1> DEFINE ids == Firsts(Stale, BatchSize)
<1>1. /\ Stale \subseteq DOMAIN pending /\ DOMAIN pending \subseteq 1..position /\ position \in Nat
      /\ \A i \in DOMAIN pending : pending[i].deliveries \in Nat
  <2>1. \A i \in DOMAIN pending : pending[i] \in [deliveries : Nat, stale : BOOLEAN]
    BY DEF TypeOK
  <2> QED BY <2>1, TypeOKSplit DEF Stale
<1>2. IsFiniteSet(Stale) /\ Stale \in SUBSET Nat
  <2>1. IsFiniteSet(1..position)
    BY <1>1, FS_Interval
  <2> QED BY <1>1, <2>1, FS_Subset
<1>3. ids \in Seq(Stale)
  BY <1>2, FirstsAreMembers, GroupAssumption
<1>4. Listed = [k \in DOMAIN ids |-> [id |-> ids[k], attempt |-> pending[ids[k]].deliveries + 1]]
  BY DEF Listed
<1> HIDE DEF ids
<1>5. Len(ids) \in Nat /\ DOMAIN ids = 1..Len(ids) /\ \A k \in DOMAIN ids : ids[k] \in Stale
  BY <1>3
<1>6. /\ DOMAIN Listed = 1..Len(ids)
      /\ \A k \in 1..Len(ids) :
           /\ Listed[k] = [id |-> ids[k], attempt |-> pending[ids[k]].deliveries + 1]
           /\ Listed[k] \in [id : 1..position, attempt : Nat]
           /\ ids[k] \in DOMAIN pending
  BY <1>1, <1>4, <1>5
<1>7. Listed \in Seq([id : 1..position, attempt : Nat])
  <2> DEFINE E == [id : 1..position, attempt : Nat]
  <2>1. Listed \in [1..Len(ids) -> E]
    <3>1. \A k \in 1..Len(ids) : [id |-> ids[k], attempt |-> pending[ids[k]].deliveries + 1] \in E
      BY <1>6
    <3> HIDE DEF E
    <3> QED BY <1>4, <1>5, <3>1
  <2> HIDE DEF E
  <2>2. Listed \in Seq(E)
    BY <1>5, <2>1, SeqDef
  <2> QED BY <2>2 DEF E
<1> QED BY <1>6, <1>7

(* A new list and stage for one consumer, which keeps what it skipped. *)
LEMMA ListIsPut ==
  ASSUME TypeOK, NEW c \in Consumer, NEW p \in Nat, p >= position,
         NEW stage \in Stage, NEW todo \in Seq([id : 1..p, attempt : Nat]),
         turn' = [turn EXCEPT ![c].stage = stage, ![c].todo = todo]
  PROVE  /\ \E t \in TurnType(p) : turn' = [turn EXCEPT ![c] = t]
         /\ Lists(c, stage, todo)
         /\ \A d \in Consumer \ {c} : turn'[d] = turn[d]
<1> DEFINE E == [id : 1..position, attempt : Nat]
           r == turn[c]
           t == [stage |-> stage, todo |-> todo, step |-> turn[c].step, skipped |-> turn[c].skipped]
           half == [turn EXCEPT ![c].stage = stage]
<1>1. turn \in [Consumer -> TurnType(position)]
  BY TypeOKSplit
<1>2. t \in TurnType(p)
  <2>1. turn[c] \in TurnType(p)
    BY <1>1, TurnsAreTyped
  <2>2. turn[c].step \in Step /\ turn[c].skipped \in SUBSET (1..p)
    BY <2>1 DEF TurnType
  <2> QED BY <2>2 DEF TurnType
<1>3. r \in [stage : Stage, todo : Seq(E), step : Step, skipped : SUBSET (1..position)]
  BY <1>1 DEF TurnType
<1>4. /\ half = [turn EXCEPT ![c] = [turn[c] EXCEPT !.stage = stage]]
      /\ half[c] = [turn[c] EXCEPT !.stage = stage]
  BY <1>1
<1>5. [turn[c] EXCEPT !.stage = stage] =
        [stage |-> stage, todo |-> r.todo, step |-> r.step, skipped |-> r.skipped]
  <2> HIDE DEF E
  <2> QED BY <1>3
<1>6. half[c] = [stage |-> stage, todo |-> r.todo, step |-> r.step, skipped |-> r.skipped]
  BY <1>4, <1>5
<1>7. [half[c] EXCEPT !.todo = todo] = t
  <2> HIDE DEF r, half
  <2> QED BY <1>6 DEF r
<1>8. turn' = [half EXCEPT ![c].todo = todo]
  OBVIOUS
<1>9. turn' = [half EXCEPT ![c] = [half[c] EXCEPT !.todo = todo]]
  BY <1>8
<1>10. turn' = [half EXCEPT ![c] = t]
  <2> HIDE DEF t, half
  <2> QED BY <1>7, <1>9
<1>11. turn' = [turn EXCEPT ![c] = t]
  <2> HIDE DEF t, half
  <2>1. half = [turn EXCEPT ![c] = half[c]]
    BY <1>4
  <2> QED BY <1>1, <1>10, <2>1
<1>12. turn'[c] = t /\ \A d \in Consumer \ {c} : turn'[d] = turn[d]
  <2> HIDE DEF t
  <2> QED BY <1>1, <1>11
<1>13. Lists(c, stage, todo)
  BY <1>12 DEF Lists
<1> HIDE DEF t
<1> QED BY <1>2, <1>11, <1>12, <1>13

(* What XREADGROUP hands out: the entries behind the position, once each.      *)
NewBatch == [k \in 1..(position' - Behind) |-> [id |-> Behind + k, attempt |-> 1]]

LEMMA ReadingNew ==
  ASSUME TypeOK, NEW c \in Consumer, ReadNew(c)
  PROVE  /\ Behind \in Nat /\ position <= Behind /\ Behind < position' /\ position' <= Len(stream)
         /\ gone <= Behind /\ (Behind = position \/ Behind = gone)
         /\ position' \in Nat
         /\ DOMAIN pending' = DOMAIN pending \cup (Behind + 1)..position'
         /\ \A i \in DOMAIN pending' :
              pending'[i] = IF i > Behind THEN [deliveries |-> 1, stale |-> FALSE] ELSE pending[i]
         /\ NewBatch \in Seq([id : 1..position', attempt : Nat])
         /\ DOMAIN NewBatch = 1..(position' - Behind)
         /\ \A k \in 1..(position' - Behind) : NewBatch[k] = [id |-> Behind + k, attempt |-> 1]
         /\ turn' = [turn EXCEPT ![c].stage = "batch", ![c].todo = NewBatch]
<1>1. /\ Behind < Len(stream)
      /\ position' = Smaller(Behind + BatchSize, Len(stream))
      /\ pending' = [i \in DOMAIN pending \cup (Behind + 1)..position' |->
           IF i > Behind THEN [deliveries |-> 1, stale |-> FALSE] ELSE pending[i]]
      /\ turn' = [turn EXCEPT ![c].stage = "batch", ![c].todo = NewBatch]
  BY DEF ReadNew, NewBatch
<1>2. /\ Behind \in Nat /\ position <= Behind /\ gone <= Behind
      /\ (Behind = position \/ Behind = gone)
  BY TypeOKSplit DEF Behind, Larger
<1>3. Behind < position' /\ position' <= Len(stream) /\ position' \in Nat
  BY <1>1, <1>2, TypeOKSplit, GroupAssumption DEF Smaller
<1>4. /\ DOMAIN NewBatch = 1..(position' - Behind)
      /\ \A k \in 1..(position' - Behind) : NewBatch[k] = [id |-> Behind + k, attempt |-> 1]
  BY DEF NewBatch
<1>5. NewBatch \in Seq([id : 1..position', attempt : Nat])
  <2> DEFINE E == [id : 1..position', attempt : Nat]
  <2>1. PICK p \in Nat, b \in Nat : p = position' /\ b = Behind /\ b < p
    BY <1>2, <1>3
  <2>2. \A k \in 1..(p - b) : b + k \in 1..p
    OBVIOUS
  <2>3. p - b \in Nat
    <3>1. b < p
      BY <2>1
    <3> QED BY <3>1
  <2>4. \A k \in 1..(p - b) : [id |-> b + k, attempt |-> 1] \in E
    BY <2>1, <2>2
  <2> HIDE DEF E
  <2>5. NewBatch \in [1..(p - b) -> E]
    BY <2>1, <2>4 DEF NewBatch
  <2>6. NewBatch \in Seq(E)
    BY <2>3, <2>5, SeqDef
  <2> QED BY <2>6 DEF E
<1>6. /\ DOMAIN pending' = DOMAIN pending \cup (Behind + 1)..position'
      /\ \A i \in DOMAIN pending' :
           pending'[i] = IF i > Behind THEN [deliveries |-> 1, stale |-> FALSE] ELSE pending[i]
  BY <1>1
<1> QED BY <1>1, <1>2, <1>3, <1>4, <1>5, <1>6

(* Every step keeps the types. *)
LEMMA TypeKept ==
  ASSUME TypeOK, \A c \in Consumer : TurnInv(c), [GroupNext]_vars
  PROVE  TypeOK'
<1>0. broken \in Nat /\ thrown \in Nat /\ Len(stream) \in Nat /\ position \in Nat
  BY TypeOKSplit
<1>1. CASE UNCHANGED vars
  BY <1>0, <1>1 DEF TypeOK, vars, group, room, count, Copies
<1>2. ASSUME NEW event \in Events, Arrive(event) PROVE TypeOK'
  <2>1. /\ stream' = Append(stream, event) /\ calls' = Append(calls, 0)
        /\ gone' \in {gone, Larger(gone, Len(stream) + 1 - MaxLength)}
        /\ Sent(event) => Trouble
        /\ UNCHANGED <<position, pending, turn, dead, newest, shown, handled, broken, thrown>>
    BY <1>2 DEF Arrive, Add, group, room
  <2>2. event \in Event
    BY EventsAreTyped
  <2>3. /\ stream' \in Seq(Event) /\ Len(stream') = Len(stream) + 1
        /\ calls' \in Seq(Nat) /\ Len(calls') = Len(stream')
    BY <2>1, <2>2, TypeOKSplit
  <2>4. gone' \in 0..Len(stream') /\ position' \in 0..Len(stream')
    BY <1>0, <2>1, <2>3, TypeOKSplit, GroupAssumption DEF Larger
  <2>5. Copies' + broken' + thrown' <= MaxTroubles
    <3>1. /\ Copies' \in Int
          /\ Sent(event) => Copies' = Copies + 1
          /\ ~Sent(event) => Copies' = Copies
      BY <2>1, TypeOKSplit, CopiesOfAppend
    <3>2. /\ Copies \in Int /\ Copies + broken + thrown <= MaxTroubles
          /\ Trouble => Copies + broken + thrown < MaxTroubles
      BY TypeOKSplit DEF Trouble
    <3>3. PICK k \in Int, l \in Int : k = Copies' /\ l = Copies
      BY <3>1, <3>2
    <3>4. /\ l + broken + thrown <= MaxTroubles
          /\ k = l \/ (k = l + 1 /\ l + broken + thrown < MaxTroubles)
      BY <2>1, <3>1, <3>2, <3>3
    <3>5. k + broken + thrown <= MaxTroubles
      BY <1>0, <3>4, GroupAssumption
    <3> QED BY <2>1, <3>3, <3>5
  <2> QED BY <2>1, <2>3, <2>4, <2>5 DEF TypeOK
<1>3. ASSUME NEW i \in DOMAIN stream, GoesStale(i) PROVE TypeOK'
  <2>1. /\ i \in DOMAIN pending /\ pending' = [pending EXCEPT ![i].stale = TRUE]
        /\ UNCHANGED <<stream, gone, position, turn, dead, newest, shown, handled, calls, broken, thrown>>
    BY <1>3 DEF GoesStale, room, count
  <2>2. \A j \in DOMAIN pending : pending[j] \in [deliveries : Nat, stale : BOOLEAN]
    BY DEF TypeOK
  <2>3. DOMAIN pending' = DOMAIN pending
        /\ \A j \in DOMAIN pending' : pending'[j] \in [deliveries : Nat, stale : BOOLEAN]
    BY <2>1, <2>2
  <2>4. Copies' = Copies
    BY <2>1 DEF Copies
  <2> QED BY <2>1, <2>3, <2>4 DEF TypeOK
<1>4. /\ DOMAIN pending \subseteq 1..position
      /\ \A i \in DOMAIN pending : pending[i] \in [deliveries : Nat, stale : BOOLEAN]
      /\ dead \subseteq [id : 1..position, reason : Reason]
      /\ newest \in [Order -> 0..MaxVersion] /\ shown \in [Order -> 0..MaxVersion]
      /\ handled \subseteq 1..position
      /\ calls \in Seq(Nat) /\ Len(calls) = Len(stream)
  BY DEF TypeOK
<1>5. ASSUME NEW c \in Consumer, StalePending(c) PROVE TypeOK'
  <2>1. /\ turn' = [turn EXCEPT ![c].stage = "stale", ![c].todo = Listed]
        /\ UNCHANGED <<stream, gone, position, pending, dead, newest, shown, handled, calls, broken, thrown>>
    BY <1>5 DEF StalePending, room, count
  <2>2. Listed \in Seq([id : 1..position, attempt : Nat])
    BY ListedIsTyped
  <2>3. PICK t \in TurnType(position) : turn' = [turn EXCEPT ![c] = t]
    <3>1. position >= position /\ "stale" \in Stage
      BY <1>0 DEF Stage
    <3> QED BY <1>0, <2>1, <2>2, <3>1, ListIsPut
  <2> QED BY <1>4, <2>1, <2>3, TypeOfStepInPlace
<1>6. ASSUME NEW c \in Consumer, Claim(c) PROVE TypeOK'
  <2> DEFINE id == Current(c).id
  <2>1. /\ turn[c].todo # <<>>
        /\ UNCHANGED <<stream, gone, position, dead, newest, shown, handled, calls, broken, thrown>>
    BY <1>6 DEF Claim, room, count
  <2>2. At(c, "dispatch") \in TurnType(position) /\ Moved(c) \in TurnType(position)
    BY <2>1, TurnsAreTyped DEF Step
  <2>3. CASE /\ id \in Stale
             /\ pending' = [pending EXCEPT ![id] = [deliveries |-> @.deliveries + 1, stale |-> FALSE]]
             /\ turn' = [turn EXCEPT ![c] = At(c, "dispatch")]
    <3>1. id \in DOMAIN pending
      BY <2>3 DEF Stale
    <3>2. [deliveries |-> pending[id].deliveries + 1, stale |-> FALSE] \in [deliveries : Nat, stale : BOOLEAN]
      BY <1>4, <2>1, <3>1
    <3>3. /\ DOMAIN pending' = DOMAIN pending
          /\ \A i \in DOMAIN pending :
               pending'[i] = IF i = id THEN [deliveries |-> pending[id].deliveries + 1, stale |-> FALSE]
                                       ELSE pending[i]
      BY <2>3
    <3>4. /\ DOMAIN pending' \subseteq 1..position
          /\ \A i \in DOMAIN pending' : pending'[i] \in [deliveries : Nat, stale : BOOLEAN]
      BY <1>4, <2>1, <3>2, <3>3, TypeOKSplit
    <3> QED BY <1>4, <2>1, <2>2, <2>3, <3>4, TypeOfStepInPlace
  <2>4. CASE /\ pending' = Without({id} \cap Stale)
             /\ turn' = [turn EXCEPT ![c] = Moved(c)]
    <3>1. /\ DOMAIN pending' \subseteq 1..position
          /\ \A i \in DOMAIN pending' : pending'[i] \in [deliveries : Nat, stale : BOOLEAN]
      BY <1>4, <2>4, WithoutKeepsTheOthers
    <3> QED BY <1>4, <2>1, <2>2, <2>4, <3>1, TypeOfStepInPlace
  <2> QED BY <1>6, <2>3, <2>4 DEF Claim
<1>7. ASSUME NEW c \in Consumer, ReadNew(c) PROVE TypeOK'
  <2>1. UNCHANGED <<stream, gone, dead, newest, shown, handled, calls, broken, thrown>>
    BY <1>7 DEF ReadNew, room, count
  <2>2. PICK p \in Nat, b \in Nat :
          /\ p = position' /\ b = Behind /\ position <= b /\ b < p /\ p <= Len(stream)
          /\ DOMAIN pending' = DOMAIN pending \cup (b + 1)..p
          /\ \A i \in DOMAIN pending' :
               pending'[i] = IF i > b THEN [deliveries |-> 1, stale |-> FALSE] ELSE pending[i]
          /\ NewBatch \in Seq([id : 1..p, attempt : Nat])
          /\ turn' = [turn EXCEPT ![c].stage = "batch", ![c].todo = NewBatch]
    BY <1>7, ReadingNew
  <2>3. p >= position
    BY <1>0, <2>2
  <2>4. PICK t \in TurnType(p) : turn' = [turn EXCEPT ![c] = t]
    <3>1. "batch" \in Stage
      BY DEF Stage
    <3>2. /\ NewBatch \in Seq([id : 1..p, attempt : Nat])
          /\ turn' = [turn EXCEPT ![c].stage = "batch", ![c].todo = NewBatch]
      BY <2>2
    <3> QED BY <2>3, <3>1, <3>2, ListIsPut
  <2>5. /\ 1..position \subseteq 1..p /\ (b + 1)..p \subseteq 1..p
        /\ \A i \in (b + 1)..p : i > b
    BY <1>0, <2>2, <2>3
  <2>6. [id : 1..position, reason : Reason] \subseteq [id : 1..p, reason : Reason]
    BY <2>5
  <2>7. DOMAIN pending' \subseteq 1..p
    BY <1>4, <2>2, <2>5
  <2>8. \A i \in DOMAIN pending' : pending'[i] \in [deliveries : Nat, stale : BOOLEAN]
    <3>1. [deliveries |-> 1, stale |-> FALSE] \in [deliveries : Nat, stale : BOOLEAN]
      OBVIOUS
    <3> QED BY <1>4, <2>2, <2>5, <3>1
  <2> QED BY <1>4, <2>1, <2>2, <2>3, <2>4, <2>5, <2>6, <2>7, <2>8, TypeOfConsumerStep
<1>8. ASSUME NEW c \in Consumer, ReadNothing(c) PROVE TypeOK'
  <2>1. /\ turn' = [turn EXCEPT ![c] = Begin]
        /\ UNCHANGED <<stream, gone, position, pending, dead, newest, shown, handled, calls, broken, thrown>>
    BY <1>8 DEF ReadNothing, room, count
  <2>2. Begin \in TurnType(position)
    BY <2>1, TurnsAreTyped
  <2> QED BY <1>4, <2>1, <2>2, TypeOfStepInPlace
<1>9. ASSUME NEW c \in Consumer, AckSkipped(c) PROVE TypeOK'
  <2>1. /\ pending' = Without(turn[c].skipped) /\ turn' = [turn EXCEPT ![c] = Begin]
        /\ UNCHANGED <<stream, gone, position, dead, newest, shown, handled, calls, broken, thrown>>
    BY <1>9 DEF AckSkipped, room, count
  <2>2. Begin \in TurnType(position)
    BY <2>1, TurnsAreTyped
  <2>3. /\ DOMAIN pending' \subseteq 1..position
        /\ \A i \in DOMAIN pending' : pending'[i] \in [deliveries : Nat, stale : BOOLEAN]
    BY <1>4, <2>1, WithoutKeepsTheOthers
  <2> QED BY <1>4, <2>1, <2>2, <2>3, TypeOfStepInPlace
<1>10. ASSUME NEW c \in Consumer, Skip(c) PROVE TypeOK'
  <2>1. /\ turn[c].todo # <<>>
        /\ turn' = [turn EXCEPT ![c] =
             IF turn[c].stage = "batch" THEN [Moved(c) EXCEPT !.skipped = @ \cup {Current(c).id}]
                                        ELSE At(c, "ack")]
        /\ UNCHANGED <<stream, gone, position, pending, dead, newest, shown, handled, calls, broken, thrown>>
    BY <1>10 DEF Skip, Dispatching, TurnInv, room, count
  <2>2. At(c, "ack") \in TurnType(position) /\ Moved(c) \in TurnType(position)
    BY <2>1, TurnsAreTyped DEF Step
  <2>3. [Moved(c) EXCEPT !.skipped = @ \cup {Current(c).id}] \in TurnType(position)
    <3>1. Current(c).id \in 1..position
      BY <2>1, InHand
    <3> DEFINE m == Moved(c)
               E == [id : 1..position, attempt : Nat]
               S == 1..position
    <3>2. m \in [stage : Stage, todo : Seq(E), step : Step, skipped : SUBSET S]
      BY <2>2 DEF TurnType
    <3>3. Current(c).id \in S
      BY <3>1
    <3> HIDE DEF m, E, S
    <3>4. [m EXCEPT !.skipped = @ \cup {Current(c).id}] \in
            [stage : Stage, todo : Seq(E), step : Step, skipped : SUBSET S]
      BY <3>2, <3>3
    <3> QED BY <3>4 DEF TurnType, E, S, m
  <2> DEFINE t == IF turn[c].stage = "batch" THEN [Moved(c) EXCEPT !.skipped = @ \cup {Current(c).id}]
                                             ELSE At(c, "ack")
  <2>4. t \in TurnType(position)
    BY <2>2, <2>3
  <2>5. turn' = [turn EXCEPT ![c] = t]
    BY <2>1
  <2> HIDE DEF t
  <2> QED BY <1>4, <2>1, <2>4, <2>5, TypeOfStepInPlace
<1>11. ASSUME NEW c \in Consumer, Ack(c) PROVE TypeOK'
  <2>1. /\ turn[c].todo # <<>>
        /\ pending' = Without({Current(c).id}) /\ turn' = [turn EXCEPT ![c] = Moved(c)]
        /\ UNCHANGED <<stream, gone, position, dead, newest, shown, handled, calls, broken, thrown>>
    BY <1>11 DEF Ack, TurnInv, room, count
  <2>2. Moved(c) \in TurnType(position)
    BY <2>1, TurnsAreTyped
  <2>3. /\ DOMAIN pending' \subseteq 1..position
        /\ \A i \in DOMAIN pending' : pending'[i] \in [deliveries : Nat, stale : BOOLEAN]
    BY <1>4, <2>1, WithoutKeepsTheOthers
  <2> QED BY <1>4, <2>1, <2>2, <2>3, TypeOfStepInPlace
<1>12. ASSUME NEW c \in Consumer, TurnBreaks(c) PROVE TypeOK'
  <2>1. /\ Trouble /\ turn' = [turn EXCEPT ![c] = Begin] /\ broken' = broken + 1
        /\ UNCHANGED <<stream, gone, position, pending, dead, newest, shown, handled, calls, thrown>>
    BY <1>12 DEF TurnBreaks, room
  <2>2. Begin \in TurnType(position)
    BY <2>1, TurnsAreTyped
  <2> QED BY <1>4, <2>1, <2>2, TypeOfStepInPlace
<1>13. ASSUME NEW c \in Consumer, NEW reason \in Reason, Bury(c, reason), turn[c].todo # <<>>
       PROVE  /\ At(c, "ack") \in TurnType(position) /\ turn' = [turn EXCEPT ![c] = At(c, "ack")]
              /\ dead' \subseteq [id : 1..position, reason : Reason]
              /\ UNCHANGED <<stream, gone, position, pending, newest, shown, handled, broken>>
  <2>1. /\ dead' = dead \cup {[id |-> Current(c).id, reason |-> reason]}
        /\ turn' = [turn EXCEPT ![c] = At(c, "ack")]
        /\ UNCHANGED <<stream, gone, position, pending, newest, shown, handled, broken>>
    BY <1>13 DEF Bury, room
  <2>2. Current(c).id \in 1..position
    BY <1>13, <2>1, InHand
  <2>3. At(c, "ack") \in TurnType(position)
    BY <2>1, TurnsAreTyped DEF Step
  <2> QED BY <1>4, <2>1, <2>2, <2>3
<1>14. ASSUME NEW c \in Consumer, GiveUp(c) PROVE TypeOK'
  <2>1. Bury(c, "exhausted") /\ UNCHANGED <<calls, thrown>> /\ turn[c].todo # <<>> /\ "exhausted" \in Reason
    BY <1>14 DEF GiveUp, Dispatching, TurnInv, Reason
  <2>2. /\ At(c, "ack") \in TurnType(position) /\ turn' = [turn EXCEPT ![c] = At(c, "ack")]
        /\ dead' \subseteq [id : 1..position, reason : Reason]
        /\ UNCHANGED <<stream, gone, position, pending, newest, shown, handled, broken>>
    BY <1>13, <2>1
  <2> QED BY <1>4, <2>1, <2>2, TypeOfStepInPlace
<1>15. ASSUME NEW c \in Consumer, Reject(c) PROVE TypeOK'
  <2>1. Called(c) /\ Trouble /\ Bury(c, "rejected") /\ thrown' = thrown + 1 /\ "rejected" \in Reason
    BY <1>15 DEF Reject, Reason
  <2>2. turn[c].todo # <<>> /\ calls' \in Seq(Nat) /\ Len(calls') = Len(stream)
    BY <2>1, CallsAreTyped
  <2>3. /\ At(c, "ack") \in TurnType(position) /\ turn' = [turn EXCEPT ![c] = At(c, "ack")]
        /\ dead' \subseteq [id : 1..position, reason : Reason]
        /\ UNCHANGED <<stream, gone, position, pending, newest, shown, handled, broken>>
    BY <1>13, <2>1, <2>2
  <2> QED BY <1>4, <2>1, <2>2, <2>3, TypeOfStepInPlace
<1>16. ASSUME NEW c \in Consumer, Throws(c) PROVE TypeOK'
  <2>1. Called(c) /\ Trouble /\ thrown' = thrown + 1 /\ "exhausted" \in Reason
    BY <1>16 DEF Throws, Reason
  <2>2. turn[c].todo # <<>> /\ calls' \in Seq(Nat) /\ Len(calls') = Len(stream)
    BY <2>1, CallsAreTyped
  <2>3. CASE Bury(c, "exhausted")
    <3>1. /\ At(c, "ack") \in TurnType(position) /\ turn' = [turn EXCEPT ![c] = At(c, "ack")]
          /\ dead' \subseteq [id : 1..position, reason : Reason]
          /\ UNCHANGED <<stream, gone, position, pending, newest, shown, handled, broken>>
      BY <1>13, <2>1, <2>2, <2>3
    <3> QED BY <1>4, <2>1, <2>2, <3>1, TypeOfStepInPlace
  <2>4. CASE /\ turn' = [turn EXCEPT ![c] = Moved(c)]
             /\ UNCHANGED <<stream, gone, position, pending, dead, room, broken>>
    <3>1. UNCHANGED <<stream, gone, position, pending, dead, newest, shown, handled, broken>>
      BY <2>4 DEF room
    <3>2. Moved(c) \in TurnType(position)
      BY <2>2, <3>1, TurnsAreTyped
    <3> QED BY <1>4, <2>1, <2>2, <2>4, <3>1, <3>2, TypeOfStepInPlace
  <2> QED BY <1>16, <2>3, <2>4 DEF Throws
<1>17. ASSUME NEW c \in Consumer, Record(c) PROVE TypeOK'
  <2> DEFINE o == EntryOf(c).order
             v == EntryOf(c).version
  <2>1. /\ Called(c) /\ newest' = [newest EXCEPT ![o] = Larger(@, v)]
        /\ UNCHANGED <<stream, gone, position, pending, dead, shown, broken, thrown>>
    BY <1>17 DEF Record
  <2>2. turn[c].todo # <<>> /\ calls' \in Seq(Nat) /\ Len(calls') = Len(stream)
    BY <2>1, CallsAreTyped
  <2>3. o \in Order /\ v \in 1..MaxVersion /\ Current(c).id \in 1..position
    BY <2>1, <2>2, InHand DEF Event
  <2>4. newest' \in [Order -> 0..MaxVersion]
    BY <1>4, <2>1, <2>3, TopicsAssumption DEF Larger
  <2>5. handled' \subseteq 1..position
    BY <1>4, <1>17, <2>1, <2>3 DEF Record
  <2>6. PICK t \in TurnType(position) : turn' = [turn EXCEPT ![c] = t]
    <3>1. \A s \in {"ack", "emit"} : At(c, s) \in TurnType(position)
      BY <2>1, TurnsAreTyped DEF Step
    <3>2. \E s \in {"ack", "emit"} : turn' = [turn EXCEPT ![c] = At(c, s)]
      BY <1>17 DEF Record
    <3> QED BY <3>1, <3>2
  <2> QED BY <1>4, <2>1, <2>2, <2>4, <2>5, <2>6, TypeOfStepInPlace
<1>18. ASSUME NEW c \in Consumer, Emit(c) PROVE TypeOK'
  <2>1. /\ turn[c].todo # <<>>
        /\ shown' = [shown EXCEPT ![EntryOf(c).order] = Larger(@, EntryOf(c).version)]
        /\ handled' = handled \cup {Current(c).id}
        /\ turn' = [turn EXCEPT ![c] = At(c, "ack")]
        /\ UNCHANGED <<stream, gone, position, pending, dead, newest, calls, broken, thrown>>
    BY <1>18 DEF Emit, TurnInv, count
  <2>2. /\ EntryOf(c).order \in Order /\ EntryOf(c).version \in 1..MaxVersion
        /\ Current(c).id \in 1..position
    BY <2>1, InHand DEF Event
  <2>3. shown' \in [Order -> 0..MaxVersion]
    BY <1>4, <2>1, <2>2, TopicsAssumption DEF Larger
  <2>4. handled' \subseteq 1..position
    BY <1>4, <2>1, <2>2
  <2>5. At(c, "ack") \in TurnType(position)
    BY <2>1, TurnsAreTyped DEF Step
  <2> QED BY <1>4, <2>1, <2>3, <2>4, <2>5, TypeOfStepInPlace
<1> QED
  BY <1>1, <1>2, <1>3, <1>5, <1>6, <1>7, <1>8, <1>9, <1>10, <1>11, <1>12, <1>14, <1>15, <1>16, <1>17, <1>18
  DEF GroupNext, Works

-----------------------------------------------------------------------------
(* What no step takes back *)

Consumes(c) == Works(c) \/ Throws(c) \/ Reject(c) \/ TurnBreaks(c)

(* Which steps of a consumer write which variable.                           *)
LEMMA WhoWrites ==
  ASSUME NEW c \in Consumer, Consumes(c)
  PROVE  /\ UNCHANGED <<stream, gone>>
         /\ UNCHANGED position \/ ReadNew(c)
         /\ UNCHANGED newest \/ Record(c)
         /\ UNCHANGED shown \/ Emit(c)
         /\ UNCHANGED handled \/ Record(c) \/ Emit(c)
         /\ dead \subseteq dead'
         /\ UNCHANGED pending \/ Claim(c) \/ ReadNew(c) \/ AckSkipped(c) \/ Ack(c)
<1>1. CASE StalePending(c) \/ Claim(c) \/ ReadNew(c) \/ ReadNothing(c) \/ AckSkipped(c)
  BY <1>1 DEF StalePending, Claim, ReadNew, ReadNothing, AckSkipped, room
<1>2. CASE Skip(c) \/ GiveUp(c)
  BY <1>2 DEF Skip, GiveUp, Bury, room
<1>3. CASE Record(c) \/ Emit(c) \/ Ack(c)
  BY <1>3 DEF Record, Emit, Ack, room
<1>4. CASE Throws(c) \/ Reject(c) \/ TurnBreaks(c)
  BY <1>4 DEF Throws, Reject, TurnBreaks, Bury, room
<1> QED BY <1>1, <1>2, <1>3, <1>4 DEF Consumes, Works

(* What was delivered, trimmed, buried, handled or shown remains so.          *)
LEMMA NothingIsTakenBack ==
  ASSUME TypeOK, \A c \in Consumer : TurnInv(c), [GroupNext]_vars
  PROVE  /\ \A i \in 1..position : /\ i \in 1..position' /\ stream'[i] = stream[i]
                                   /\ i <= gone => i <= gone'
         /\ handled \subseteq handled' /\ dead \subseteq dead'
         /\ \A o \in Order, v \in 0..MaxVersion : shown[o] >= v => shown'[o] >= v
<1>0. /\ stream \in Seq(Event) /\ Len(stream) \in Nat
      /\ position \in 0..Len(stream) /\ position \in Nat /\ gone \in 0..Len(stream) /\ gone \in Nat
  BY TypeOKSplit
<1>1. CASE UNCHANGED vars
  BY <1>1 DEF vars, group, room
<1>2. ASSUME NEW event \in Events, Arrive(event)
      PROVE  /\ \A i \in 1..position : /\ i \in 1..position' /\ stream'[i] = stream[i]
                                       /\ i <= gone => i <= gone'
             /\ UNCHANGED <<handled, dead, shown>>
  <2>1. /\ stream' = Append(stream, event) /\ gone' \in {gone, Larger(gone, Len(stream) + 1 - MaxLength)}
        /\ UNCHANGED <<position, handled, dead, shown>>
    BY <1>2 DEF Arrive, Add, group, room
  <2>2. \A i \in 1..Len(stream) : stream'[i] = stream[i]
    BY <2>1, <1>0
  <2>3. PICK g \in Nat : g = gone' /\ g >= gone
    BY <2>1, <1>0, GroupAssumption DEF Larger
  <2>4. \A i \in 1..position : i <= gone => i <= g
    BY <1>0, <2>3
  <2> QED BY <1>0, <2>1, <2>2, <2>3, <2>4
<1>3. ASSUME NEW i \in DOMAIN stream, GoesStale(i)
      PROVE  UNCHANGED <<stream, gone, position, handled, dead, shown>>
  BY <1>3 DEF GoesStale, room
<1>4. ASSUME NEW c \in Consumer, Consumes(c)
      PROVE  /\ \A i \in 1..position : /\ i \in 1..position' /\ stream'[i] = stream[i]
                                       /\ i <= gone => i <= gone'
             /\ handled \subseteq handled' /\ dead \subseteq dead'
             /\ \A o \in Order, v \in 0..MaxVersion : shown[o] >= v => shown'[o] >= v
  <2>1. UNCHANGED <<stream, gone>> /\ dead \subseteq dead'
    BY <1>4, WhoWrites
  <2>2. \A i \in 1..position : i \in 1..position'
    <3>1. CASE ReadNew(c)
      <4>1. PICK p \in Nat : p = position' /\ p >= position
        <5>1. Behind \in Nat /\ position <= Behind /\ Behind < position' /\ position' \in Nat
          BY <3>1, ReadingNew
        <5>2. PICK p \in Nat, b \in Nat : p = position' /\ b = Behind
          BY <5>1
        <5>3. position <= b /\ b < p
          BY <5>1, <5>2
        <5>4. position <= p
          BY <1>0, <5>3
        <5> QED BY <5>2, <5>4
      <4>2. \A i \in 1..position : i \in 1..p
        BY <1>0, <4>1
      <4> QED BY <4>1, <4>2
    <3> QED BY <1>4, <3>1, WhoWrites
  <2>3. handled \subseteq handled'
    BY <1>4, WhoWrites DEF Record, Emit
  <2>4. \A o \in Order, v \in 0..MaxVersion : shown[o] >= v => shown'[o] >= v
    <3>1. CASE Emit(c)
      <4>1. turn[c].todo # <<>> /\ shown' = [shown EXCEPT ![EntryOf(c).order] = Larger(@, EntryOf(c).version)]
        BY <3>1 DEF Emit, TurnInv
      <4>2. EntryOf(c).order \in Order /\ EntryOf(c).version \in 1..MaxVersion
        BY <4>1, InHand DEF Event
      <4>3. shown \in [Order -> 0..MaxVersion]
        BY DEF TypeOK
      <4> QED BY <4>1, <4>2, <4>3, TopicsAssumption DEF Larger
    <3> QED BY <1>4, <3>1, WhoWrites
  <2> QED BY <2>1, <2>2, <2>3, <2>4
<1> QED BY <1>1, <1>2, <1>3, <1>4 DEF GroupNext, Consumes

(* So what is done with stays done with. *)
LEMMA DoneStaysDone ==
  ASSUME TypeOK, \A c \in Consumer : TurnInv(c), [GroupNext]_vars, NEW i \in 1..position
  PROVE  /\ i \in 1..position'
         /\ Heeds(i)' <=> Heeds(i)
         /\ Buried(i) => Buried(i)'
         /\ Done(i) => Done(i)'
         /\ i <= gone => i <= gone'
BY NothingIsTakenBack DEF Heeds, Buried, Done

(* An entry leaves the pending list when it is done with, or was trimmed.     *)
LEMMA OnlyTheDoneLeave ==
  ASSUME TypeOK, \A c \in Consumer : TurnInv(c), [GroupNext]_vars,
         NEW i \in DOMAIN pending, i \notin DOMAIN pending'
  PROVE  \/ i \in handled \/ Buried(i) \/ ~Heeds(i)
         \/ i <= gone
<1>1. CASE UNCHANGED vars
  BY <1>1 DEF vars, group
<1>2. ASSUME NEW event \in Events, Arrive(event) PROVE FALSE
  BY <1>2 DEF Arrive, group
<1>3. ASSUME NEW j \in DOMAIN stream, GoesStale(j) PROVE FALSE
  BY <1>3 DEF GoesStale
<1>4. ASSUME NEW c \in Consumer, Consumes(c)
      PROVE  Done(i) \/ i <= gone
  <2>1. CASE Claim(c)
    <3>1. /\ Current(c).id \notin Stale \/ ~(Current(c).id > gone)
          /\ pending' = Without({Current(c).id} \cap Stale)
      BY <2>1 DEF Claim
    <3> DEFINE ids == {Current(c).id} \cap Stale
    <3>2. i = Current(c).id /\ i \in Stale
      <4>1. pending' = Without(ids)
        BY <3>1
      <4>2. i \in ids
        <5> HIDE DEF ids
        <5> QED BY <4>1, WithoutKeepsTheOthers
      <4> QED BY <4>2
    <3>3. i \in 1..position /\ position \in Nat /\ gone \in Nat
      BY TypeOKSplit
    <3>4. i \in Nat
      BY <3>3
    <3> QED BY <3>1, <3>2, <3>3, <3>4
  <2>2. CASE ReadNew(c)
    BY <2>2 DEF ReadNew
  <2>3. CASE AckSkipped(c)
    <3>1. i \in turn[c].skipped
      BY <2>3, WithoutKeepsTheOthers DEF AckSkipped
    <3> QED BY <3>1 DEF TurnInv, Done
  <2>4. CASE Ack(c)
    <3>1. i = Current(c).id /\ turn[c].step = "ack"
      BY <2>4, WithoutKeepsTheOthers DEF Ack
    <3> QED BY <3>1 DEF TurnInv
  <2> QED BY <1>4, <2>1, <2>2, <2>3, <2>4, WhoWrites
<1> QED BY <1>1, <1>2, <1>3, <1>4 DEF GroupNext, Consumes, Done

-----------------------------------------------------------------------------
(* The turns *)

(* Only the consumer that works moves on, and in one of four ways.            *)
LEMMA TurnsMove ==
  ASSUME TypeOK, \A c \in Consumer : TurnInv(c), NEW c \in Consumer, Consumes(c)
  PROVE  /\ \A d \in Consumer \ {c} : turn'[d] = turn[d]
         /\ StalePending(c) => Lists(c, "stale", Listed) /\ turn[c] = Begin
         /\ Claim(c) => \/ /\ Keeps(c, "dispatch") /\ turn[c].stage = "stale" /\ turn[c].step = "take"
                           /\ Current(c).id \in Stale
                           /\ pending' = [pending EXCEPT ![Current(c).id] =
                                [deliveries |-> @.deliveries + 1, stale |-> FALSE]]
                        \/ /\ Moves(c) /\ turn'[c].skipped = turn[c].skipped
                           /\ turn[c].stage = "stale" /\ turn[c].step = "take"
                           /\ pending' = Without({Current(c).id} \cap Stale)
         /\ ReadNew(c) => /\ Lists(c, "batch", NewBatch) /\ turn[c].stage = "stale"
                          /\ turn[c].step = "take" /\ turn[c].todo = <<>>
         /\ ReadNothing(c) => turn'[c] = Begin /\ turn[c].todo = <<>>
         /\ AckSkipped(c) => turn'[c] = Begin /\ turn[c].todo = <<>>
         /\ Skip(c) => /\ ~Heeds(Current(c).id)
                       /\ \/ /\ Moves(c) /\ turn[c].stage = "batch"
                             /\ turn'[c].skipped = turn[c].skipped \cup {Current(c).id}
                          \/ Keeps(c, "ack")
         /\ GiveUp(c) => Keeps(c, "ack") /\ Bury(c, "exhausted")
         /\ Reject(c) => Keeps(c, "ack") /\ Bury(c, "rejected")
         /\ Record(c) => \/ Keeps(c, "ack") /\ handled' = handled \cup {Current(c).id}
                         \/ Keeps(c, "emit")
         /\ Throws(c) => \/ Keeps(c, "ack") /\ Bury(c, "exhausted") /\ LastTry(Current(c).attempt)
                         \/ /\ Moves(c) /\ turn'[c].skipped = turn[c].skipped
                            /\ UNCHANGED <<pending, dead>>
         /\ Emit(c) => Keeps(c, "ack") /\ turn[c].step = "emit"
         /\ Ack(c) => Moves(c) /\ turn'[c].skipped = turn[c].skipped /\ turn[c].step = "ack"
         /\ TurnBreaks(c) => turn'[c] = Begin
<1>0. /\ turn \in [Consumer -> TurnType(position)] /\ position \in Nat /\ position >= position
      /\ DOMAIN turn = Consumer
  BY TypeOKSplit
<1>1. ASSUME NEW t, turn' = [turn EXCEPT ![c] = t]
      PROVE  turn'[c] = t /\ \A d \in Consumer \ {c} : turn'[d] = turn[d]
  BY <1>0, <1>1
<1>2. ASSUME NEW step \in Step, turn' = [turn EXCEPT ![c] = At(c, step)], turn[c].todo # <<>>
      PROVE  Keeps(c, step) /\ \A d \in Consumer \ {c} : turn'[d] = turn[d]
  <2>1. turn'[c] = At(c, step) /\ \A d \in Consumer \ {c} : turn'[d] = turn[d]
    BY <1>1, <1>2
  <2>2. At(c, step) = [stage |-> turn[c].stage, todo |-> turn[c].todo,
                       step |-> step, skipped |-> turn[c].skipped]
    BY TurnsAreTyped
  <2> QED BY <1>2, <2>1, <2>2 DEF Keeps
<1>3. Moved(c) = [stage |-> turn[c].stage, todo |-> Tail(turn[c].todo),
                  step |-> "take", skipped |-> turn[c].skipped]
  BY TurnsAreTyped
<1>4. ASSUME turn' = [turn EXCEPT ![c] = Moved(c)], turn[c].todo # <<>>
      PROVE  /\ Moves(c) /\ turn'[c].skipped = turn[c].skipped
             /\ \A d \in Consumer \ {c} : turn'[d] = turn[d]
  <2>1. turn'[c] = Moved(c) /\ \A d \in Consumer \ {c} : turn'[d] = turn[d]
    BY <1>1, <1>4
  <2> QED BY <1>3, <1>4, <2>1 DEF Moves
<1>5. "ack" \in Step /\ "emit" \in Step /\ "dispatch" \in Step /\ "stale" \in Stage /\ "batch" \in Stage
  BY DEF Step, Stage
<1>6. TurnInv(c)
  OBVIOUS
<1>10. ASSUME StalePending(c)
       PROVE  /\ Lists(c, "stale", Listed) /\ turn[c] = Begin
              /\ \A d \in Consumer \ {c} : turn'[d] = turn[d]
  <2>1. turn' = [turn EXCEPT ![c].stage = "stale", ![c].todo = Listed] /\ turn[c] = Begin
    BY <1>6, <1>10 DEF StalePending, TurnInv
  <2>2. Lists(c, "stale", Listed) /\ \A d \in Consumer \ {c} : turn'[d] = turn[d]
    BY <1>0, <1>5, <2>1, ListedIsTyped, ListIsPut
  <2> QED BY <2>1, <2>2
<1>11. ASSUME Claim(c)
       PROVE  /\ \/ /\ Keeps(c, "dispatch") /\ turn[c].stage = "stale" /\ turn[c].step = "take"
                    /\ Current(c).id \in Stale
                    /\ pending' = [pending EXCEPT ![Current(c).id] =
                         [deliveries |-> @.deliveries + 1, stale |-> FALSE]]
                 \/ /\ Moves(c) /\ turn'[c].skipped = turn[c].skipped
                    /\ turn[c].stage = "stale" /\ turn[c].step = "take"
                    /\ pending' = Without({Current(c).id} \cap Stale)
              /\ \A d \in Consumer \ {c} : turn'[d] = turn[d]
  <2>1. turn[c].stage = "stale" /\ turn[c].step = "take" /\ turn[c].todo # <<>>
    BY <1>11 DEF Claim
  <2>2. CASE /\ Current(c).id \in Stale
             /\ pending' = [pending EXCEPT ![Current(c).id] = [deliveries |-> @.deliveries + 1, stale |-> FALSE]]
             /\ turn' = [turn EXCEPT ![c] = At(c, "dispatch")]
    <3>1. Keeps(c, "dispatch") /\ \A d \in Consumer \ {c} : turn'[d] = turn[d]
      BY <1>2, <1>5, <2>1, <2>2
    <3> QED BY <2>1, <2>2, <3>1
  <2>3. CASE /\ pending' = Without({Current(c).id} \cap Stale)
             /\ turn' = [turn EXCEPT ![c] = Moved(c)]
    <3>1. /\ Moves(c) /\ turn'[c].skipped = turn[c].skipped
          /\ \A d \in Consumer \ {c} : turn'[d] = turn[d]
      BY <1>4, <2>1, <2>3
    <3> QED BY <2>1, <2>3, <3>1
  <2> QED BY <1>11, <2>2, <2>3 DEF Claim
<1>12. ASSUME ReadNew(c)
       PROVE  /\ Lists(c, "batch", NewBatch) /\ turn[c].stage = "stale"
              /\ turn[c].step = "take" /\ turn[c].todo = <<>>
              /\ \A d \in Consumer \ {c} : turn'[d] = turn[d]
  <2>1. turn[c].stage = "stale" /\ turn[c].todo = <<>> /\ turn[c].step = "take"
    BY <1>0, <1>6, <1>12 DEF ReadNew, Reading, TurnInv
  <2>2. PICK p \in Nat, b \in Nat : /\ p = position' /\ b = Behind /\ position <= b /\ b < p
                                    /\ NewBatch \in Seq([id : 1..p, attempt : Nat])
                                    /\ turn' = [turn EXCEPT ![c].stage = "batch", ![c].todo = NewBatch]
    BY <1>12, ReadingNew
  <2>3. p >= position
    BY <1>0, <2>2
  <2>4. /\ NewBatch \in Seq([id : 1..p, attempt : Nat])
        /\ turn' = [turn EXCEPT ![c].stage = "batch", ![c].todo = NewBatch]
    BY <2>2
  <2>5. Lists(c, "batch", NewBatch) /\ \A d \in Consumer \ {c} : turn'[d] = turn[d]
    BY <1>5, <2>3, <2>4, ListIsPut
  <2> QED BY <2>1, <2>5
<1>13. ASSUME ReadNothing(c) \/ AckSkipped(c)
       PROVE  turn'[c] = Begin /\ turn[c].todo = <<>> /\ \A d \in Consumer \ {c} : turn'[d] = turn[d]
  <2>1. turn' = [turn EXCEPT ![c] = Begin] /\ turn[c].todo = <<>>
    BY <1>13 DEF ReadNothing, Reading, AckSkipped
  <2> QED BY <1>1, <2>1
<1>14. ASSUME TurnBreaks(c)
       PROVE  turn'[c] = Begin /\ \A d \in Consumer \ {c} : turn'[d] = turn[d]
  BY <1>1, <1>14 DEF TurnBreaks
<1>15. ASSUME Skip(c)
       PROVE  /\ ~Heeds(Current(c).id)
              /\ \/ /\ Moves(c) /\ turn[c].stage = "batch"
                    /\ turn'[c].skipped = turn[c].skipped \cup {Current(c).id}
                 \/ Keeps(c, "ack")
              /\ \A d \in Consumer \ {c} : turn'[d] = turn[d]
  <2>1. turn[c].todo # <<>> /\ ~Heeds(Current(c).id)
    BY <1>6, <1>15 DEF Skip, Dispatching, TurnInv, EntryOf, Heeds
  <2>2. CASE turn[c].stage # "batch"
    <3>1. turn' = [turn EXCEPT ![c] = At(c, "ack")]
      BY <1>15, <2>2 DEF Skip
    <3> QED BY <1>2, <1>5, <2>1, <3>1
  <2>3. CASE turn[c].stage = "batch"
    <3> DEFINE m == [Moved(c) EXCEPT !.skipped = @ \cup {Current(c).id}]
    <3>1. turn' = [turn EXCEPT ![c] = m]
      BY <1>15, <2>3 DEF Skip
    <3>2. m = [stage |-> turn[c].stage, todo |-> Tail(turn[c].todo),
               step |-> "take", skipped |-> turn[c].skipped \cup {Current(c).id}]
      <4>1. PICK g, q, k : /\ g = turn[c].stage /\ q = Tail(turn[c].todo) /\ k = turn[c].skipped
                           /\ Moved(c) = [stage |-> g, todo |-> q, step |-> "take", skipped |-> k]
        BY <1>3
      <4> DEFINE r == [stage |-> g, todo |-> q, step |-> "take", skipped |-> k]
      <4>2. m = [r EXCEPT !.skipped = r.skipped \cup {Current(c).id}]
        BY <4>1
      <4>3. m = [stage |-> g, todo |-> q, step |-> "take", skipped |-> k \cup {Current(c).id}]
        <5> HIDE DEF m
        <5> QED BY <4>2
      <4> HIDE DEF m
      <4> QED BY <4>1, <4>3
    <3> HIDE DEF m
    <3>3. turn'[c] = m /\ \A d \in Consumer \ {c} : turn'[d] = turn[d]
      BY <1>1, <3>1
    <3>4. /\ Moves(c) /\ turn'[c].skipped = turn[c].skipped \cup {Current(c).id}
      BY <2>1, <3>2, <3>3 DEF Moves
    <3> QED BY <2>1, <2>3, <3>3, <3>4
  <2> QED BY <2>2, <2>3
<1>16. ASSUME GiveUp(c)
       PROVE  Keeps(c, "ack") /\ Bury(c, "exhausted") /\ \A d \in Consumer \ {c} : turn'[d] = turn[d]
  <2>1. Bury(c, "exhausted") /\ turn[c].todo # <<>> /\ turn' = [turn EXCEPT ![c] = At(c, "ack")]
    BY <1>6, <1>16 DEF GiveUp, Bury, Dispatching, TurnInv
  <2> QED BY <1>2, <1>5, <2>1
<1>17. Called(c) => turn[c].todo # <<>>
  BY <1>6 DEF Called, Dispatching, TurnInv
<1>18. ASSUME Reject(c)
       PROVE  Keeps(c, "ack") /\ Bury(c, "rejected") /\ \A d \in Consumer \ {c} : turn'[d] = turn[d]
  <2>1. Bury(c, "rejected") /\ turn[c].todo # <<>> /\ turn' = [turn EXCEPT ![c] = At(c, "ack")]
    BY <1>17, <1>18 DEF Reject, Bury
  <2> QED BY <1>2, <1>5, <2>1
<1>19. ASSUME Record(c)
       PROVE  /\ \/ Keeps(c, "ack") /\ handled' = handled \cup {Current(c).id}
                 \/ Keeps(c, "emit")
              /\ \A d \in Consumer \ {c} : turn'[d] = turn[d]
  <2>1. turn[c].todo # <<>>
    BY <1>17, <1>19 DEF Record
  <2>2. CASE turn' = [turn EXCEPT ![c] = At(c, "ack")] /\ handled' = handled \cup {Current(c).id}
    BY <1>2, <1>5, <2>1, <2>2
  <2>3. CASE turn' = [turn EXCEPT ![c] = At(c, "emit")]
    BY <1>2, <1>5, <2>1, <2>3
  <2> QED BY <1>19, <2>2, <2>3 DEF Record
<1>20. ASSUME Throws(c)
       PROVE  /\ \/ Keeps(c, "ack") /\ Bury(c, "exhausted") /\ LastTry(Current(c).attempt)
                 \/ /\ Moves(c) /\ turn'[c].skipped = turn[c].skipped
                    /\ UNCHANGED <<pending, dead>>
              /\ \A d \in Consumer \ {c} : turn'[d] = turn[d]
  <2>1. turn[c].todo # <<>>
    BY <1>17, <1>20 DEF Throws
  <2>2. CASE LastTry(Current(c).attempt) /\ Bury(c, "exhausted")
    <3>1. turn' = [turn EXCEPT ![c] = At(c, "ack")]
      BY <2>2 DEF Bury
    <3>2. Keeps(c, "ack") /\ \A d \in Consumer \ {c} : turn'[d] = turn[d]
      BY <1>2, <1>5, <2>1, <3>1
    <3> QED BY <2>2, <3>2
  <2>3. CASE turn' = [turn EXCEPT ![c] = Moved(c)] /\ UNCHANGED <<pending, dead>>
    <3>1. /\ Moves(c) /\ turn'[c].skipped = turn[c].skipped
          /\ \A d \in Consumer \ {c} : turn'[d] = turn[d]
      BY <1>4, <2>1, <2>3
    <3> QED BY <2>3, <3>1
  <2> QED BY <1>20, <2>2, <2>3 DEF Throws
<1>21. ASSUME Emit(c)
       PROVE  /\ Keeps(c, "ack") /\ turn[c].step = "emit"
              /\ \A d \in Consumer \ {c} : turn'[d] = turn[d]
  <2>1. /\ turn[c].todo # <<>> /\ turn[c].step = "emit" /\ turn' = [turn EXCEPT ![c] = At(c, "ack")]
    BY <1>6, <1>21 DEF Emit, TurnInv
  <2>2. Keeps(c, "ack") /\ \A d \in Consumer \ {c} : turn'[d] = turn[d]
    BY <1>2, <1>5, <2>1
  <2> QED BY <2>1, <2>2
<1>22. ASSUME Ack(c)
       PROVE  /\ Moves(c) /\ turn'[c].skipped = turn[c].skipped /\ turn[c].step = "ack"
              /\ \A d \in Consumer \ {c} : turn'[d] = turn[d]
  <2>1. turn[c].todo # <<>> /\ turn[c].step = "ack" /\ turn' = [turn EXCEPT ![c] = Moved(c)]
    BY <1>6, <1>22 DEF Ack, TurnInv
  <2>2. /\ Moves(c) /\ turn'[c].skipped = turn[c].skipped
        /\ \A d \in Consumer \ {c} : turn'[d] = turn[d]
    BY <1>4, <2>1
  <2> QED BY <2>1, <2>2
<1>30. \A d \in Consumer \ {c} : turn'[d] = turn[d]
  BY <1>10, <1>11, <1>12, <1>13, <1>14, <1>15, <1>16, <1>18, <1>19, <1>20, <1>21, <1>22 DEF Consumes, Works
<1> QED
  BY <1>10, <1>11, <1>12, <1>13, <1>14, <1>15, <1>16, <1>18, <1>19, <1>20, <1>21, <1>22, <1>30

(* A consumer that does not move keeps its invariant.                        *)
LEMMA RestingTurnKept ==
  ASSUME TypeOK, \A c \in Consumer : TurnInv(c), [GroupNext]_vars,
         NEW d \in Consumer, turn'[d] = turn[d]
  PROVE  TurnInv(d)'
<1>1. TurnInv(d)
  OBVIOUS
<1>2. \A i \in turn[d].skipped : ~Heeds(i)'
  <2>1. turn[d].skipped \subseteq 1..position
    BY TurnsAreTyped DEF TurnType
  <2> QED BY <1>1, <2>1, DoneStaysDone DEF TurnInv
<1>3. CASE turn[d].step = "take"
  BY <1>1, <1>2, <1>3 DEF TurnInv
<1>4. CASE turn[d].step # "take"
  <2>1. turn[d].todo # <<>>
    BY <1>1, <1>4 DEF TurnInv
  <2>2. PICK i \in 1..position : i = Head(turn[d].todo).id
    BY <2>1, InHand DEF Current
  <2>3. (Heeds(i) => Heeds(i)') /\ (Done(i) => Done(i)')
    BY DoneStaysDone
  <2>4. /\ turn[d].step = "emit" => Heeds(i)
        /\ turn[d].step = "ack" => Done(i)
    BY <1>1, <2>2 DEF TurnInv, Current
  <2>5. /\ turn'[d].step = "emit" => Heeds(Current(d).id)'
        /\ turn'[d].step = "ack" => Done(Current(d).id)'
    BY <2>2, <2>3, <2>4 DEF Heeds, Done, Buried, Current
  <2> QED BY <1>1, <1>2, <2>1, <2>5 DEF TurnInv
<1> QED BY <1>3, <1>4

(* Every step keeps the invariant of every turn: what a consumer is about to *)
(* acknowledge it has handled, buried or skipped.                            *)
LEMMA TurnInvKept ==
  ASSUME TypeOK, \A c \in Consumer : TurnInv(c), [GroupNext]_vars
  PROVE  \A d \in Consumer : TurnInv(d)'
<1>1. CASE turn' = turn
  BY <1>1, RestingTurnKept
<1>2. ASSUME NEW c \in Consumer, Consumes(c)
      PROVE  TurnInv(c)'
  <2>0. /\ \A i \in turn[c].skipped : i \in 1..position /\ ~Heeds(i) /\ ~Heeds(i)'
        /\ turn[c].stage = "listing" => turn[c] = Begin
        /\ turn[c].step = "dispatch" => turn[c].stage = "stale"
    <3>1. turn[c].skipped \subseteq 1..position
      BY TurnsAreTyped DEF TurnType
    <3> QED BY <3>1, DoneStaysDone DEF TurnInv
  <2>1. CASE turn'[c] = Begin
    BY <2>1 DEF TurnInv, Begin
  <2>2. ASSUME Moves(c), turn[c].stage # "listing",
               \A i \in turn'[c].skipped : ~Heeds(i)'
        PROVE  TurnInv(c)'
    BY <2>2 DEF TurnInv, Moves
  <2>3. ASSUME NEW step, Keeps(c, step), turn[c].stage # "listing", step \in {"dispatch", "emit", "ack"},
               step = "dispatch" => turn[c].stage = "stale",
               step = "emit" => Heeds(Current(c).id)',
               step = "ack" => Done(Current(c).id)'
        PROVE  TurnInv(c)'
    BY <2>0, <2>3 DEF TurnInv, Keeps
  <2>4. turn[c].todo # <<>> => turn[c].stage # "listing"
    BY <2>0 DEF Begin
  <2>5. ASSUME turn[c].todo # <<>>, NEW step, Keeps(c, step)
        PROVE  /\ Current(c).id \in 1..position /\ Current(c)' = Current(c)
               /\ Heeds(Current(c).id) => Heeds(Current(c).id)'
    <3>1. Current(c).id \in 1..position /\ Current(c)' = Current(c)
      BY <2>5, InHand DEF Keeps, Current
    <3>2. PICK i \in 1..position : i = Current(c).id
      BY <3>1
    <3>3. Heeds(i) => Heeds(i)'
      BY DoneStaysDone
    <3> QED BY <3>1, <3>2, <3>3 DEF Heeds
  <2>6. CASE StalePending(c)
    <3>1. Lists(c, "stale", Listed) /\ turn[c] = Begin
      BY <1>2, <2>6, TurnsMove
    <3> QED BY <3>1 DEF TurnInv, Lists, Begin
  <2>7. CASE Claim(c)
    <3>1. CASE Keeps(c, "dispatch") /\ turn[c].stage = "stale"
      BY <2>3, <3>1
    <3>2. CASE Moves(c) /\ turn'[c].skipped = turn[c].skipped /\ turn[c].stage = "stale"
      BY <2>0, <2>2, <3>2
    <3> QED BY <1>2, <2>7, <3>1, <3>2, TurnsMove
  <2>8. CASE ReadNew(c)
    <3>1. /\ Lists(c, "batch", NewBatch) /\ turn[c].step = "take"
      BY <1>2, <2>8, TurnsMove
    <3> QED BY <2>0, <3>1 DEF TurnInv, Lists
  <2>9. CASE ReadNothing(c) \/ AckSkipped(c) \/ TurnBreaks(c)
    BY <1>2, <2>1, <2>9, TurnsMove
  <2>10. CASE Skip(c)
    <3>1. /\ ~Heeds(Current(c).id)
          /\ \/ /\ Moves(c) /\ turn[c].stage = "batch"
                /\ turn'[c].skipped = turn[c].skipped \cup {Current(c).id}
             \/ Keeps(c, "ack")
      BY <1>2, <2>10, TurnsMove
    <3>2. turn[c].todo # <<>>
      BY <3>1 DEF Moves, Keeps
    <3>3. PICK i \in 1..position : i = Current(c).id
      BY <3>2, InHand
    <3>4. ~Heeds(i)' /\ (Done(i) => Done(i)') /\ Done(i)
      BY <3>1, <3>3, DoneStaysDone DEF Done
    <3>5. CASE Keeps(c, "ack")
      <4>1. Current(c)' = Current(c)
        BY <2>5, <3>2, <3>5
      <4>2. Done(Current(c).id)'
        BY <3>3, <3>4, <4>1 DEF Done, Buried, Heeds
      <4> QED BY <2>3, <2>4, <3>2, <3>5, <4>2
    <3>6. CASE /\ Moves(c)
               /\ turn'[c].skipped = turn[c].skipped \cup {Current(c).id}
      <4>1. \A j \in turn'[c].skipped : ~Heeds(j)'
        BY <2>0, <3>3, <3>4, <3>6
      <4> QED BY <2>2, <2>4, <3>2, <3>6, <4>1
    <3> QED BY <3>1, <3>5, <3>6
  <2>11. ASSUME NEW reason, Keeps(c, "ack"), Bury(c, reason)
         PROVE  TurnInv(c)'
    <3>1. turn[c].todo # <<>>
      BY <2>11 DEF Keeps
    <3>2. Current(c)' = Current(c)
      BY <2>5, <2>11, <3>1
    <3>3. Done(Current(c).id)'
      <4> DEFINE sent == [id |-> Current(c).id, reason |-> reason]
      <4>1. sent \in dead' /\ sent.id = Current(c).id
        BY <2>11 DEF Bury
      <4> HIDE DEF sent
      <4> QED BY <3>2, <4>1 DEF Done, Buried
    <3> QED BY <2>3, <2>4, <2>11, <3>1, <3>3
  <2>12. CASE GiveUp(c) \/ Reject(c)
    BY <1>2, <2>11, <2>12, TurnsMove
  <2>13. CASE Throws(c)
    <3>1. CASE Keeps(c, "ack") /\ Bury(c, "exhausted")
      BY <2>11, <3>1
    <3>2. CASE Moves(c) /\ turn'[c].skipped = turn[c].skipped
      <4>1. turn[c].todo # <<>>
        BY <3>2 DEF Moves
      <4> QED BY <2>0, <2>2, <2>4, <3>2, <4>1
    <3> QED BY <1>2, <2>13, <3>1, <3>2, TurnsMove
  <2>14. ASSUME Keeps(c, "ack"), handled' = handled \cup {Current(c).id}
         PROVE  TurnInv(c)'
    <3>1. turn[c].todo # <<>>
      BY <2>14 DEF Keeps
    <3>2. Current(c)' = Current(c)
      BY <2>5, <2>14, <3>1
    <3>3. Done(Current(c).id)'
      BY <2>14, <3>2 DEF Done
    <3> QED BY <2>3, <2>4, <2>14, <3>1, <3>3
  <2>15. CASE Record(c)
    <3>1. CASE Keeps(c, "emit")
      <4>1. turn[c].todo # <<>>
        BY <3>1 DEF Keeps
      <4>2. Heeds(Current(c).id)
        BY <2>15 DEF Record, Called, EntryOf, Heeds
      <4>3. Heeds(Current(c).id)'
        BY <2>5, <3>1, <4>1, <4>2
      <4> QED BY <2>3, <2>4, <3>1, <4>1, <4>3
    <3> QED BY <1>2, <2>14, <2>15, <3>1, TurnsMove
  <2>16. CASE Emit(c)
    <3>1. Keeps(c, "ack") /\ handled' = handled \cup {Current(c).id}
      BY <1>2, <2>16, TurnsMove DEF Emit
    <3> QED BY <2>14, <3>1
  <2>17. CASE Ack(c)
    <3>1. Moves(c) /\ turn'[c].skipped = turn[c].skipped
      BY <1>2, <2>17, TurnsMove
    <3>2. turn[c].todo # <<>>
      BY <3>1 DEF Moves
    <3> QED BY <2>0, <2>2, <2>4, <3>1, <3>2
  <2> QED
    BY <1>2, <2>6, <2>7, <2>8, <2>9, <2>10, <2>12, <2>13, <2>15, <2>16, <2>17 DEF Consumes, Works
<1>3. ASSUME NEW c \in Consumer, Consumes(c)
      PROVE  \A d \in Consumer : TurnInv(d)'
  <2>1. \A d \in Consumer \ {c} : turn'[d] = turn[d]
    BY <1>3, TurnsMove
  <2> QED BY <1>2, <1>3, <2>1, RestingTurnKept
<1>4. turn' = turn \/ \E c \in Consumer : Consumes(c)
  BY DEF GroupNext, Consumes, vars, group, Arrive, GoesStale
<1> QED BY <1>1, <1>3, <1>4

-----------------------------------------------------------------------------
(* None vanishes, and what is handled is shown *)

(* An entry the group passes over was trimmed, one it delivers is pending.    *)
LEMMA NoneVanishesKept ==
  ASSUME TypeOK, \A c \in Consumer : TurnInv(c), NoneVanishes, [GroupNext]_vars
  PROVE  NoneVanishes'
<1> SUFFICES ASSUME NEW i \in 1..position'
             PROVE  (i \in DOMAIN pending \/ i \in handled \/ Buried(i) \/ ~Heeds(i) \/ i <= gone)'
  BY DEF NoneVanishes
<1>1. CASE i \in 1..position
  <2>1. CASE i \in DOMAIN pending
    <3>1. i \in DOMAIN pending' \/ Done(i) \/ i <= gone
      BY <2>1, OnlyTheDoneLeave DEF Done
    <3> QED BY <1>1, <3>1, DoneStaysDone DEF Done
  <2>2. CASE Done(i) \/ i <= gone
    BY <1>1, <2>2, DoneStaysDone DEF Done
  <2> QED BY <1>1, <2>1, <2>2 DEF NoneVanishes, Done
<1>2. CASE i \notin 1..position
  <2>1. position' # position
    BY <1>2
  <2>2. PICK c \in Consumer : ReadNew(c)
    BY <2>1, WhoWrites DEF GroupNext, Consumes, vars, group, Arrive, GoesStale
  <2>3. PICK p \in Nat, b \in Nat : /\ p = position' /\ b = Behind /\ position <= b /\ b < p
                                    /\ DOMAIN pending' = DOMAIN pending \cup (b + 1)..p
                                    /\ b = position \/ b = gone
    BY <2>2, ReadingNew
  <2>4. i \in 1..p /\ position \in Nat /\ gone \in Nat
    BY <2>3, TypeOKSplit
  <2>5. CASE i > b
    <3>1. i \in (b + 1)..p
      BY <2>4, <2>5
    <3> QED BY <2>3, <3>1
  <2>6. CASE ~(i > b)
    <3>1. i <= b /\ ~(i <= position)
      BY <1>2, <2>4, <2>6
    <3>2. b = gone
      BY <2>3, <3>1
    <3>3. gone' = gone
      BY <2>2 DEF ReadNew
    <3> QED BY <3>1, <3>2, <3>3
  <2> QED BY <2>5, <2>6
<1> QED BY <1>1, <1>2

(* The entry in hand brings the version the room records.                     *)
LEMMA NewestKept ==
  ASSUME TypeOK, \A c \in Consumer : TurnInv(c), NewestInv, [GroupNext]_vars
  PROVE  NewestInv'
<1> SUFFICES ASSUME NEW o \in Order, newest'[o] > 0
             PROVE  \E j \in 1..position' :
                      stream'[j].order = o /\ stream'[j].version = newest'[o] /\ Heeds(j)'
  BY DEF NewestInv
<1>1. CASE newest'[o] = newest[o]
  <2>1. PICK j \in 1..position : stream[j].order = o /\ stream[j].version = newest[o] /\ Heeds(j)
    BY <1>1 DEF NewestInv
  <2>2. j \in 1..position' /\ stream'[j] = stream[j] /\ Heeds(j)'
    BY <2>1, DoneStaysDone, NothingIsTakenBack
  <2> QED BY <1>1, <2>1, <2>2
<1>2. CASE newest'[o] # newest[o]
  <2>1. newest' # newest
    BY <1>2
  <2>2. PICK c \in Consumer : Record(c)
    BY <2>1, WhoWrites DEF GroupNext, Consumes, vars, room, Arrive, GoesStale
  <2>3. /\ newest' = [newest EXCEPT ![EntryOf(c).order] = Larger(@, EntryOf(c).version)]
        /\ UNCHANGED <<stream, position>> /\ Heeds(Current(c).id)
    BY <2>2 DEF Record, Called, EntryOf, Heeds
  <2>4. turn[c].todo # <<>>
    BY <2>2 DEF Record, Called, Dispatching, TurnInv
  <2>5. PICK j \in 1..position : j = Current(c).id /\ EntryOf(c) = stream[j] /\ EntryOf(c) \in Event
    BY <2>4, InHand
  <2>6. newest \in [Order -> 0..MaxVersion]
    BY DEF TypeOK
  <2>7. o = EntryOf(c).order /\ newest'[o] = EntryOf(c).version
    BY <1>2, <2>3, <2>6 DEF Larger
  <2>8. Heeds(j)'
    BY <2>3, <2>5 DEF Heeds
  <2> QED BY <2>3, <2>5, <2>7, <2>8
<1> QED BY <1>1, <1>2

LEMMA EntriesAreTyped ==
  ASSUME TypeOK
  PROVE  /\ \A k \in 1..position : /\ stream[k] \in Event /\ stream[k].order \in Order
                                   /\ stream[k].version \in 1..MaxVersion /\ stream[k].version \in Nat
                                   /\ shown[stream[k].order] \in Nat /\ newest[stream[k].order] \in Nat
         /\ handled \subseteq 1..position
<1>1. stream \in Seq(Event) /\ position \in 0..Len(stream) /\ Len(stream) \in Nat
  BY TypeOKSplit
<1>2. \A k \in 1..position : stream[k] \in Event
  BY <1>1
<1>3. /\ handled \subseteq 1..position /\ shown \in [Order -> 0..MaxVersion]
      /\ newest \in [Order -> 0..MaxVersion]
  BY DEF TypeOK
<1>4. \A k \in 1..position : /\ stream[k].order \in Order
                             /\ stream[k].version \in 1..MaxVersion /\ stream[k].version \in Nat
  BY <1>2 DEF Event
<1> QED BY <1>2, <1>3, <1>4

(* Of the entries the group hears of, only the one that is acknowledged       *)
(* leaves the pending list without being trimmed.                             *)
LEMMA OneLeavesByAck ==
  ASSUME TypeOK, \A c \in Consumer : TurnInv(c), [GroupNext]_vars,
         NEW i \in DOMAIN pending, i \notin DOMAIN pending', Heeds(i), ~(i <= gone)
  PROVE  DOMAIN pending' = DOMAIN pending \ {i}
<1>1. PICK c \in Consumer : Claim(c) \/ ReadNew(c) \/ AckSkipped(c) \/ Ack(c)
  BY WhoWrites DEF GroupNext, Consumes, vars, group, Arrive, GoesStale
<1>2. CASE Ack(c)
  <2>1. pending' = Without({Current(c).id})
    BY <1>2 DEF Ack
  <2>2. DOMAIN pending' = DOMAIN pending \ {Current(c).id}
    BY <2>1, WithoutKeepsTheOthers
  <2> QED BY <2>2
<1>3. CASE AckSkipped(c)
  <2>1. i \in turn[c].skipped
    BY <1>3, WithoutKeepsTheOthers DEF AckSkipped
  <2> QED BY <2>1 DEF TurnInv
<1>4. CASE Claim(c)
  <2> DEFINE ids == {Current(c).id} \cap Stale
  <2>1. Current(c).id \notin Stale \/ ~(Current(c).id > gone)
    BY <1>4 DEF Claim
  <2>2. i \in ids
    <3>1. pending' = Without(ids)
      BY <1>4, <2>1 DEF Claim
    <3> HIDE DEF ids
    <3> QED BY <3>1, WithoutKeepsTheOthers
  <2>3. i \in 1..position /\ position \in Nat /\ gone \in Nat
    BY TypeOKSplit
  <2>4. i \in Nat /\ i = Current(c).id /\ i \in Stale
    BY <2>2, <2>3
  <2> QED BY <2>1, <2>3, <2>4
<1>5. CASE ReadNew(c)
  BY <1>5 DEF ReadNew
<1> QED BY <1>1, <1>2, <1>3, <1>4, <1>5

(* An excuse lasts until it is handled itself: then its version was shown, or *)
(* its own excuse takes its place.                                            *)
LEMMA ExcusedStays ==
  ASSUME TypeOK, \A c \in Consumer : TurnInv(c), ShownInv, [GroupNext]_vars,
         NEW i \in 1..position, Excused(i)
  PROVE  shown'[stream'[i].order] >= stream'[i].version \/ Excused(i)'
<1>1. PICK j \in 1..position : /\ Earlier(stream[i], stream[j]) /\ Heeds(j)
                               /\ (j \in DOMAIN pending \/ Buried(j) \/ j <= gone)
  BY DEF Excused
<1>2. ASSUME NEW k \in 1..position, Earlier(stream[i], stream[k]), Heeds(k),
             k \in DOMAIN pending' \/ Buried(k) \/ k <= gone
      PROVE  Excused(i)'
  <2>1. /\ k \in 1..position' /\ stream'[k] = stream[k] /\ stream'[i] = stream[i]
        /\ Heeds(k)' /\ (k \in DOMAIN pending' \/ Buried(k)' \/ k <= gone')
    BY <1>2, DoneStaysDone, NothingIsTakenBack
  <2> QED BY <1>2, <2>1 DEF Excused, Earlier
<1>3. CASE j \in DOMAIN pending' \/ Buried(j) \/ j <= gone
  BY <1>1, <1>2, <1>3
<1>4. CASE ~(j \in DOMAIN pending' \/ Buried(j) \/ j <= gone)
  <2>1. j \in DOMAIN pending /\ j \in handled /\ DOMAIN pending' = DOMAIN pending \ {j}
    BY <1>1, <1>4, OnlyTheDoneLeave, OneLeavesByAck
  <2>2. /\ stream[i].order = stream[j].order /\ stream[i].version < stream[j].version
        /\ stream[i].version \in 1..MaxVersion /\ stream[j].version \in Nat /\ stream[i].version \in Nat
        /\ stream[i].order \in Order /\ shown[stream[i].order] \in Nat
    BY <1>1, EntriesAreTyped DEF Earlier
  <2>3. CASE shown[stream[j].order] >= stream[j].version
    <3>1. shown[stream[i].order] >= stream[i].version
      BY <2>2, <2>3
    <3>2. stream[i].version \in 0..MaxVersion /\ stream'[i] = stream[i]
      BY <2>2, TopicsAssumption, NothingIsTakenBack
    <3> QED BY <2>2, <3>1, <3>2, NothingIsTakenBack
  <2>4. CASE Excused(j)
    <3>1. PICK k \in 1..position : /\ Earlier(stream[j], stream[k]) /\ Heeds(k)
                                   /\ (k \in DOMAIN pending \/ Buried(k) \/ k <= gone)
      BY <2>4 DEF Excused
    <3>2. Earlier(stream[i], stream[k]) /\ k # j
      BY <2>2, <3>1, EntriesAreTyped DEF Earlier
    <3>3. k \in DOMAIN pending' \/ Buried(k) \/ k <= gone
      BY <2>1, <3>1, <3>2
    <3> QED BY <1>2, <3>1, <3>2, <3>3
  <2> QED BY <2>1, <2>3, <2>4 DEF ShownInv
<1> QED BY <1>3, <1>4

(* A handled entry was shown, or a newer one excuses it: the newest recorded *)
(* version has an entry, which was not taken from the group unseen.          *)
LEMMA ShownKept ==
  ASSUME TypeOK, \A c \in Consumer : TurnInv(c), NoneVanishes, NewestInv, ShownInv, [GroupNext]_vars
  PROVE  ShownInv'
<1> SUFFICES ASSUME NEW i \in handled'
             PROVE  shown'[stream'[i].order] >= stream'[i].version \/ Excused(i)'
  BY DEF ShownInv
<1>1. ASSUME NEW j \in 1..position, shown[stream[j].order] >= stream[j].version
      PROVE  shown'[stream'[j].order] >= stream'[j].version
  <2>1. stream[j].version \in 0..MaxVersion /\ stream[j].order \in Order /\ stream'[j] = stream[j]
    BY EntriesAreTyped, TopicsAssumption, NothingIsTakenBack
  <2> QED BY <1>1, <2>1, NothingIsTakenBack
<1>2. CASE i \in handled
  BY <1>1, <1>2, EntriesAreTyped, ExcusedStays DEF ShownInv
<1>3. CASE i \notin handled
  <2>1. PICK c \in Consumer : Record(c) \/ Emit(c)
    BY <1>3, WhoWrites DEF GroupNext, Consumes, vars, room, Arrive, GoesStale
  <2>2. /\ UNCHANGED <<stream, gone, position, pending, dead>> /\ i = Current(c).id
        /\ turn[c].todo # <<>>
    BY <1>3, <2>1 DEF Record, Emit, Called, Dispatching, TurnInv
  <2>3. i \in 1..position /\ EntryOf(c) = stream[i]
    BY <2>2, InHand
  <2>4. CASE Emit(c)
    <3>1. shown' = [shown EXCEPT ![stream[i].order] = Larger(@, stream[i].version)]
      BY <2>3, <2>4 DEF Emit
    <3>2. shown \in [Order -> 0..MaxVersion]
      BY DEF TypeOK
    <3>3. shown'[stream[i].order] >= stream[i].version
      BY <2>3, <3>1, <3>2, EntriesAreTyped DEF Larger
    <3> QED BY <2>2, <3>3
  <2>5. CASE Record(c)
    <3>1. newest[stream[i].order] > stream[i].version
      BY <1>3, <2>3, <2>5 DEF Record, Superseded
    <3> DEFINE o == stream[i].order
    <3>2. /\ o \in Order /\ newest[o] \in Nat /\ stream[i].version \in Nat /\ newest[o] > 0
          /\ newest[o] > stream[i].version
      BY <2>3, <3>1, EntriesAreTyped
    <3>3. PICK j \in 1..position : stream[j].order = o /\ stream[j].version = newest[o] /\ Heeds(j)
      BY <3>2 DEF NewestInv
    <3>4. Earlier(stream[i], stream[j])
      BY <3>2, <3>3 DEF Earlier
    <3>5. CASE j \in handled
      <4>1. CASE shown[stream[j].order] >= stream[j].version
        <5>1. shown[stream[i].order] >= stream[i].version
          BY <2>3, <3>2, <3>3, <4>1, EntriesAreTyped
        <5> QED BY <1>1, <2>3, <5>1
      <4>2. CASE Excused(j)
        <5>1. PICK k \in 1..position : /\ Earlier(stream[j], stream[k]) /\ Heeds(k)
                                       /\ (k \in DOMAIN pending \/ Buried(k) \/ k <= gone)
          BY <4>2 DEF Excused
        <5>2. Earlier(stream[i], stream[k])
          BY <2>3, <3>4, <5>1, EntriesAreTyped DEF Earlier
        <5>3. Excused(i)
          BY <5>1, <5>2 DEF Excused
        <5> QED BY <2>3, <5>3, ExcusedStays
      <4> QED BY <3>5, <4>1, <4>2 DEF ShownInv
    <3>6. CASE j \notin handled
      <4>1. j \in DOMAIN pending \/ Buried(j) \/ j <= gone
        BY <3>3, <3>6 DEF NoneVanishes
      <4>2. Excused(i)
        BY <3>3, <3>4, <4>1 DEF Excused
      <4> QED BY <2>3, <4>2, ExcusedStays
    <3> QED BY <3>5, <3>6
  <2> QED BY <2>1, <2>4, <2>5
<1> QED BY <1>2, <1>3

-----------------------------------------------------------------------------
(* The tries of an entry never become fewer *)

LEMMA TriesAreCounted ==
  ASSUME TypeOK, NEW i \in 1..position
  PROVE  /\ Owing(i) \in SUBSET Consumer /\ IsFiniteSet(Owing(i))
         /\ Cardinality(Owing(i)) \in Nat /\ calls[i] \in Nat /\ broken \in Nat
         /\ Tries(i) = calls[i] + broken + Cardinality(Owing(i))
         /\ Tries(i) \in Nat
<1>1. Owing(i) \in SUBSET Consumer
  BY DEF Owing
<1>2. IsFiniteSet(Owing(i)) /\ Cardinality(Owing(i)) \in Nat
  BY <1>1, ConsumersAssumption, FS_Subset, FS_CardinalityType
<1>3. calls[i] \in Nat /\ broken \in Nat
  <2>1. i \in 1..Len(calls) /\ calls \in Seq(Nat)
    BY TypeOKSplit
  <2> QED BY <2>1, TypeOKSplit
<1> QED BY <1>1, <1>2, <1>3 DEF Tries

(* If one consumer at most stops owing the entry, the number falls by one.   *)
LEMMA OneLess ==
  ASSUME NEW S \in SUBSET Consumer, NEW T \in SUBSET Consumer, NEW c
  PROVE  /\ Cardinality(S) \in Nat /\ Cardinality(T) \in Nat
         /\ S \subseteq T => Cardinality(S) <= Cardinality(T)
         /\ S \ {c} \subseteq T => Cardinality(S) <= Cardinality(T) + 1
         /\ S \subseteq T /\ c \in T \ S => Cardinality(S) + 1 <= Cardinality(T)
<1>1. IsFiniteSet(S) /\ IsFiniteSet(T)
  BY ConsumersAssumption, FS_Subset
<1>2. Cardinality(S) \in Nat /\ Cardinality(T) \in Nat
  BY <1>1, FS_CardinalityType
<1>3. S \subseteq T => Cardinality(S) <= Cardinality(T)
  BY <1>1, FS_Subset
<1>4. ASSUME S \ {c} \subseteq T PROVE Cardinality(S) <= Cardinality(T) + 1
  <2>1. IsFiniteSet(T \cup {c}) /\ Cardinality(T \cup {c}) <= Cardinality(T) + 1
    <3>1. /\ IsFiniteSet(T \cup {c})
          /\ Cardinality(T \cup {c}) = IF c \in T THEN Cardinality(T) ELSE Cardinality(T) + 1
      BY <1>1, FS_AddElement
    <3> QED BY <1>2, <3>1
  <2>2. S \subseteq T \cup {c}
    BY <1>4
  <2>3. Cardinality(S) <= Cardinality(T \cup {c}) /\ Cardinality(T \cup {c}) \in Nat
    BY <2>1, <2>2, FS_Subset, FS_CardinalityType
  <2> QED BY <1>2, <2>1, <2>3
<1>5. ASSUME S \subseteq T, c \in T \ S PROVE Cardinality(S) + 1 <= Cardinality(T)
  <2>1. Cardinality(S \cup {c}) = Cardinality(S) + 1
    BY <1>1, <1>5, FS_AddElement
  <2>2. S \cup {c} \subseteq T
    BY <1>5
  <2>3. Cardinality(S \cup {c}) <= Cardinality(T)
    BY <1>1, <2>2, FS_Subset
  <2> QED BY <2>1, <2>3
<1> QED BY <1>2, <1>3, <1>4, <1>5

(* A consumer that stops owing the entry leaves a call or a broken turn.     *)
LEMMA TriesGrow ==
  ASSUME TypeOK, TypeOK', NEW i \in 1..position, i \in 1..position', NEW c,
         \/ Owing(i) \subseteq Owing(i)' /\ calls'[i] = calls[i] /\ broken' = broken
         \/ Owing(i) \ {c} \subseteq Owing(i)' /\ calls'[i] = calls[i] + 1 /\ broken' = broken
         \/ Owing(i) \ {c} \subseteq Owing(i)' /\ calls'[i] = calls[i] /\ broken' = broken + 1
  PROVE  /\ \A n \in Nat : n <= Tries(i) => n <= Tries(i)'
         /\ Owing(i) \subseteq Owing(i)' /\ c \in Owing(i)' \ Owing(i) =>
              \A n \in Nat : n <= Tries(i) => n + 1 <= Tries(i)'
<1>1. PICK S \in SUBSET Consumer, T \in SUBSET Consumer : S = Owing(i) /\ T = Owing(i)'
  BY DEF Owing
<1>2. PICK a \in Nat, b \in Nat, x \in Nat, y \in Nat :
        a = calls[i] /\ b = broken /\ x = calls'[i] /\ y = broken'
  <2>1. calls[i] \in Nat /\ broken \in Nat
    BY TriesAreCounted
  <2>2. calls'[i] \in Nat /\ broken' \in Nat
    <3>1. /\ calls' \in Seq(Nat) /\ Len(calls') = Len(stream') /\ broken' \in Nat
          /\ position' \in 0..Len(stream') /\ Len(stream') \in Nat
      BY DEF TypeOK
    <3>2. i \in 1..Len(calls')
      BY <3>1
    <3> QED BY <3>1, <3>2
  <2> QED BY <2>1, <2>2
<1>3. PICK s \in Nat, t \in Nat :
        s = Cardinality(S) /\ t = Cardinality(T)
        /\ (S \subseteq T => s <= t) /\ (S \ {c} \subseteq T => s <= t + 1)
        /\ (S \subseteq T /\ c \in T \ S => s + 1 <= t)
  BY OneLess
<1>4. Tries(i) = a + b + s /\ Tries(i)' = x + y + t
  BY <1>1, <1>2, <1>3 DEF Tries
<1>5. \/ S \subseteq T /\ x = a /\ y = b
      \/ S \ {c} \subseteq T /\ x = a + 1 /\ y = b
      \/ S \ {c} \subseteq T /\ x = a /\ y = b + 1
  BY <1>1, <1>2
<1>6. /\ a + b + s <= x + y + t
      /\ S \subseteq T /\ c \in T \ S => a + b + s + 1 <= x + y + t
  BY <1>3, <1>5
<1>7. \A n \in Nat : /\ n <= a + b + s => n <= x + y + t
                     /\ S \subseteq T /\ c \in T \ S /\ n <= a + b + s => n + 1 <= x + y + t
  BY <1>6
<1> QED BY <1>1, <1>4, <1>7

(* What a consumer owes behind the entry in hand, it still owes when it has   *)
(* dealt with that entry.                                                     *)
LEMMA OwedLater ==
  ASSUME TypeOK, NEW c \in Consumer, NEW i, Owes(c, i),
         Current(c).id # i \/ Current(c).attempt > MaxDeliveries \/ ~Waits(c, 1),
         (\E step : Keeps(c, step)) \/ Moves(c)
  PROVE  Owes(c, i)'
<1>1. turn[c].todo # <<>>
  BY DEF Keeps, Moves
<1>2. PICK k \in DOMAIN turn[c].todo :
        turn[c].todo[k].id = i /\ turn[c].todo[k].attempt <= MaxDeliveries /\ Waits(c, k)
  BY DEF Owes
<1>3. k # 1
  <2>1. turn[c].todo[1] = Current(c) /\ Current(c).attempt \in Nat
    BY <1>1, InHand
  <2> QED BY <1>2, <2>1, GroupAssumption
<1>4. k > 1 /\ k - 1 \in DOMAIN Tail(turn[c].todo) /\ Tail(turn[c].todo)[k - 1] = turn[c].todo[k]
  BY <1>1, <1>3, InHand
<1>5. turn[c].stage = "batch"
  BY <1>2, <1>3 DEF Waits
<1>6. CASE \E step : Keeps(c, step)
  <2>1. turn'[c].todo = turn[c].todo /\ turn'[c].stage = "batch"
    BY <1>5, <1>6 DEF Keeps
  <2> QED BY <1>2, <1>4, <2>1 DEF Owes, Waits
<1>7. CASE Moves(c)
  <2>1. turn'[c].todo = Tail(turn[c].todo) /\ turn'[c].stage = "batch" /\ turn'[c].step = "take"
    BY <1>5, <1>7 DEF Moves
  <2>2. PICK m \in DOMAIN turn'[c].todo : turn'[c].todo[m] = turn[c].todo[k]
    BY <1>4, <2>1
  <2> QED BY <1>2, <2>1, <2>2 DEF Owes, Waits
<1> QED BY <1>6, <1>7

(* Who will call the handler is at the entry, or has it in the list.         *)
LEMMA DispatchingWaits ==
  ASSUME NEW c \in Consumer, TurnInv(c), Dispatching(c)
  PROVE  Waits(c, 1) /\ turn[c].todo # <<>>
BY DEF Dispatching, Waits, TurnInv

(* In every step the tries of an entry the group hears of grow or stay.      *)
LEMMA TriesNeverDrop ==
  ASSUME TypeOK, TypeOK', \A c \in Consumer : TurnInv(c), [GroupNext]_vars,
         NEW i \in 1..position, Heeds(i)
  PROVE  \A n \in Nat : n <= Tries(i) => n <= Tries(i)'
<1>0. i \in 1..position' /\ i \in 1..Len(stream)
  <2>1. position \in 0..Len(stream) /\ Len(stream) \in Nat
    BY TypeOKSplit
  <2> QED BY <2>1, NothingIsTakenBack
<1>1. CASE UNCHANGED <<turn, broken>> /\ calls'[i] = calls[i]
  <2>1. Owing(i)' = Owing(i)
    BY <1>1 DEF Owing, Owes, Waits
  <2> QED BY <1>0, <1>1, <2>1, TriesGrow
<1>2. CASE UNCHANGED vars
  BY <1>1, <1>2 DEF vars, group, count
<1>3. ASSUME NEW event \in Events, Arrive(event)
      PROVE  UNCHANGED <<turn, broken>> /\ calls'[i] = calls[i]
  <2>1. calls' = Append(calls, 0) /\ UNCHANGED <<turn, broken>>
    BY <1>3 DEF Arrive, group
  <2>2. calls'[i] = calls[i]
    BY <1>0, <2>1, TypeOKSplit
  <2> QED BY <2>1, <2>2
<1>4. ASSUME NEW j \in DOMAIN stream, GoesStale(j)
      PROVE  UNCHANGED <<turn, broken, calls>>
  BY <1>4 DEF GoesStale, count
<1>5. ASSUME NEW c \in Consumer, Consumes(c)
      PROVE  \A n \in Nat : n <= Tries(i) => n <= Tries(i)'
  <2>1. \A d \in Consumer \ {c} : Owes(d, i) <=> Owes(d, i)'
    <3>1. \A d \in Consumer \ {c} : turn'[d] = turn[d]
      BY <1>5, TurnsMove
    <3> QED BY <3>1 DEF Owes, Waits
  <2>2. Owing(i) \ {c} \subseteq Owing(i)' /\ (~Owes(c, i) \/ Owes(c, i)' => Owing(i) \subseteq Owing(i)')
    BY <2>1 DEF Owing
  <2>3. ASSUME ~Owes(c, i) \/ Owes(c, i)', UNCHANGED <<calls, broken>>
        PROVE  \A n \in Nat : n <= Tries(i) => n <= Tries(i)'
    BY <1>0, <2>2, <2>3, TriesGrow
  <2>4. CASE turn[c].todo = <<>> /\ UNCHANGED <<calls, broken>>
    <3>1. ~Owes(c, i)
      BY <2>4 DEF Owes
    <3> QED BY <2>3, <2>4, <3>1
  <2>5. CASE StalePending(c)
    <3>1. turn[c] = Begin
      BY <1>5, <2>5, TurnsMove
    <3>2. turn[c].todo = <<>> /\ UNCHANGED <<calls, broken>>
      BY <2>5, <3>1 DEF StalePending, count, Begin
    <3> QED BY <2>4, <3>2
  <2>6. CASE ReadNew(c) \/ ReadNothing(c) \/ AckSkipped(c)
    <3>1. turn[c].todo = <<>> /\ UNCHANGED <<calls, broken>>
      BY <1>5, <2>6, TurnsMove DEF ReadNew, ReadNothing, AckSkipped, count
    <3> QED BY <2>4, <3>1
  <2>7. CASE Claim(c)
    <3>1. turn[c].stage = "stale" /\ turn[c].step = "take" /\ UNCHANGED <<calls, broken>>
      BY <2>7 DEF Claim, count
    <3>2. ~Owes(c, i)
      BY <3>1 DEF Owes, Waits
    <3> QED BY <2>3, <3>1, <3>2
  <2>8. ASSUME UNCHANGED <<calls, broken>>, (\E step : Keeps(c, step)) \/ Moves(c),
               Current(c).id # i \/ Current(c).attempt > MaxDeliveries \/ ~Waits(c, 1)
        PROVE  \A n \in Nat : n <= Tries(i) => n <= Tries(i)'
    BY <2>3, <2>8, OwedLater
  <2>9. CASE Skip(c)
    <3>1. UNCHANGED <<calls, broken>> /\ ((\E step : Keeps(c, step)) \/ Moves(c)) /\ Current(c).id # i
      BY <1>5, <2>9, TurnsMove DEF Skip, count
    <3> QED BY <2>8, <3>1
  <2>10. CASE GiveUp(c)
    <3>1. UNCHANGED <<calls, broken>> /\ (\E step : Keeps(c, step)) /\ Current(c).attempt > MaxDeliveries
      BY <1>5, <2>10, TurnsMove DEF GiveUp, Bury, UsedUp
    <3> QED BY <2>8, <3>1
  <2>11. CASE Emit(c) \/ Ack(c)
    <3>1. UNCHANGED <<calls, broken>> /\ ((\E step : Keeps(c, step)) \/ Moves(c))
      BY <1>5, <2>11, TurnsMove DEF Emit, Ack, count
    <3>2. turn[c].step = "emit" \/ turn[c].step = "ack"
      BY <2>11 DEF Emit, Ack
    <3>3. ~Waits(c, 1)
      BY <3>2 DEF Waits
    <3> QED BY <2>8, <3>1, <3>3
  <2>12. CASE Record(c) \/ Reject(c) \/ Throws(c)
    <3>1. Called(c) /\ broken' = broken /\ ((\E step : Keeps(c, step)) \/ Moves(c))
      BY <1>5, <2>12, TurnsMove DEF Record, Reject, Throws, Bury
    <3>2. CASE Current(c).id = i
      <4>1. calls'[i] = calls[i] + 1
        BY <3>1, <3>2, CallsAreTyped
      <4> QED BY <1>0, <2>2, <3>1, <4>1, TriesGrow
    <3>3. CASE Current(c).id # i
      <4>1. calls'[i] = calls[i]
        BY <1>0, <3>1, <3>3, CallsAreTyped
      <4>2. Owes(c, i) => Owes(c, i)'
        BY <3>1, <3>3, OwedLater
      <4> QED BY <1>0, <2>2, <3>1, <4>1, <4>2, TriesGrow
    <3> QED BY <3>2, <3>3
  <2>13. CASE TurnBreaks(c)
    <3>1. calls' = calls /\ broken' = broken + 1
      BY <2>13 DEF TurnBreaks
    <3> QED BY <1>0, <2>2, <3>1, TriesGrow
  <2> QED
    BY <1>5, <2>5, <2>6, <2>7, <2>9, <2>10, <2>11, <2>12, <2>13 DEF Consumes, Works
<1> QED BY <1>1, <1>2, <1>3, <1>4, <1>5 DEF GroupNext, Consumes

-----------------------------------------------------------------------------
(* The counts of deliveries *)

(* What was counted stays counted.                                           *)
LEMMA CountedStays ==
  ASSUME TypeOK, TypeOK', \A c \in Consumer : TurnInv(c), [GroupNext]_vars,
         NEW i \in 1..position, NEW n \in Nat, Counted(n, i)
  PROVE  Counted(n, i)'
<1>1. Smaller(n, MaxDeliveries) \in Nat
  BY GroupAssumption DEF Smaller
<1>2. Heeds(i)' => Heeds(i)
  BY DoneStaysDone
<1>3. PICK m \in Nat : m = Smaller(n, MaxDeliveries)
  BY <1>1
<1>4. Heeds(i) => m <= Tries(i)
  BY <1>3 DEF Counted
<1>5. Heeds(i)' => m <= Tries(i)'
  BY <1>2, <1>4, TriesNeverDrop
<1> QED BY <1>3, <1>5 DEF Counted

(* An entry of the past that is pending was pending, with one delivery less   *)
(* if it was claimed in this step.                                            *)
Delivers(c) == Claim(c) /\ Keeps(c, "dispatch")

LEMMA PendingGrows ==
  ASSUME TypeOK, \A c \in Consumer : TurnInv(c), [GroupNext]_vars,
         NEW i \in 1..position, i \in DOMAIN pending'
  PROVE  /\ i \in DOMAIN pending /\ pending[i].deliveries \in Nat
         /\ \/ pending'[i].deliveries = pending[i].deliveries
            \/ /\ pending'[i].deliveries = pending[i].deliveries + 1
               /\ \E c \in Consumer : Delivers(c) /\ i = Current(c).id
<1>0. \A j \in DOMAIN pending : pending[j].deliveries \in Nat
  <2>1. \A j \in DOMAIN pending : pending[j] \in [deliveries : Nat, stale : BOOLEAN]
    BY DEF TypeOK
  <2> QED BY <2>1
<1>1. CASE UNCHANGED pending
  BY <1>0, <1>1
<1>2. ASSUME NEW j \in DOMAIN stream, GoesStale(j)
      PROVE  i \in DOMAIN pending /\ pending'[i].deliveries = pending[i].deliveries
  <2>1. j \in DOMAIN pending /\ pending' = [pending EXCEPT ![j] = [pending[j] EXCEPT !.stale = TRUE]]
    BY <1>2 DEF GoesStale
  <2>2. pending[j] \in [deliveries : Nat, stale : BOOLEAN]
    BY <2>1 DEF TypeOK
  <2>3. PICK r : r = [pending[j] EXCEPT !.stale = TRUE] /\ r.deliveries = pending[j].deliveries
    <3>1. PICK n \in Nat, f \in BOOLEAN : pending[j] = [deliveries |-> n, stale |-> f]
      BY <2>2
    <3> DEFINE r == [deliveries |-> n, stale |-> TRUE]
               q == [deliveries |-> n, stale |-> f]
    <3>2. [pending[j] EXCEPT !.stale = TRUE] = r
      <4>1. \A x, y : [[deliveries |-> n, stale |-> x] EXCEPT !.stale = y] = [deliveries |-> n, stale |-> y]
        OBVIOUS
      <4>2. [q EXCEPT !.stale = TRUE] = r
        BY <4>1
      <4>3. pending[j] = q
        BY <3>1
      <4> HIDE DEF q, r
      <4> QED BY <4>2, <4>3
    <3>3. r.deliveries = pending[j].deliveries
      BY <3>1
    <3> HIDE DEF r
    <3> QED BY <3>2, <3>3
  <2>4. /\ DOMAIN pending' = DOMAIN pending
        /\ \A k \in DOMAIN pending : pending'[k] = IF k = j THEN r ELSE pending[k]
    BY <2>1, <2>3
  <2> QED BY <2>3, <2>4
<1>3. ASSUME NEW c \in Consumer, Consumes(c), Claim(c) \/ ReadNew(c) \/ AckSkipped(c) \/ Ack(c)
      PROVE  /\ i \in DOMAIN pending
             /\ \/ pending'[i].deliveries = pending[i].deliveries
                \/ /\ pending'[i].deliveries = pending[i].deliveries + 1
                   /\ Delivers(c) /\ i = Current(c).id
  <2>1. ASSUME NEW ids, pending' = Without(ids)
        PROVE  i \in DOMAIN pending /\ pending'[i].deliveries = pending[i].deliveries
    BY <2>1, WithoutKeepsTheOthers
  <2>2. CASE AckSkipped(c) \/ Ack(c)
    BY <2>1, <2>2 DEF AckSkipped, Ack
  <2>3. CASE ReadNew(c)
    <3>1. PICK p \in Nat, b \in Nat :
            /\ p = position' /\ b = Behind /\ position <= b
            /\ DOMAIN pending' = DOMAIN pending \cup (b + 1)..p
            /\ \A j \in DOMAIN pending' :
                 pending'[j] = IF j > b THEN [deliveries |-> 1, stale |-> FALSE] ELSE pending[j]
      BY <2>3, ReadingNew
    <3>2. position \in Nat /\ ~(i > b) /\ i \notin (b + 1)..p
      BY <3>1, TypeOKSplit
    <3> QED BY <3>1, <3>2
  <2>4. CASE Claim(c)
    <3>1. CASE pending' = Without({Current(c).id} \cap Stale)
      BY <2>1, <3>1
    <3>2. CASE /\ Keeps(c, "dispatch") /\ Current(c).id \in Stale
               /\ pending' = [pending EXCEPT ![Current(c).id] =
                    [deliveries |-> @.deliveries + 1, stale |-> FALSE]]
      <4>1. /\ DOMAIN pending' = DOMAIN pending
            /\ \A j \in DOMAIN pending :
                 pending'[j] = IF j = Current(c).id
                                 THEN [deliveries |-> pending[Current(c).id].deliveries + 1, stale |-> FALSE]
                                 ELSE pending[j]
        BY <3>2
      <4> QED BY <2>4, <3>2, <4>1 DEF Delivers
    <3> QED BY <1>3, <2>4, <3>1, <3>2, TurnsMove
  <2> QED BY <1>3, <2>2, <2>3, <2>4
<1>4. \/ UNCHANGED pending
      \/ \E j \in DOMAIN stream : GoesStale(j)
      \/ \E c \in Consumer : Consumes(c) /\ (Claim(c) \/ ReadNew(c) \/ AckSkipped(c) \/ Ack(c))
  BY WhoWrites DEF GroupNext, Consumes, vars, group, Arrive
<1> QED BY <1>0, <1>1, <1>2, <1>3, <1>4

(* A claimed entry has one delivery and one consumer more.                   *)
LEMMA DeliveryIsOwed ==
  ASSUME TypeOK, TypeOK', \A c \in Consumer : TurnInv(c), [GroupNext]_vars, CountsInv,
         NEW c \in Consumer, Delivers(c)
  PROVE  \E i \in 1..position, n \in Nat :
           i = Current(c).id /\ n = pending[i].deliveries /\ Counted(n + 1, i)'
<1> DEFINE i == Current(c).id
           d == pending[i].deliveries
           a == Current(c).attempt
<1>1. /\ turn[c].stage = "stale" /\ turn[c].step = "take" /\ turn[c].todo # <<>>
      /\ UNCHANGED <<calls, broken>>
  BY DEF Delivers, Claim, count
<1>2. /\ turn[c].todo[1] = Current(c) /\ 1 \in DOMAIN turn[c].todo
      /\ i \in 1..position /\ a \in Nat
  BY <1>1, InHand
<1>3. i \in DOMAIN pending
  <2>1. Moves(c) => turn'[c].step # "dispatch"
    BY DEF Moves
  <2>2. Current(c).id \in Stale
    BY <2>1, TurnsMove DEF Delivers, Consumes, Works, Keeps
  <2> QED BY <2>2 DEF Stale
<1>4. d \in Nat /\ a <= d + 1 /\ Counted(d, i)
  <2>1. \A j \in DOMAIN pending : pending[j] \in [deliveries : Nat, stale : BOOLEAN]
    BY DEF TypeOK
  <2> QED BY <1>1, <1>2, <1>3, <2>1 DEF CountsInv
<1> HIDE DEF i, d, a
<1>5. PICK j \in 1..position, n \in Nat, b \in Nat : j = i /\ n = d /\ b = a /\ b <= n + 1
  BY <1>2, <1>4
<1>6. j \in 1..position'
  BY DoneStaysDone
<1>7. /\ \A e \in Consumer \ {c} : Owes(e, j) <=> Owes(e, j)'
      /\ ~Owes(c, j)
  <2>1. \A e \in Consumer \ {c} : turn'[e] = turn[e]
    BY TurnsMove DEF Delivers, Consumes, Works
  <2> QED BY <1>1, <2>1 DEF Owes, Waits
<1>8. ASSUME Heeds(j)' PROVE Smaller(n + 1, MaxDeliveries) <= Tries(j)'
  <2>1. Heeds(j) /\ Smaller(n, MaxDeliveries) <= Tries(j)
    BY <1>4, <1>5, <1>8, DoneStaysDone DEF Counted
  <2>2. CASE b <= MaxDeliveries
    <3>1. Owes(c, j)'
      <4>1. turn'[c].todo = turn[c].todo /\ turn'[c].step = "dispatch"
        BY DEF Delivers, Keeps
      <4>2. /\ 1 \in DOMAIN turn'[c].todo /\ turn'[c].todo[1].id = j
            /\ turn'[c].todo[1].attempt <= MaxDeliveries
        BY <1>2, <1>5, <2>2, <4>1 DEF i, a
      <4> QED BY <4>1, <4>2 DEF Owes, Waits
    <3>2. Owing(j) \subseteq Owing(j)' /\ c \in Owing(j)' \ Owing(j)
      BY <1>7, <3>1 DEF Owing
    <3>3. \A m \in Nat : m <= Tries(j) => m + 1 <= Tries(j)'
      BY <1>1, <1>6, <3>2, TriesGrow
    <3>4. PICK m \in Nat : m = Smaller(n, MaxDeliveries)
      BY GroupAssumption DEF Smaller
    <3>5. m + 1 <= Tries(j)'
      BY <2>1, <3>3, <3>4
    <3>6. Smaller(n + 1, MaxDeliveries) = m + 1 \/ Smaller(n + 1, MaxDeliveries) = m
      BY <3>4, GroupAssumption DEF Smaller
    <3>7. m <= Tries(j)'
      BY <2>1, <3>4, TriesNeverDrop
    <3> QED BY <3>5, <3>6, <3>7
  <2>3. CASE ~(b <= MaxDeliveries)
    <3>1. Smaller(n, MaxDeliveries) = MaxDeliveries /\ Smaller(n + 1, MaxDeliveries) = MaxDeliveries
      BY <1>5, <2>3, GroupAssumption DEF Smaller
    <3>2. MaxDeliveries <= Tries(j)'
      BY <2>1, <3>1, TriesNeverDrop, GroupAssumption
    <3> QED BY <3>1, <3>2
  <2> QED BY <2>2, <2>3
<1>9. Counted(n + 1, j)'
  BY <1>8 DEF Counted
<1> QED BY <1>5, <1>9 DEF i, d

(* What waits in the list of a consumer that dealt with an entry, waited before. *)
LEMMA WaitedBefore ==
  ASSUME TypeOK, NEW c \in Consumer, Keeps(c, "ack") \/ Keeps(c, "emit") \/ Moves(c),
         NEW k \in DOMAIN turn'[c].todo
  PROVE  \E m \in DOMAIN turn[c].todo :
           /\ turn[c].todo[m] = turn'[c].todo[k]
           /\ Waits(c, k)' => Waits(c, m)
<1>1. CASE Keeps(c, "ack") \/ Keeps(c, "emit")
  <2>1. turn'[c].todo = turn[c].todo
    BY <1>1 DEF Keeps
  <2>2. Waits(c, k)' => Waits(c, k)
    BY <1>1 DEF Keeps, Waits
  <2> QED BY <2>1, <2>2
<1>2. CASE Moves(c)
  <2>1. /\ turn'[c].todo = Tail(turn[c].todo) /\ turn'[c].stage = turn[c].stage
        /\ turn'[c].step = "take" /\ turn[c].todo # <<>>
    BY <1>2 DEF Moves
  <2>2. k \in Nat \ {0} /\ k + 1 \in DOMAIN turn[c].todo /\ Tail(turn[c].todo)[k] = turn[c].todo[k + 1]
    BY <2>1, InHand
  <2>3. k + 1 > 1
    BY <2>2
  <2>4. Waits(c, k)' => Waits(c, k + 1)
    BY <2>1, <2>3 DEF Waits
  <2> QED BY <2>1, <2>2, <2>4
<1> QED BY <1>1, <1>2

(* A new letter of an entry that used up its tries has them counted.         *)
LEMMA LettersAreCounted ==
  ASSUME TypeOK, \A c \in Consumer : TurnInv(c), [GroupNext]_vars, CountsInv,
         NEW letter \in dead', letter \notin dead, letter.reason = "exhausted"
  PROVE  \E i \in 1..position, n \in Nat :
           i = letter.id /\ Heeds(i) /\ Counted(n, i) /\ n >= MaxDeliveries
<1>1. PICK c \in Consumer, reason \in {"exhausted", "rejected"} :
        /\ Dispatching(c) /\ EntryOf(c).topic \in Heard /\ Bury(c, reason)
        /\ reason = "exhausted" => UsedUp(Current(c).attempt) \/ LastTry(Current(c).attempt)
  <2>1. PICK c \in Consumer : Consumes(c)
    BY DEF GroupNext, Consumes, vars, Arrive, GoesStale
  <2>2. CASE GiveUp(c)
    BY <2>2 DEF GiveUp
  <2>3. CASE Reject(c)
    BY <2>3 DEF Reject, Called
  <2>4. CASE Throws(c)
    BY <2>4 DEF Throws, Called
  <2>5. CASE StalePending(c) \/ Claim(c) \/ ReadNew(c) \/ ReadNothing(c) \/ AckSkipped(c)
    BY <2>5 DEF StalePending, Claim, ReadNew, ReadNothing, AckSkipped
  <2>6. CASE Skip(c) \/ Record(c) \/ Emit(c) \/ Ack(c) \/ TurnBreaks(c)
    BY <2>6 DEF Skip, Record, Emit, Ack, TurnBreaks
  <2> QED BY <2>1, <2>2, <2>3, <2>4, <2>5, <2>6 DEF Consumes, Works
<1>2. letter = [id |-> Current(c).id, reason |-> reason] /\ reason = "exhausted"
  BY <1>1 DEF Bury
<1>3. Waits(c, 1) /\ turn[c].todo # <<>>
  BY <1>1, DispatchingWaits
<1>4. /\ turn[c].todo[1] = Current(c) /\ 1 \in DOMAIN turn[c].todo
      /\ Current(c).id \in 1..position /\ Current(c).attempt \in Nat
  BY <1>3, InHand
<1>5. PICK i \in 1..position, n \in Nat : i = Current(c).id /\ n = Current(c).attempt
  BY <1>4
<1>6. Counted(n, i)
  BY <1>3, <1>4, <1>5 DEF CountsInv
<1>7. n >= MaxDeliveries
  BY <1>1, <1>2, <1>5, GroupAssumption DEF UsedUp, LastTry
<1>8. Heeds(i)
  BY <1>1, <1>5 DEF Heeds, EntryOf
<1> QED BY <1>2, <1>5, <1>6, <1>7, <1>8

(* A new entry is owed by the consumer that read it.                         *)
LEMMA NewIsOwed ==
  ASSUME TypeOK, TypeOK', \A c \in Consumer : TurnInv(c),
         NEW c \in Consumer, ReadNew(c), NEW i \in Nat, i > Behind, i <= position'
  PROVE  Counted(1, i)'
<1>1. PICK p \in Nat, b \in Nat :
        /\ p = position' /\ b = Behind
        /\ DOMAIN NewBatch = 1..(p - b)
        /\ \A k \in 1..(p - b) : NewBatch[k] = [id |-> b + k, attempt |-> 1]
  BY ReadingNew
<1>2. i > b /\ i <= p
  BY <1>1
<1>3. i - b \in 1..(p - b) /\ b + (i - b) = i
  BY <1>2
<1>4. PICK k \in DOMAIN NewBatch : NewBatch[k] = [id |-> i, attempt |-> 1]
  BY <1>1, <1>3
<1>5. turn'[c].todo = NewBatch /\ turn'[c].stage = "batch" /\ turn'[c].step = "take"
  BY TurnsMove DEF Consumes, Works, Lists
<1>6. 1 <= MaxDeliveries /\ Smaller(1, MaxDeliveries) = 1
  BY GroupAssumption DEF Smaller
<1>7. Owes(c, i)'
  <2>1. k \in DOMAIN turn'[c].todo /\ turn'[c].todo[k].id = i /\ turn'[c].todo[k].attempt <= MaxDeliveries
    BY <1>4, <1>5, <1>6
  <2> QED BY <1>5, <2>1 DEF Owes, Waits
<1>8. PICK T \in SUBSET Consumer : T = Owing(i)' /\ c \in T
  BY <1>7 DEF Owing
<1>9. PICK t \in Nat : t = Cardinality(T) /\ 1 <= t
  <2>1. Cardinality({}) + 1 <= Cardinality(T) /\ Cardinality(T) \in Nat
    BY <1>8, OneLess, {} \in SUBSET Consumer
  <2>2. Cardinality({}) = 0
    BY FS_EmptySet
  <2> QED BY <2>1, <2>2
<1>10. PICK x \in Nat, y \in Nat : x = calls'[i] /\ y = broken'
  <2>1. /\ calls' \in Seq(Nat) /\ Len(calls') = Len(stream') /\ broken' \in Nat
        /\ position' \in 0..Len(stream') /\ Len(stream') \in Nat
    BY DEF TypeOK
  <2>2. i \in 1..Len(calls')
    <3>1. 1 <= i
      BY <1>2
    <3> QED BY <2>1, <3>1
  <2> QED BY <2>1, <2>2
<1>11. Tries(i)' = x + y + t
  BY <1>8, <1>9, <1>10 DEF Tries
<1>12. 1 <= x + y + t
  BY <1>9
<1> QED BY <1>6, <1>11, <1>12 DEF Counted

(* Fewer deliveries are counted as well.                                     *)
LEMMA FewerAreCounted ==
  ASSUME TypeOK', NEW i \in 1..position', NEW n \in Nat, NEW m \in Nat, m <= n, Counted(n, i)'
  PROVE  Counted(m, i)'
<1>1. PICK x \in Nat : x = Tries(i)'
  <2>1. /\ calls' \in Seq(Nat) /\ Len(calls') = Len(stream') /\ broken' \in Nat
        /\ position' \in 0..Len(stream') /\ Len(stream') \in Nat
    BY DEF TypeOK
  <2>2. i \in 1..Len(calls')
    BY <2>1
  <2>3. calls'[i] \in Nat
    BY <2>1, <2>2
  <2>4. Cardinality(Owing(i)') \in Nat
    BY ConsumersAssumption, FS_Subset, FS_CardinalityType, Owing(i)' \in SUBSET Consumer DEF Owing
  <2> QED BY <2>1, <2>3, <2>4 DEF Tries
<1>2. Smaller(n, MaxDeliveries) <= x => Smaller(m, MaxDeliveries) <= x
  BY GroupAssumption DEF Smaller
<1> QED BY <1>1, <1>2 DEF Counted

(* The count of every pending entry stays within its tries.                  *)
LEMMA PendingStaysCounted ==
  ASSUME TypeOK, TypeOK', \A c \in Consumer : TurnInv(c), [GroupNext]_vars, CountsInv,
         NEW i \in DOMAIN pending'
  PROVE  Counted(pending[i].deliveries, i)'
<1>1. CASE i \in 1..position
  <2>1. PICK n \in Nat : n = pending[i].deliveries /\ i \in DOMAIN pending
    BY <1>1, PendingGrows
  <2>2. CASE pending'[i].deliveries = pending[i].deliveries
    <3>1. Counted(n, i)
      BY <2>1 DEF CountsInv
    <3>2. Counted(n, i)'
      BY <1>1, <3>1, CountedStays
    <3> QED BY <2>1, <2>2, <3>2 DEF Counted
  <2>3. ASSUME NEW c \in Consumer, Delivers(c), i = Current(c).id,
               pending'[i].deliveries = pending[i].deliveries + 1
        PROVE  Counted(pending[i].deliveries, i)'
    <3>1. PICK j \in 1..position, m \in Nat :
            j = Current(c).id /\ m = pending[j].deliveries /\ Counted(m + 1, j)'
      BY <2>3, DeliveryIsOwed
    <3>2. Counted(m + 1, i)' /\ pending'[i].deliveries = m + 1
      BY <2>3, <3>1
    <3> QED BY <3>2 DEF Counted
  <2> QED BY <1>1, <2>2, <2>3, PendingGrows
<1>2. CASE i \notin 1..position
  <2>1. i \notin DOMAIN pending /\ i \in Nat /\ i <= position'
    <3>1. DOMAIN pending \subseteq 1..position /\ position' \in 0..Len(stream')
          /\ DOMAIN pending' \subseteq 1..position'
      BY DEF TypeOK
    <3>2. Len(stream') \in Nat
      BY DEF TypeOK
    <3> QED BY <1>2, <3>1, <3>2
  <2>2. PICK c \in Consumer : Consumes(c) /\ ReadNew(c)
    <3>1. position' # position
      <4>1. DOMAIN pending' \subseteq 1..position'
        BY DEF TypeOK
      <4> QED BY <1>2, <4>1
    <3> QED BY <3>1, WhoWrites DEF GroupNext, Consumes, vars, group, Arrive, GoesStale
  <2>3. /\ i \in (Behind + 1)..position'
        /\ pending'[i] = IF i > Behind THEN [deliveries |-> 1, stale |-> FALSE] ELSE pending[i]
    BY <2>1, <2>2, ReadingNew
  <2>4. PICK p \in Nat, b \in Nat : p = position' /\ b = Behind
    BY <2>2, ReadingNew
  <2>5. i > b
    BY <2>3, <2>4
  <2>6. i > Behind /\ pending'[i].deliveries = 1
    BY <2>3, <2>4, <2>5
  <2>7. Counted(1, i)'
    BY <2>1, <2>2, <2>6, NewIsOwed
  <2> QED BY <2>6, <2>7 DEF Counted
<1> QED BY <1>1, <1>2

(* What is said of the k-th entry in the list of a consumer.                 *)
ListedIsCounted(c, k) ==
  /\ Waits(c, k) => Counted(turn[c].todo[k].attempt, turn[c].todo[k].id)
  /\ turn[c].stage = "stale" /\ turn[c].todo[k].id \in DOMAIN pending =>
       turn[c].todo[k].attempt <= pending[turn[c].todo[k].id].deliveries + 1

(* An entry that was listed before: its tries and its deliveries grew at most. *)
LEMMA ListedBefore ==
  ASSUME TypeOK, TypeOK', \A c \in Consumer : TurnInv(c), [GroupNext]_vars, CountsInv,
         NEW d \in Consumer, NEW k \in DOMAIN turn'[d].todo, NEW m \in DOMAIN turn[d].todo,
         turn[d].todo[m] = turn'[d].todo[k]
  PROVE  /\ (Waits(d, k)' => Waits(d, m)) =>
              (Waits(d, k)' => Counted(turn[d].todo[k].attempt, turn[d].todo[k].id)')
         /\ turn[d].stage = "stale" /\ turn'[d].todo[k].id \in DOMAIN pending' =>
              turn'[d].todo[k].attempt <= pending'[turn'[d].todo[k].id].deliveries + 1
<1>1. PICK i \in 1..position, a \in Nat :
        /\ i = turn[d].todo[m].id /\ a = turn[d].todo[m].attempt
        /\ i = turn'[d].todo[k].id /\ a = turn'[d].todo[k].attempt
  <2> DEFINE E == [id : 1..position, attempt : Nat]
             q == turn[d].todo
  <2>1. q \in Seq(E)
    BY TurnsAreTyped DEF TurnType
  <2>2. q[m] \in E
    <3> HIDE DEF E
    <3>1. m \in DOMAIN q
      OBVIOUS
    <3> HIDE DEF q
    <3> QED BY <2>1, <3>1
  <2> QED BY <2>2
<1>2. ASSUME Waits(d, m) PROVE Counted(turn[d].todo[k].attempt, turn[d].todo[k].id)'
  <2>1. Counted(a, i)
    BY <1>1, <1>2 DEF CountsInv
  <2>2. Counted(a, i)'
    BY <2>1, CountedStays
  <2> QED BY <1>1, <2>2 DEF Counted, Heeds
<1>3. ASSUME turn[d].stage = "stale", i \in DOMAIN pending'
      PROVE  a <= pending'[i].deliveries + 1
  <2>1. PICK n \in Nat : /\ n = pending[i].deliveries /\ i \in DOMAIN pending
                         /\ pending'[i].deliveries = n \/ pending'[i].deliveries = n + 1
    BY <1>3, PendingGrows
  <2>2. a <= n + 1
    BY <1>1, <1>3, <2>1 DEF CountsInv
  <2> QED BY <2>1, <2>2
<1> QED BY <1>1, <1>2, <1>3

(* The lists of all consumers stay within the tries of their entries.        *)
LEMMA ListsStayCounted ==
  ASSUME TypeOK, TypeOK', \A c \in Consumer : TurnInv(c), [GroupNext]_vars, CountsInv,
         NEW d \in Consumer, NEW k \in DOMAIN turn'[d].todo
  PROVE  ListedIsCounted(d, k)'
<1>1. CASE turn'[d] = turn[d]
  <2>1. Waits(d, k)' <=> Waits(d, k)
    BY <1>1 DEF Waits
  <2>2. k \in DOMAIN turn[d].todo /\ turn[d].todo[k] = turn'[d].todo[k] /\ turn'[d].stage = turn[d].stage
    BY <1>1
  <2> QED BY <2>1, <2>2, ListedBefore DEF ListedIsCounted
<1>2. ASSUME Keeps(d, "ack") \/ Keeps(d, "emit") \/ Moves(d) PROVE ListedIsCounted(d, k)'
  <2>1. PICK m \in DOMAIN turn[d].todo :
          turn[d].todo[m] = turn'[d].todo[k] /\ (Waits(d, k)' => Waits(d, m))
    BY <1>2, WaitedBefore
  <2>2. turn'[d].stage = turn[d].stage
    BY <1>2 DEF Keeps, Moves
  <2> QED BY <2>1, <2>2, ListedBefore DEF ListedIsCounted
<1>3. CASE Delivers(d)
  <2>1. /\ turn'[d].todo = turn[d].todo /\ turn'[d].step = "dispatch" /\ turn'[d].stage = "stale"
        /\ turn[d].stage = "stale" /\ turn[d].todo # <<>>
    BY <1>3 DEF Delivers, Keeps, Claim
  <2>2. k \in DOMAIN turn[d].todo /\ turn[d].todo[k] = turn'[d].todo[k]
    BY <2>1
  <2>3. ASSUME Waits(d, k)' PROVE Counted(turn[d].todo[k].attempt, turn[d].todo[k].id)'
    <3>1. k = 1
      BY <2>1, <2>3 DEF Waits
    <3>2. PICK i \in 1..position, n \in Nat :
            i = Current(d).id /\ n = pending[i].deliveries /\ Counted(n + 1, i)'
      BY <1>3, DeliveryIsOwed
    <3>3. /\ turn[d].todo[1] = Current(d) /\ 1 \in DOMAIN turn[d].todo /\ Current(d).attempt \in Nat
      BY <2>1, InHand
    <3>4. PICK a \in Nat : a = Current(d).attempt
      BY <3>3
    <3>5. a <= n + 1
      <4>1. i \in DOMAIN pending
        <5>1. ~Moves(d)
          BY <2>1 DEF Moves
        <5>2. Current(d).id \in Stale
          BY <1>3, <5>1, TurnsMove DEF Delivers, Consumes, Works
        <5> QED BY <3>2, <5>2 DEF Stale
      <4> QED BY <2>1, <3>2, <3>3, <3>4, <4>1 DEF CountsInv
    <3>6. i \in 1..position' /\ n + 1 \in Nat
      BY DoneStaysDone
    <3>7. Counted(a, i)'
      BY <3>2, <3>4, <3>5, <3>6, FewerAreCounted
    <3>8. turn'[d].todo[k].attempt = a /\ turn'[d].todo[k].id = i
      BY <2>1, <3>1, <3>2, <3>3, <3>4
    <3> QED BY <3>7, <3>8 DEF Counted, Heeds
  <2> QED BY <2>1, <2>2, <2>3, ListedBefore DEF ListedIsCounted
<1>4. CASE ReadNew(d)
  <2>1. turn'[d].todo = NewBatch /\ turn'[d].stage = "batch"
    BY <1>4, TurnsMove DEF Consumes, Works, Lists
  <2>2. PICK p \in Nat, b \in Nat :
          /\ p = position' /\ b = Behind
          /\ DOMAIN NewBatch = 1..(p - b)
          /\ \A j \in 1..(p - b) : NewBatch[j] = [id |-> b + j, attempt |-> 1]
    BY <1>4, ReadingNew
  <2>3. k \in 1..(p - b)
    BY <2>1, <2>2
  <2>4. PICK i \in Nat : i = b + k /\ i > b /\ i <= p
    BY <2>3
  <2>5. turn'[d].todo[k].attempt = 1 /\ turn'[d].todo[k].id = i
    <3>1. NewBatch[k] = [id |-> i, attempt |-> 1]
      BY <2>2, <2>3, <2>4
    <3> QED BY <2>1, <3>1
  <2>6. Counted(1, i)'
    BY <1>4, <2>2, <2>4, NewIsOwed
  <2>7. Counted(turn[d].todo[k].attempt, turn[d].todo[k].id)'
    BY <2>5, <2>6 DEF Counted, Heeds
  <2> QED BY <2>1, <2>7 DEF ListedIsCounted
<1>5. CASE StalePending(d)
  <2>1. Lists(d, "stale", Listed) /\ turn[d] = Begin /\ pending' = pending
    BY <1>5, TurnsMove DEF Consumes, Works, StalePending
  <2>2. turn'[d].todo = Listed /\ turn'[d].stage = "stale" /\ turn'[d].step = "take"
    BY <2>1 DEF Lists, Begin
  <2>3. ~Waits(d, k)'
    BY <2>2 DEF Waits
  <2>4. turn'[d].todo[k].id \in DOMAIN pending
        /\ turn'[d].todo[k].attempt = pending[turn'[d].todo[k].id].deliveries + 1
    BY <2>2, ListedIsTyped
  <2>5. PICK n \in Nat : n = pending[turn'[d].todo[k].id].deliveries
    <3>1. \A j \in DOMAIN pending : pending[j] \in [deliveries : Nat, stale : BOOLEAN]
      BY DEF TypeOK
    <3>2. pending[turn'[d].todo[k].id] \in [deliveries : Nat, stale : BOOLEAN]
      BY <2>4, <3>1
    <3> QED BY <3>2
  <2>6. turn'[d].todo[k].attempt <= pending'[turn'[d].todo[k].id].deliveries + 1
    <3>1. turn'[d].todo[k].attempt = n + 1 /\ pending'[turn'[d].todo[k].id].deliveries = n
      BY <2>1, <2>4, <2>5
    <3> QED BY <3>1
  <2> QED BY <2>3, <2>6 DEF ListedIsCounted
<1>6. turn'[d] # Begin
  BY DEF Begin
<1>7. CASE turn'[d] # turn[d]
  <2>1. PICK c \in Consumer : Consumes(c)
    BY <1>7 DEF GroupNext, Consumes, vars, group, Arrive, GoesStale
  <2>2. c = d
    BY <1>7, <2>1, TurnsMove
  <2>3. CASE ReadNothing(d) \/ AckSkipped(d) \/ TurnBreaks(d)
    BY <1>6, <2>1, <2>2, <2>3, TurnsMove
  <2>4. CASE Claim(d)
    BY <1>2, <1>3, <2>1, <2>2, <2>4, TurnsMove DEF Delivers
  <2>5. CASE Skip(d) \/ GiveUp(d) \/ Reject(d) \/ Record(d) \/ Throws(d) \/ Emit(d) \/ Ack(d)
    BY <1>2, <2>1, <2>2, <2>5, TurnsMove
  <2> QED BY <1>4, <1>5, <2>1, <2>2, <2>3, <2>4, <2>5 DEF Consumes, Works
<1> QED BY <1>1, <1>7

(* Nor does a letter, old or new, lose what it was written for.              *)
LEMMA LettersStayCounted ==
  ASSUME TypeOK, TypeOK', \A c \in Consumer : TurnInv(c), [GroupNext]_vars, CountsInv,
         NEW letter \in dead', letter.reason = "exhausted"
  PROVE  (Heeds(letter.id) /\ Tries(letter.id) >= MaxDeliveries)'
<1>1. CASE letter \in dead
  <2>1. letter \in [id : 1..position, reason : Reason]
    BY <1>1 DEF TypeOK
  <2>2. PICK i \in 1..position : i = letter.id
    BY <2>1
  <2>3. Heeds(i) /\ MaxDeliveries <= Tries(i)
    <3>1. Heeds(i) /\ Tries(i) >= MaxDeliveries
      BY <1>1, <2>2 DEF CountsInv
    <3>2. Tries(i) \in Nat
      BY TriesAreCounted
    <3> QED BY <3>1, <3>2, GroupAssumption
  <2>4. Heeds(i)' /\ MaxDeliveries <= Tries(i)'
    BY <2>3, DoneStaysDone, TriesNeverDrop, GroupAssumption
  <2> QED BY <2>2, <2>4
<1>2. CASE letter \notin dead
  <2>1. PICK i \in 1..position, n \in Nat :
          i = letter.id /\ Heeds(i) /\ Counted(n, i) /\ n >= MaxDeliveries
    BY <1>2, LettersAreCounted
  <2>2. Heeds(i)' /\ Counted(n, i)'
    BY <2>1, CountedStays, DoneStaysDone
  <2>3. Smaller(n, MaxDeliveries) = MaxDeliveries
    BY <2>1, GroupAssumption DEF Smaller
  <2>4. MaxDeliveries <= Tries(i)'
    BY <2>2, <2>3 DEF Counted
  <2> QED BY <2>1, <2>2, <2>4
<1> QED BY <1>1, <1>2

LEMMA CountsKept ==
  ASSUME TypeOK, TypeOK', \A c \in Consumer : TurnInv(c), [GroupNext]_vars, CountsInv
  PROVE  CountsInv'
<1>1. \A i \in DOMAIN pending' : Counted(pending[i].deliveries, i)'
  BY PendingStaysCounted
<1>2. \A d \in Consumer : \A k \in DOMAIN turn'[d].todo : ListedIsCounted(d, k)'
  BY ListsStayCounted
<1>3. \A letter \in dead' : letter.reason = "exhausted" =>
        (Heeds(letter.id) /\ Tries(letter.id) >= MaxDeliveries)'
  BY LettersStayCounted
<1> QED BY <1>1, <1>2, <1>3 DEF CountsInv, ListedIsCounted

-----------------------------------------------------------------------------
(* The inductive invariant holds *)

LEMMA GroupInitially == GroupInit => IInv
<1> SUFFICES ASSUME GroupInit PROVE IInv
  OBVIOUS
<1>1. /\ stream = <<>> /\ gone = 0 /\ position = 0 /\ pending = <<>>
      /\ turn = [c \in Consumer |-> Begin] /\ dead = {}
      /\ newest = [o \in Order |-> 0] /\ shown = [o \in Order |-> 0] /\ handled = {}
      /\ calls = <<>> /\ broken = 0 /\ thrown = 0
  BY DEF GroupInit, Init
<1>2. \A c \in Consumer : turn[c] = Begin
  BY <1>1
<1>3. TypeOK
  <2>1. /\ stream \in Seq(Event) /\ Len(stream) = 0 /\ calls \in Seq(Nat) /\ Len(calls) = 0
        /\ DOMAIN pending = {}
    BY <1>1
  <2>2. Copies = 0
    <3>1. {stream[i] : i \in DOMAIN stream} = {}
      BY <1>1
    <3> QED BY <2>1, <3>1, FS_EmptySet DEF Copies
  <2>3. Begin \in [stage : Stage, todo : Seq([id : 1..position, attempt : Nat]),
                   step : Step, skipped : SUBSET (1..position)]
    <3> DEFINE E == [id : 1..position, attempt : Nat]
    <3>1. <<>> \in Seq(E)
      OBVIOUS
    <3> HIDE DEF E
    <3>2. Begin \in [stage : Stage, todo : Seq(E), step : Step, skipped : SUBSET (1..position)]
      BY <3>1 DEF Begin, Stage, Step
    <3> QED BY <3>2 DEF E
  <2>4. turn \in [Consumer -> [stage : Stage, todo : Seq([id : 1..position, attempt : Nat]),
                               step : Step, skipped : SUBSET (1..position)]]
    BY <1>1, <2>3
  <2>5. newest \in [Order -> 0..MaxVersion] /\ shown \in [Order -> 0..MaxVersion]
    BY <1>1, TopicsAssumption
  <2>6. Copies + broken + thrown <= MaxTroubles
    BY <1>1, <2>2, GroupAssumption
  <2>7. /\ gone \in 0..Len(stream) /\ position \in 0..Len(stream) /\ broken \in Nat /\ thrown \in Nat
    BY <1>1, <2>1
  <2> QED BY <1>1, <2>1, <2>4, <2>5, <2>6, <2>7 DEF TypeOK
<1>4. \A c \in Consumer : TurnInv(c)
  BY <1>2 DEF TurnInv, Begin
<1>5. NoneVanishes /\ ShownInv
  BY <1>1 DEF NoneVanishes, ShownInv
<1>6. NewestInv
  BY <1>1 DEF NewestInv
<1>7. CountsInv
  <2>1. \A c \in Consumer : DOMAIN turn[c].todo = {}
    BY <1>2 DEF Begin
  <2> QED BY <1>1, <2>1 DEF CountsInv
<1> QED BY <1>3, <1>4, <1>5, <1>6, <1>7 DEF IInv

LEMMA GroupKept == IInv /\ [GroupNext]_vars => IInv'
<1> SUFFICES ASSUME TypeOK, \A c \in Consumer : TurnInv(c), NoneVanishes, NewestInv, ShownInv,
                    CountsInv, [GroupNext]_vars
             PROVE  IInv'
  BY DEF IInv
<1>1. TypeOK'
  BY TypeKept
<1>2. \A c \in Consumer : TurnInv(c)'
  BY TurnInvKept
<1>3. NoneVanishes'
  BY NoneVanishesKept
<1>4. NewestInv'
  BY NewestKept
<1>5. ShownInv'
  BY ShownKept
<1>6. CountsInv'
  BY <1>1, CountsKept
<1> QED BY <1>1, <1>2, <1>3, <1>4, <1>5, <1>6 DEF IInv

LEMMA GroupInvariant == GroupSpec => []IInv
BY GroupInitially, GroupKept, PTL DEF GroupSpec

-----------------------------------------------------------------------------
(* What follows *)

(* The stream, the pending list and the turns of all copies keep their types. *)
THEOREM GroupTypeCorrect == GroupSpec => []TypeOK
<1>1. IInv => TypeOK
  BY DEF IInv
<1> QED BY <1>1, GroupInvariant, PTL

(* However many copies read the group and wherever each breaks off: an entry  *)
(* the group has passed is pending, handled, in the dead letters, of a topic  *)
(* nobody hears, or trimmed.                                                  *)
THEOREM NoEntryVanishes == GroupSpec => []NoneVanishes
<1>1. IInv => NoneVanishes
  BY DEF IInv
<1> QED BY <1>1, GroupInvariant, PTL

(* A room whose event is done with has seen its version or a newer one, as    *)
(* long as no newer one is still pending, dead or trimmed.                    *)
THEOREM HandledReachesTheRoom == GroupSpec => []HandledIsShown
<1>1. IInv => HandledIsShown
  BY DEF IInv, ShownInv, Excused, HandledIsShown
<1> QED BY <1>1, GroupInvariant, PTL

(* An entry given up as exhausted had all its deliveries: each was a call of  *)
(* the handler, is in the hands of a consumer, or went down with a turn.      *)
THEOREM GivenUpForItsFailures == GroupSpec => []TriesAreUsed
<1>1. IInv => TriesAreUsed
  <2> SUFFICES ASSUME IInv, NEW letter \in dead, letter.reason = "exhausted"
               PROVE  calls[letter.id] + broken + Cardinality({c \in Consumer : Holds(c, letter.id)})
                        >= MaxDeliveries
    BY DEF TriesAreUsed
  <2>1. TypeOK /\ (\A c \in Consumer : TurnInv(c)) /\ Tries(letter.id) >= MaxDeliveries
    BY DEF IInv, CountsInv
  <2>2. PICK i \in 1..position : i = letter.id
    <3>1. letter \in [id : 1..position, reason : Reason]
      BY <2>1 DEF TypeOK
    <3> QED BY <3>1
  <2>3. \A c \in Owing(i) : Holds(c, i)
    <3> SUFFICES ASSUME NEW c \in Consumer, Owes(c, i) PROVE Holds(c, i)
      BY DEF Owing
    <3>1. PICK k \in DOMAIN turn[c].todo : turn[c].todo[k].id = i /\ Waits(c, k)
      BY DEF Owes
    <3>2. CASE turn[c].stage = "batch"
      BY <3>1, <3>2 DEF Holds
    <3>3. CASE k = 1 /\ turn[c].step = "dispatch"
      <4>1. turn[c].todo # <<>>
        BY <2>1, <3>3 DEF TurnInv
      <4>2. turn[c].todo[1] = Current(c)
        BY <2>1, <4>1, InHand
      <4> QED BY <3>1, <3>3, <4>2 DEF Holds
    <3> QED BY <3>1, <3>2, <3>3 DEF Waits
  <2> DEFINE S == Owing(i)
             T == {c \in Consumer : Holds(c, i)}
  <2>4. S \in SUBSET Consumer /\ T \in SUBSET Consumer /\ S \subseteq T
    <3>1. S \in SUBSET Consumer
      BY DEF Owing
    <3>2. \A c \in S : c \in T
      BY <2>3, <3>1
    <3> QED BY <3>1, <3>2
  <2>5. PICK s \in Nat, t \in Nat : s = Cardinality(S) /\ t = Cardinality(T) /\ s <= t
    <3> HIDE DEF S, T
    <3> QED BY <2>4, OneLess
  <2>6. PICK a \in Nat, b \in Nat : a = calls[i] /\ b = broken /\ Tries(i) = a + b + s
    BY <2>1, <2>4, <2>5, TriesAreCounted
  <2>7. a + b + s >= MaxDeliveries
    BY <2>1, <2>2, <2>6
  <2>8. a + b + t >= MaxDeliveries
    BY <2>5, <2>7, GroupAssumption
  <2> QED BY <2>2, <2>4, <2>5, <2>6, <2>8
<1> QED BY <1>1, GroupInvariant, PTL
=============================================================================
