------------------------- MODULE CheckoutPageProofs -------------------------
(***************************************************************************)
(* What the checkout page never does, for any number of orders, repeat     *)
(* keys and carts, with a second visit, a change, a trouble and a          *)
(* reservation time that ends, each once, in any order, until a step of    *)
(* the page crosses another (crossed = 0).  Three arguments.               *)
(*                                                                         *)
(* LInv: which functions of the page are under way together, and what is   *)
(* answered to which request.  A draft the page was told of is then always *)
(* held by its phase, and leaving the page releases it: nobody forgets it. *)
(*                                                                         *)
(* KInv: who may still release or place an order.  It is one actor at a    *)
(* time, the one who has the repeat key of its reservation or places it,   *)
(* and the right goes with the task from the page to what is left of it.   *)
(* So an order that was placed is not released by the others, and by this  *)
(* one only when it is told for good that the order is refused.            *)
(*                                                                         *)
(* PInv: what a user can have bought who only presses the button and       *)
(* enters codes.  An order that is at its payment or past it is the one of *)
(* the phase, and what the page is told of it is so: the page gives it up  *)
(* only when it is closed, and a late placement repeats the stored answer. *)
(* So there is one such order, whatever answers were lost, and no refusal  *)
(* the page hears of is one of an order that goes on.                      *)
(***************************************************************************)
EXTENDS CheckoutPage, FiniteSetTheorems, TLAPS

-----------------------------------------------------------------------------
(* The inductive invariant: types *)

At == {"none", "take", "drop", "undo", "reserve", "place", "confirm", "abandon", "look", "read"}
TaskRec == [job : Job \cup {"loose"}, at : At, order : 0..MaxOrders, cart : Cart \cup {NoCart},
            pay : Payment, with : Payment \cup {"any"}, key : 0..MaxKeys, attempt : 0..MaxKeys,
            answer : Answer]
PhaseKind == {"none", "reserving", "held", "failed", "placing", "ordered"}
PhaseRec == [kind : PhaseKind, order : 0..MaxOrders, cart : Cart \cup {NoCart},
             with : Payment \cup {"any"}]
PageRec == [on : BOOLEAN, own : Own, order : 0..MaxOrders, resume : {"no", "reading", "failed"},
            phase : PhaseRec, intent : 0..MaxKeys, of : Cart \cup {NoCart}, attempt : 0..MaxKeys,
            pay : Payment, stale : {{}}]
Content == Cart \cup {NoCart, "none"} \cup Payment
RecordRec == [state : {"free", "busy", "done"}, body : [order : 0..MaxOrders, content : Content],
              answer : Answer]
ChargeRec == [key : 0..MaxKeys, payment : Payment, first : BOOLEAN]

Types ==
  /\ status \in [Order -> Status] /\ lapsed \subseteq Order
  /\ record \in [Key -> RecordRec] /\ charge \in [Order -> ChargeRec]
  /\ cart \in Cart \cup {NoCart} /\ pending \in 0..MaxOrders
  /\ page \in PageRec /\ task \in [Job -> TaskRec]
  /\ left \subseteq TaskRec /\ loose \subseteq TaskRec
  /\ asked \cup denied \cup owed \subseteq Order
  /\ crossed \in Nat

-----------------------------------------------------------------------------
(* Which functions of the page are under way together, and the phase of    *)
(* the reservation meanwhile.                                              *)

Off == ~page.on => page = Blank /\ task = NoTasks
Named == \A j \in Job : task[j].job = j /\ task[j].attempt = NoKey
EarlyInv ==
  /\ task["early"].at \in {"none", "drop", "reserve"}
  /\ task["early"].at # "none" => page.own = "idle" \/ task["flow"].at = "take"
  /\ task["early"].at # "none" => page.resume = "no"
  /\ task["early"].at = "reserve" <=> page.phase.kind = "reserving"
  /\ task["early"].at = "drop" => page.phase.kind = "none" /\ page.intent = NoKey
FlowInv ==
  /\ task["flow"].at \in {"none", "take", "drop", "reserve", "place", "undo", "abandon", "look"}
  /\ task["flow"].at # "none" => page.own = "busy" /\ task["code"].at = "none"
  /\ task["flow"].at \in {"drop", "reserve"} => page.phase.kind \in {"none", "failed"}
  /\ task["flow"].at \in {"place", "undo"} => page.phase.kind = "placing"
  /\ task["flow"].at \in {"drop", "undo", "abandon", "look"} => page.intent = NoKey
CodeInv ==
  /\ task["code"].at \in {"none", "confirm", "abandon", "look"}
  /\ task["code"].at = "confirm" <=> page.own = "check"
  /\ task["code"].at \in {"abandon", "look"} => page.own = "busy" /\ page.intent = NoKey
Abandoning == task["flow"].at \in {"abandon", "look"} \/ task["code"].at \in {"abandon", "look"}
PhaseInv ==
  /\ page.own \in {"code", "check"} => page.phase.kind = "ordered"
  /\ page.phase.kind = "ordered" => page.own \in {"code", "check"} \/ Abandoning
  /\ Abandoning => page.phase.kind \in {"none", "ordered"}
  /\ page.phase.kind \in {"held", "placing"} => page.phase.order # NoOrder
ResumeInv ==
  /\ task["resume"].at \in {"none", "read"}
  /\ task["resume"].at = "read" => page.resume = "reading"
  /\ page.resume # "no" => page.own = "idle" /\ page.phase.kind = "none" /\ page.intent = NoKey

Layout == Off /\ Named /\ EarlyInv /\ FlowInv /\ CodeInv /\ PhaseInv /\ ResumeInv

-----------------------------------------------------------------------------
(* What is answered to which request, and what a key has stored. *)

PlaceKinds == {"paid", "review", "challenge", "cardless", "method", "error", "unknown"}
Replies(at) ==
  CASE at \in {"drop", "undo", "abandon"} -> {"none", "unknown", "released", "progress", "open"}
    [] at = "reserve" -> {"none", "unknown", "held", "refused", "error"}
    [] at = "place" -> {"none", "wait"} \cup PlaceKinds
    [] at = "confirm" -> {"none", "paid", "wrong", "error", "unknown"}
    [] at \in {"look", "read"} ->
         {"none", "paid", "review", "challenge", "open", "unknown", "gone"}
    [] OTHER -> {"none"}

Holds(r, k, o) == r[k].answer = Said("held", o)

Stored(r) ==
  /\ r.state = "free" => r = FreeKey
  /\ r.state = "busy" => r.body.order # NoOrder /\ r.answer.is = "none"
  /\ r.state = "done" /\ r.body.order = NoOrder => r.answer.is \in {"held", "refused"}
  /\ r.state = "done" /\ r.body.order # NoOrder => r.answer.is \in PlaceKinds
  /\ r.answer.is = "held" => r.answer.order # NoOrder

Answers(t, r) ==
  /\ t.answer.is \in Replies(t.at)
  /\ t.answer.is = "none" => t.answer = Unsaid
  /\ t.answer.is = "held" => Holds(r, t.key, t.answer.order)
  /\ t.at = "place" => t.order # NoOrder
  /\ t.at \in {"reserve", "place"} <=> t.key # NoKey

OfPage(t) ==
  /\ t.job \in Job
  /\ t.at \notin {"none", "take", "read"}
  /\ t.at \in {"drop", "reserve"} => t.job \in {"early", "flow"}
OnItsWay(t) == t.at \notin {"none", "take"} /\ t.answer = Unsaid

Talk ==
  /\ \A k \in Key : Stored(record[k])
  /\ \A j \in Job : Answers(task[j], record)
  /\ \A t \in left : Answers(t, record) /\ OfPage(t)
  /\ \A t \in loose : Answers(t, record) /\ OnItsWay(t)

(* A draft the page was told of is held, or its time is over.              *)
Owed == \A o \in owed : o \in lapsed \/ (page.phase.kind = "held" /\ page.phase.order = o)

LInv == Types /\ Layout /\ Talk /\ Owed


-----------------------------------------------------------------------------
(* Records *)

PageIs(p, on, own, order, again, phase, intent, attempt) ==
  /\ p \in PageRec
  /\ p.on = on /\ p.own = own /\ p.order = order /\ p.resume = again
  /\ p.phase = phase /\ p.intent = intent /\ p.attempt = attempt
TaskIs(t, job, at, o, key, attempt, answer) ==
  /\ t \in TaskRec
  /\ t.job = job /\ t.at = at /\ t.order = o
  /\ t.key = key /\ t.attempt = attempt /\ t.answer = answer

LEMMA Basics ==
  /\ NoKey \in 0..MaxKeys /\ NoOrder \in 0..MaxOrders
  /\ Order \subseteq 0..MaxOrders /\ Key \subseteq 0..MaxKeys
  /\ \A o \in 0..MaxOrders : o # NoOrder => o \in Order
  /\ \A k \in 0..MaxKeys : k # NoKey => k \in Key
  /\ NoOrder \notin Order /\ NoKey \notin Key
  /\ \A what \in Kind, o \in 0..MaxOrders : Said(what, o) \in Answer
  /\ Unsaid \in Answer
BY ServerAssumption DEF NoKey, NoOrder, Order, Key, Said, Answer, Unsaid, Kind

LEMMA SaidFields ==
  /\ \A what, o : Said(what, o).is = what /\ Said(what, o).order = o
  /\ Unsaid.is = "none" /\ Unsaid.order = NoOrder
  /\ \A a \in Answer : a.is \in Kind /\ a.order \in 0..MaxOrders /\ a = Said(a.is, a.order)
  /\ \A o \in 0..MaxOrders : AnswersAbout(o) \subseteq Answer
  /\ \A o, a : a \in AnswersAbout(o) => a.order = o
BY DEF Said, Unsaid, Answer, AnswersAbout

LEMMA PhaseFields ==
  /\ \A kind \in PhaseKind, o \in 0..MaxOrders, c \in Cart \cup {NoCart} :
       Phase(kind, o, c) \in PhaseRec
  /\ \A kind, o, c : Phase(kind, o, c).kind = kind /\ Phase(kind, o, c).order = o
  /\ NoPhase \in PhaseRec /\ NoPhase.kind = "none" /\ NoPhase.order = NoOrder
  /\ \A p \in PhaseRec : /\ [p EXCEPT !.kind = "placing"] \in PhaseRec
                         /\ [p EXCEPT !.kind = "placing"].kind = "placing"
                         /\ [p EXCEPT !.kind = "placing"].order = p.order
  /\ \A p \in PhaseRec, x \in Payment : /\ [p EXCEPT !.with = x] \in PhaseRec
                                        /\ [p EXCEPT !.with = x].kind = p.kind
                                        /\ [p EXCEPT !.with = x].order = p.order
<1> NoOrder \in 0..MaxOrders
  BY Basics
<1> QED
  BY DEF Phase, NoPhase, PhaseRec, PhaseKind

LEMMA HeldByIs ==
  ASSUME NEW t \in TaskRec, NEW kind \in PhaseKind
  PROVE  /\ HeldBy(t, kind) \in PhaseRec
         /\ HeldBy(t, kind).kind = kind /\ HeldBy(t, kind).order = t.order
         /\ HeldBy(t, kind).cart = t.cart /\ HeldBy(t, kind).with = t.with
<1>1. /\ t.order \in 0..MaxOrders /\ t.cart \in Cart \cup {NoCart}
      /\ t.with \in Payment \cup {"any"}
  BY DEF TaskRec
<1> QED
  BY <1>1 DEF HeldBy, Phase, PhaseRec

LEMMA BlankIs ==
  /\ PageIs(Blank, FALSE, "idle", NoOrder, "no", NoPhase, NoKey, NoKey)
  /\ \A j \in Job \cup {"loose"} :
       TaskIs(Rest(j), j, "none", NoOrder, NoKey, NoKey, Unsaid)
  /\ \A o \in 0..MaxOrders : TaskIs(Drop(o), "loose", "drop", o, NoKey, NoKey, Unsaid)
  /\ NoTasks \in [Job -> TaskRec] /\ \A j \in Job : NoTasks[j] = Rest(j)
<1>1. PageIs(Blank, FALSE, "idle", NoOrder, "no", NoPhase, NoKey, NoKey)
  BY Basics, PhaseFields DEF PageIs, Blank, PageRec, Own, Payment
<1>2. \A j \in Job \cup {"loose"} : TaskIs(Rest(j), j, "none", NoOrder, NoKey, NoKey, Unsaid)
  BY Basics DEF TaskIs, Rest, TaskRec, At, Payment
<1>3. \A o \in 0..MaxOrders : TaskIs(Drop(o), "loose", "drop", o, NoKey, NoKey, Unsaid)
  BY Basics DEF TaskIs, Drop, Ask, Rest, TaskRec, At, Payment
<1> QED
  BY <1>1, <1>2, <1>3 DEF NoTasks, TaskIs

LEMMA AskIs ==
  ASSUME NEW t \in TaskRec, NEW at \in At, NEW o \in 0..MaxOrders
  PROVE  /\ TaskIs(Ask(t, at, o), t.job, at, o, NoKey, t.attempt, Unsaid)
         /\ \A k \in 0..MaxKeys : TaskIs(AskWith(t, at, o, k), t.job, at, o, k, t.attempt, Unsaid)
BY Basics DEF Ask, AskWith, TaskRec, TaskIs

LEMMA TaskUpdates ==
  ASSUME NEW t \in TaskRec
  PROVE  /\ \A at \in At : TaskIs([t EXCEPT !.at = at], t.job, at, t.order, t.key, t.attempt, t.answer)
         /\ \A c \in Cart \cup {NoCart} :
              TaskIs([t EXCEPT !.cart = c], t.job, t.at, t.order, t.key, t.attempt, t.answer)
         /\ \A w \in Payment \cup {"any"} :
              TaskIs([t EXCEPT !.with = w], t.job, t.at, t.order, t.key, t.attempt, t.answer)
         /\ \A c \in Cart \cup {NoCart}, p \in Payment :
              TaskIs([t EXCEPT !.at = "take", !.cart = c, !.pay = p],
                     t.job, "take", t.order, t.key, t.attempt, t.answer)
         /\ \A a \in Answer :
              TaskIs([t EXCEPT !.answer = a], t.job, t.at, t.order, t.key, t.attempt, a)
         /\ TaskIs([t EXCEPT !.job = "loose"], "loose", t.at, t.order, t.key, t.attempt, t.answer)
BY DEF TaskIs, TaskRec, At

LEMMA TaskFields ==
  ASSUME NEW t \in TaskRec
  PROVE  /\ t.job \in Job \cup {"loose"} /\ t.at \in At /\ t.order \in 0..MaxOrders
         /\ t.cart \in Cart \cup {NoCart} /\ t.pay \in Payment /\ t.key \in 0..MaxKeys
         /\ t.attempt \in 0..MaxKeys /\ t.answer \in Answer /\ t.with \in Payment \cup {"any"}
BY DEF TaskRec

LEMMA PageFields ==
  ASSUME NEW p \in PageRec
  PROVE  /\ p.on \in BOOLEAN /\ p.own \in Own /\ p.order \in 0..MaxOrders
         /\ p.resume \in {"no", "reading", "failed"} /\ p.phase \in PhaseRec
         /\ p.intent \in 0..MaxKeys /\ p.attempt \in 0..MaxKeys /\ p.pay \in Payment
         /\ p.phase.kind \in PhaseKind /\ p.phase.order \in 0..MaxOrders /\ p.stale = {}
BY DEF PageRec, PhaseRec

-----------------------------------------------------------------------------
(* Keys *)

LEMMA TheNewKey ==
  ASSUME Takes(NoKey)
  PROVE  NewKey \in Key /\ NewKey \notin KeysInUse
BY DEF Takes, NewKey

LEMMA KeyIsTaken ==
  ASSUME Types, NEW kept \in 0..MaxKeys, Takes(kept)
  PROVE  /\ KeyFrom(kept) \in Key
         /\ KeyFrom(kept) = kept \/ (kept = NoKey /\ KeyFrom(kept) \notin KeysInUse)
         /\ record' \in [Key -> RecordRec]
         /\ \A k \in Key : record'[k] = record[k] \/ (k \notin KeysInUse /\ record'[k] = FreeKey)
         /\ kept = NoKey => record'[KeyFrom(kept)] = FreeKey
<1>1. FreeKey \in RecordRec
  BY Basics DEF FreeKey, Body, RecordRec, Content, Said, Unsaid, Answer, Kind
<1>2. CASE kept = NoKey
  <2>1. NewKey \in Key /\ NewKey \notin KeysInUse
    BY <1>2, TheNewKey
  <2>2. record' = [record EXCEPT ![NewKey] = FreeKey] /\ KeyFrom(kept) = NewKey
    BY <1>2 DEF Takes, KeyFrom
  <2> QED
    BY <1>1, <1>2, <2>1, <2>2 DEF Types
<1>3. CASE kept # NoKey
  BY <1>3, Basics DEF Takes, KeyFrom, Types
<1> QED
  BY <1>2, <1>3

LEMMA IntentIs ==
  ASSUME Types, NEW c
  PROVE  IntentFor(c) \in 0..MaxKeys /\ (IntentFor(c) = page.intent \/ IntentFor(c) = NoKey)
BY Basics, PageFields DEF IntentFor, Types

LEMMA SettledIs ==
  ASSUME Types, NEW what
  PROVE  /\ SettledIntent(what) \in 0..MaxKeys
         /\ SettledIntent(what) = IF what = "unknown" THEN page.intent ELSE NoKey
         /\ SettledAttempt(what) \in 0..MaxKeys
         /\ SettledAttempt(what) = IF what = "unknown" THEN page.attempt ELSE NoKey
BY Basics, PageFields DEF SettledIntent, SettledAttempt, Types

(* The answer a task has is its own, or the one its key has stored.        *)
LEMMA ReplyIs ==
  ASSUME NEW t, t.answer.is # "wait"
  PROVE  Reply(t) = t.answer
BY DEF Reply

LEMMA RepliesNeverWait ==
  ASSUME NEW t, NEW r, Answers(t, r), t.at # "place"
  PROVE  t.answer.is # "wait" /\ Reply(t) = t.answer
BY DEF Answers, Replies, PlaceKinds, Reply

LEMMA RepliesAre ==
  /\ \A at \in {"drop", "undo", "abandon"} :
       Replies(at) = {"none", "unknown", "released", "progress", "open"}
  /\ Replies("reserve") = {"none", "unknown", "held", "refused", "error"}
  /\ Replies("place") = {"none", "wait"} \cup PlaceKinds
  /\ Replies("confirm") = {"none", "paid", "wrong", "error", "unknown"}
  /\ \A at \in {"look", "read"} :
       Replies(at) = {"none", "paid", "review", "challenge", "open", "unknown", "gone"}
  /\ \A at \in {"none", "take"} : Replies(at) = {"none"}
  /\ \A at \in At : "none" \in Replies(at)
BY DEF Replies, At

-----------------------------------------------------------------------------
(* What the parts of a step do to the page and its tasks *)

OnlyTask(j, t) ==
  /\ task' \in [Job -> TaskRec]
  /\ task'[j] = t
  /\ \A i \in Job : i # j => task'[i] = task[i]

LEMMA OneTask ==
  ASSUME Types, NEW j \in Job, NEW t \in TaskRec, task' = [task EXCEPT ![j] = t]
  PROVE  OnlyTask(j, t)
BY DEF OnlyTask, Types

LEMMA JobsAre ==
  /\ Job = {"early", "flow", "code", "resume"}
  /\ Types => \A j \in Job : task[j] \in TaskRec
BY DEF Job, Types

LEMMA TypesGive ==
  ASSUME Types
  PROVE  /\ cart \in Cart \cup {NoCart} /\ pending \in 0..MaxOrders
         /\ page \in PageRec /\ page.phase \in PhaseRec /\ page.phase.order \in 0..MaxOrders
         /\ page.order \in 0..MaxOrders /\ page.pay \in Payment
         /\ page.intent \in 0..MaxKeys /\ page.attempt \in 0..MaxKeys
         /\ \A t \in left \cup loose : t \in TaskRec
         /\ \A k \in Key : record[k] \in RecordRec
BY PageFields DEF Types

LEMMA DeniesIs ==
  ASSUME Types, NEW o, NEW what, Denies(o, what)
  PROVE  asked' = asked \ {o} /\ (o \in Order => asked' \cup denied' \subseteq Order)
BY DEF Denies, Types

LEMMA EndsIs ==
  ASSUME Types, NEW j \in Job, Ends(j)
  PROVE  OnlyTask(j, Rest(j)) /\ TaskIs(Rest(j), j, "none", NoOrder, NoKey, NoKey, Unsaid)
<1>1. TaskIs(Rest(j), j, "none", NoOrder, NoKey, NoKey, Unsaid)
  BY BlankIs
<1> QED
  BY <1>1, OneTask DEF Ends, TaskIs

(* While no step has crossed, the page has one early run at a time.        *)
LEMMA OneRun ==
  ASSUME Types, NEW t, t = task["early"] \/ task["early"].at = "none", NEW next,
         NEW p \in PageRec
  PROVE  /\ RunAsks(t, next, p) => page' = p /\ task' = [task EXCEPT !["early"] = next]
         /\ RunEnds(task["early"], p) => page' = p /\ Ends("early")
         /\ EarlyRuns \subseteq {task["early"]} /\ page.stale = {}
<1>1. page.stale = {} /\ p = [p EXCEPT !.stale = {}] /\ p.stale = {}
  BY PageFields DEF Types, PageRec
<1>2. InFlight \ {t} = {} /\ InFlight \ {task["early"]} = {}
  BY DEF InFlight
<1>3. RunAsks(t, next, p) => page' = p /\ task' = [task EXCEPT !["early"] = next]
  <2> HAVE RunAsks(t, next, p)
  <2>1. page' = [p EXCEPT !.stale = p.stale \cup (InFlight \ {t})]
    BY <1>1, Zenon DEF RunAsks
  <2>2. p.stale \cup (InFlight \ {t}) = {}
    BY <1>1, <1>2
  <2> QED
    BY <1>1, <2>1, <2>2, Zenon DEF RunAsks
<1>4. RunEnds(task["early"], p) => page' = p /\ Ends("early")
  <2> HAVE RunEnds(task["early"], p)
  <2>1. (IF task["flow"].at = "take" THEN {} ELSE InFlight \ {task["early"]}) = {}
    BY <1>2
  <2>2. page' = [p EXCEPT !.stale = (p.stale \ {task["early"]}) \cup {}] /\ Ends("early")
    BY <1>1, <2>1 DEF RunEnds
  <2>3. (p.stale \ {task["early"]}) \cup {} = {}
    BY <1>1
  <2> QED
    BY <1>1, <2>2, <2>3, Zenon
<1> QED
  BY <1>1, <1>3, <1>4 DEF EarlyRuns, InFlight

LEMMA EarlyReservesIs ==
  ASSUME Types, NEW kept \in 0..MaxKeys, NEW r \in TaskRec, r.job = "early", r.attempt = NoKey,
         r = task["early"] \/ task["early"].at = "none", EarlyReserves(r, kept)
  PROVE  /\ PageIs(page', page.on, page.own, page.order, page.resume,
                   Phase("reserving", NoOrder, cart), KeyFrom(kept), page.attempt)
         /\ TaskIs(task'["early"], "early", "reserve", NoOrder, KeyFrom(kept), NoKey, Unsaid)
         /\ OnlyTask("early", task'["early"])
         /\ page' = [page EXCEPT !.phase = Phase("reserving", NoOrder, cart),
                                 !.intent = KeyFrom(kept), !.of = cart]
         /\ task'["early"] = AskWith([r EXCEPT !.cart = cart], "reserve", NoOrder, KeyFrom(kept))
<1> DEFINE c == [r EXCEPT !.cart = cart]
           k == KeyFrom(kept)
           t == AskWith(c, "reserve", NoOrder, k)
           p == [page EXCEPT !.phase = Phase("reserving", NoOrder, cart), !.intent = k, !.of = cart]
<1>1. k \in 0..MaxKeys /\ NoOrder \in 0..MaxOrders /\ "reserve" \in At
  BY KeyIsTaken, Basics DEF EarlyReserves, At
<1>3. c \in TaskRec /\ c.job = "early" /\ c.attempt = NoKey
  <2>1. cart \in Cart \cup {NoCart}
    BY TypesGive
  <2>2. TaskIs(c, r.job, r.at, r.order, r.key, r.attempt, r.answer)
    BY <2>1, TaskUpdates, Zenon
  <2> QED
    BY <2>2, Zenon DEF TaskIs
<1>4. TaskIs(t, "early", "reserve", NoOrder, k, NoKey, Unsaid)
  <2> HIDE DEF c, k
  <2> QED
    BY <1>1, <1>3, AskIs
<1>7. Phase("reserving", NoOrder, cart) \in PhaseRec
  BY Basics, PhaseFields DEF PhaseKind, Types
<1>8. PageIs(p, page.on, page.own, page.order, page.resume,
             Phase("reserving", NoOrder, cart), k, page.attempt)
  BY <1>1, <1>7 DEF PageIs, PageRec, Types
<1>9. RunAsks(r, t, p) /\ p \in PageRec
  BY <1>8 DEF EarlyReserves, PageIs
<1> HIDE DEF t, p
<1>5. t \in TaskRec /\ task' = [task EXCEPT !["early"] = t] /\ page' = p
  BY <1>4, <1>9, OneRun DEF TaskIs
<1>6. OnlyTask("early", t)
  BY <1>5, OneTask, JobsAre
<1> QED
  BY <1>4, <1>5, <1>6, <1>8 DEF OnlyTask, t, p

LEMMA EarlyReleasesIs ==
  ASSUME Types, NEW next \in Cart \cup {NoCart}, task["early"].at = "none", EarlyReleases(next)
  PROVE  /\ PageIs(page', page.on, page.own, page.order, page.resume, NoPhase, NoKey, page.attempt)
         /\ TaskIs(task'["early"], "early", "drop", page.phase.order, NoKey, NoKey, Unsaid)
         /\ OnlyTask("early", task'["early"])
<1> DEFINE c == [Rest("early") EXCEPT !.cart = next]
           t == Ask(c, "drop", page.phase.order)
           p == [page EXCEPT !.phase = NoPhase, !.intent = NoKey]
<1>1. page.phase.order \in 0..MaxOrders /\ "drop" \in At
  BY PageFields DEF At, Types
<1>2. Rest("early") \in TaskRec /\ Rest("early").job = "early" /\ Rest("early").attempt = NoKey
  BY BlankIs, JobsAre DEF TaskIs
<1>3. c \in TaskRec /\ c.job = "early" /\ c.attempt = NoKey
  BY <1>2, TaskUpdates DEF TaskIs
<1>4. TaskIs(t, "early", "drop", page.phase.order, NoKey, NoKey, Unsaid)
  <2> HIDE DEF c
  <2> QED
    BY <1>1, <1>3, AskIs
<1>8. PageIs(p, page.on, page.own, page.order, page.resume, NoPhase, NoKey, page.attempt)
  BY Basics, PhaseFields DEF PageIs, PageRec, Types
<1>9. RunAsks(Rest("early"), t, p) /\ p \in PageRec
  BY <1>8 DEF EarlyReleases, PageIs
<1> HIDE DEF t, p
<1>5. t \in TaskRec /\ task' = [task EXCEPT !["early"] = t] /\ page' = p
  BY <1>4, <1>9, OneRun DEF TaskIs
<1>6. OnlyTask("early", t)
  BY <1>5, OneTask, JobsAre
<1> QED
  BY <1>4, <1>5, <1>6, <1>8 DEF OnlyTask

LEMMA FlowReservesIs ==
  ASSUME Types, Named, NEW kept \in 0..MaxKeys, FlowReserves(kept)
  PROVE  /\ PageIs(page', page.on, page.own, page.order, page.resume,
                   IF page.phase.kind = "placing" THEN NoPhase ELSE page.phase,
                   KeyFrom(kept), page.attempt)
         /\ TaskIs(task'["flow"], "flow", "reserve", NoOrder, KeyFrom(kept), NoKey, Unsaid)
         /\ OnlyTask("flow", task'["flow"])
<1> DEFINE k == KeyFrom(kept)
           t == AskWith(task["flow"], "reserve", NoOrder, k)
<1>1. k \in 0..MaxKeys /\ NoOrder \in 0..MaxOrders /\ "reserve" \in At
  BY KeyIsTaken, Basics DEF FlowReserves, At
<1>2. /\ task["flow"] \in TaskRec /\ task["flow"].job = "flow" /\ task["flow"].attempt = NoKey
      /\ task["flow"].cart \in Cart \cup {NoCart}
  BY JobsAre, TaskFields DEF Named
<1>4. TaskIs(t, "flow", "reserve", NoOrder, k, NoKey, Unsaid)
  <2> HIDE DEF k
  <2> QED
    BY <1>1, <1>2, AskIs
<1>5. t \in TaskRec /\ task' = [task EXCEPT !["flow"] = t]
  BY <1>4 DEF TaskIs, FlowReserves
<1>6. OnlyTask("flow", t)
  <2> HIDE DEF t
  <2> QED
    BY <1>5, OneTask, JobsAre
<1>7. NoPhase \in PhaseRec /\ page.phase \in PhaseRec /\ page \in PageRec
  BY PhaseFields, TypesGive
<1>8. PageIs(page', page.on, page.own, page.order, page.resume,
             IF page.phase.kind = "placing" THEN NoPhase ELSE page.phase, k, page.attempt)
  <2>1. page' = [page EXCEPT !.phase = IF page.phase.kind = "placing" THEN NoPhase ELSE page.phase,
                             !.intent = k, !.of = task["flow"].cart]
    BY DEF FlowReserves
  <2> QED
    BY <2>1, <1>1, <1>2, <1>7 DEF PageIs, PageRec
<1> QED
  BY <1>4, <1>6, <1>8 DEF OnlyTask

LEMMA FlowPlacesIs ==
  ASSUME Types, Named, NEW held \in PhaseRec, FlowPlaces(held)
  PROVE  /\ PageIs(page', page.on, page.own, page.order, page.resume,
                   [held EXCEPT !.kind = "placing"], page.intent, KeyFrom(page.attempt))
         /\ TaskIs(task'["flow"], "flow", "place", held.order, KeyFrom(page.attempt), NoKey, Unsaid)
         /\ OnlyTask("flow", task'["flow"])
<1> DEFINE k == KeyFrom(page.attempt)
           c == [task["flow"] EXCEPT !.with = held.with]
           t == AskWith(c, "place", held.order, k)
<1>1. /\ k \in 0..MaxKeys /\ held.order \in 0..MaxOrders /\ "place" \in At
      /\ [held EXCEPT !.kind = "placing"] \in PhaseRec /\ held.with \in Payment \cup {"any"}
  BY KeyIsTaken, TypesGive, Basics, PhaseFields DEF FlowPlaces, At, PhaseRec
<1>2. task["flow"] \in TaskRec /\ task["flow"].job = "flow" /\ task["flow"].attempt = NoKey
  BY JobsAre DEF Named
<1>3. c \in TaskRec /\ c.job = "flow" /\ c.attempt = NoKey
  BY <1>1, <1>2, TaskUpdates DEF TaskIs
<1>4. TaskIs(t, "flow", "place", held.order, k, NoKey, Unsaid)
  <2> HIDE DEF k, c
  <2> QED
    BY <1>1, <1>3, AskIs
<1>5. t \in TaskRec /\ task' = [task EXCEPT !["flow"] = t]
  BY <1>4 DEF TaskIs, FlowPlaces
<1>6. OnlyTask("flow", t)
  <2> HIDE DEF t
  <2> QED
    BY <1>5, OneTask, JobsAre
<1>8. PageIs(page', page.on, page.own, page.order, page.resume,
             [held EXCEPT !.kind = "placing"], page.intent, k)
  <2>1. page' = [page EXCEPT !.phase = [held EXCEPT !.kind = "placing"], !.attempt = k]
    BY DEF FlowPlaces
  <2>2. page \in PageRec
    BY TypesGive
  <2> QED
    BY <2>1, <2>2, <1>1 DEF PageIs, PageRec
<1> QED
  BY <1>4, <1>6, <1>8 DEF OnlyTask

LEMMA FlowReleasesIs ==
  ASSUME Types, Named, NEW at \in At, NEW o \in 0..MaxOrders, FlowReleases(at, o)
  PROVE  /\ PageIs(page', page.on, page.own, page.order, page.resume, NoPhase, NoKey, page.attempt)
         /\ TaskIs(task'["flow"], "flow", at, o, NoKey, NoKey, Unsaid)
         /\ OnlyTask("flow", task'["flow"])
<1> DEFINE t == Ask(task["flow"], at, o)
<1>2. task["flow"] \in TaskRec /\ task["flow"].job = "flow" /\ task["flow"].attempt = NoKey
  BY JobsAre DEF Named
<1>4. TaskIs(t, "flow", at, o, NoKey, NoKey, Unsaid)
  BY <1>2, AskIs
<1>5. t \in TaskRec /\ task' = [task EXCEPT !["flow"] = t]
  BY <1>4 DEF TaskIs, FlowReleases
<1>6. OnlyTask("flow", t)
  <2> HIDE DEF t
  <2> QED
    BY <1>5, OneTask, JobsAre
<1>8. PageIs(page', page.on, page.own, page.order, page.resume, NoPhase, NoKey, page.attempt)
  BY Basics, PhaseFields DEF FlowReleases, PageIs, PageRec, Types
<1> QED
  BY <1>4, <1>6, <1>8 DEF OnlyTask

LEMMA BackToIdleIs ==
  ASSUME Types, NEW phase \in PhaseRec, NEW intent \in 0..MaxKeys, NEW attempt \in 0..MaxKeys,
         BackToIdle(phase, intent, attempt)
  PROVE  /\ PageIs(page', page.on, "idle", page.order, page.resume, phase, intent, attempt)
         /\ TaskIs(task'["flow"], "flow", "none", NoOrder, NoKey, NoKey, Unsaid)
         /\ OnlyTask("flow", task'["flow"])
<1>1. PageIs(page', page.on, "idle", page.order, page.resume, phase, intent, attempt)
  BY DEF BackToIdle, PageIs, PageRec, Types, Own
<1>2. /\ OnlyTask("flow", Rest("flow"))
      /\ TaskIs(Rest("flow"), "flow", "none", NoOrder, NoKey, NoKey, Unsaid)
  BY EndsIs, JobsAre DEF BackToIdle
<1> QED
  BY <1>1, <1>2 DEF OnlyTask

LEMMA AbandonIs ==
  ASSUME Types, Named, NEW j \in Job, NEW o \in 0..MaxOrders, Abandon(j, o)
  PROVE  /\ PageIs(page', page.on, "busy", page.order, "no", page.phase, NoKey, page.attempt)
         /\ TaskIs(task'[j], j, "abandon", o, NoKey, NoKey, Unsaid)
         /\ OnlyTask(j, task'[j])
<1> DEFINE t == Ask(task[j], "abandon", o)
<1>2. task[j] \in TaskRec /\ task[j].job = j /\ task[j].attempt = NoKey
  BY JobsAre DEF Named
<1>4. TaskIs(t, j, "abandon", o, NoKey, NoKey, Unsaid)
  BY <1>2, AskIs DEF At
<1>5. t \in TaskRec /\ task' = [task EXCEPT ![j] = t]
  BY <1>4 DEF TaskIs, Abandon
<1>6. OnlyTask(j, t)
  <2> HIDE DEF t
  <2> QED
    BY <1>5, OneTask
<1>8. PageIs(page', page.on, "busy", page.order, "no", page.phase, NoKey, page.attempt)
  BY Basics DEF Abandon, PageIs, PageRec, Types, Own
<1> QED
  BY <1>4, <1>6, <1>8 DEF OnlyTask

-----------------------------------------------------------------------------
(* What a step leaves of the answers *)

LEMMA AnswersKept ==
  ASSUME NEW t, NEW r, NEW s, Answers(t, r), \A o : Holds(r, t.key, o) => Holds(s, t.key, o)
  PROVE  Answers(t, s)
BY DEF Answers

LEMMA JustAsked ==
  ASSUME NEW t, NEW r, NEW job, NEW at \in At, NEW o, NEW k, NEW a,
         TaskIs(t, job, at, o, k, a, Unsaid),
         at \in {"reserve", "place"} <=> k # NoKey,
         at = "place" => o # NoOrder
  PROVE  Answers(t, r)
BY RepliesAre, SaidFields DEF Answers, TaskIs

(* A key in use stays as it is, a new one is free.                         *)
KeysStay == \A k \in Key : record'[k] = record[k] \/ (k \notin KeysInUse /\ record'[k] = FreeKey)

LEMMA FreeKeyIsStored == Stored(FreeKey) /\ FreeKey.answer.is = "none"
BY DEF Stored, FreeKey, Said, Body

LEMMA UsedKeys ==
  ASSUME NEW t \in Tasks
  PROVE  {t.key, t.attempt} \subseteq KeysInUse
BY DEF KeysInUse

LEMMA TaskIsAmong ==
  /\ \A j \in Job : task[j] \in Tasks
  /\ left \subseteq Tasks /\ loose \subseteq Tasks
BY DEF Tasks

LEMMA TasksAre ==
  ASSUME Types
  PROVE  Tasks = {task[j] : j \in Job} \cup left \cup loose
BY PageFields DEF Types, Tasks

LEMMA TasksAreNext ==
  ASSUME Types'
  PROVE  Tasks' = {task'[j] : j \in Job} \cup left' \cup loose'
<1>1. page'.stale = {}
  BY DEF Types, PageRec
<1> QED
  BY <1>1 DEF Tasks

LEMMA KeysStayAnswers ==
  ASSUME Types, KeysStay, NEW t \in Tasks, t \in TaskRec, Answers(t, record)
  PROVE  Answers(t, record')
<1>1. CASE t.answer.is = "held"
  <2>1. t.key # NoKey
    BY <1>1, RepliesAre, TaskFields DEF Answers, Replies, PlaceKinds
  <2>2. t.key \in Key
    BY <2>1, Basics, TaskFields
  <2>3. record'[t.key] = record[t.key]
    BY <2>2, UsedKeys DEF KeysStay
  <2> QED
    BY <2>3, AnswersKept DEF Holds
<1>2. CASE t.answer.is # "held"
  BY <1>2 DEF Answers
<1> QED
  BY <1>1, <1>2

LEMMA TalkAfter ==
  ASSUME Types, Talk, KeysStay,
         \A j \in Job : task'[j] = task[j] \/ Answers(task'[j], record'),
         \A t \in left' : t \in left \/ (Answers(t, record') /\ OfPage(t)),
         \A t \in loose' : t \in loose \/ (Answers(t, record') /\ OnItsWay(t))
  PROVE  Talk'
<1>1. \A t \in Tasks : t \in TaskRec /\ Answers(t, record)
  BY TasksAre, TypesGive, JobsAre DEF Talk
<1>2. \A t \in Tasks : Answers(t, record')
  BY <1>1, KeysStayAnswers
<1>3. \A k \in Key : Stored(record'[k])
  BY FreeKeyIsStored DEF KeysStay, Talk
<1>4. \A j \in Job : Answers(task'[j], record')
  BY <1>2, TaskIsAmong
<1>5. \A t \in left' : Answers(t, record') /\ OfPage(t)
  BY <1>2, TaskIsAmong DEF Talk
<1>6. \A t \in loose' : Answers(t, record') /\ OnItsWay(t)
  BY <1>2, TaskIsAmong DEF Talk
<1> QED
  BY <1>3, <1>4, <1>5, <1>6 DEF Talk

(* Steps that need no new key.                                             *)
LEMMA TalkSame ==
  ASSUME Types, Talk, record' = record,
         \A j \in Job : task'[j] = task[j] \/ Answers(task'[j], record),
         \A t \in left' : t \in left \/ (Answers(t, record) /\ OfPage(t)),
         \A t \in loose' : t \in loose \/ (Answers(t, record) /\ OnItsWay(t))
  PROVE  Talk'
BY TalkAfter DEF KeysStay

-----------------------------------------------------------------------------
(* The early reservation keeps what the layout, the answers and the drafts *)
(* the page was told of need                                               *)

LEMMA KeysStayBy ==
  ASSUME Types, NEW kept \in 0..MaxKeys, Takes(kept)
  PROVE  KeysStay
BY KeyIsTaken DEF KeysStay

LEMMA EarlyReservesKeeps ==
  ASSUME LInv, NEW kept \in 0..MaxKeys, NEW r \in TaskRec, r.job = "early", r.attempt = NoKey,
         r = task["early"] \/ task["early"].at = "none", EarlyReserves(r, kept),
         UNCHANGED <<status, lapsed, charge, browser, left, loose, plain, counts>>,
         page.on, page.resume = "no", page.phase.kind \in {"none", "held", "failed"},
         page.own = "idle" \/ task["flow"].at = "take",
         page.phase.kind = "held" => page.phase.order \in lapsed
  PROVE  LInv'
<1> USE DEF LInv
<1>1. Named /\ Takes(kept) /\ UNCHANGED history
  BY DEF Layout, EarlyReserves
<1>2. /\ PageIs(page', page.on, page.own, page.order, page.resume,
                Phase("reserving", NoOrder, cart), KeyFrom(kept), page.attempt)
      /\ TaskIs(task'["early"], "early", "reserve", NoOrder, KeyFrom(kept), NoKey, Unsaid)
      /\ OnlyTask("early", task'["early"])
  BY <1>1, EarlyReservesIs
<1>3. KeysStay /\ record' \in [Key -> RecordRec] /\ KeyFrom(kept) # NoKey
  BY <1>1, KeysStayBy, KeyIsTaken, Basics
<1>4. Types'
  BY <1>1, <1>2, <1>3 DEF Types, PageIs, OnlyTask, browser, history, counts
<1>5. Layout'
  <2>1. page'.phase.kind = "reserving"
    BY <1>2, PhaseFields DEF PageIs
  <2> QED
    BY <1>2, <2>1, JobsAre DEF Layout, Off, Named, EarlyInv, FlowInv, CodeInv, PhaseInv, ResumeInv,
       Abandoning, PageIs, TaskIs, OnlyTask
<1>6. Talk'
  <2>1. Answers(task'["early"], record')
    BY <1>2, <1>3, JustAsked DEF At
  <2> QED
    BY <1>2, <1>3, <2>1, TalkAfter DEF OnlyTask
<1>7. Owed'
  BY <1>1 DEF Owed, history
<1> QED
  BY <1>4, <1>5, <1>6, <1>7

LEMMA EarlyReleasesKeeps ==
  ASSUME LInv, NEW next \in Cart \cup {NoCart}, task["early"].at = "none", EarlyReleases(next),
         UNCHANGED <<status, lapsed, charge, browser, left, loose, plain, counts>>,
         page.on, page.resume = "no", page.phase.kind = "held", page.own = "idle"
  PROVE  LInv'
<1> USE DEF LInv
<1>1. /\ Named /\ record' = record /\ UNCHANGED <<asked, denied>>
      /\ owed' = owed \ {page.phase.order}
  BY DEF Layout, EarlyReleases
<1>2. /\ PageIs(page', page.on, page.own, page.order, page.resume, NoPhase, NoKey, page.attempt)
      /\ TaskIs(task'["early"], "early", "drop", page.phase.order, NoKey, NoKey, Unsaid)
      /\ OnlyTask("early", task'["early"])
  BY <1>1, EarlyReleasesIs
<1>4. Types'
  BY <1>1, <1>2 DEF Types, PageIs, OnlyTask, browser, history, counts
<1>5. Layout'
  <2>1. page'.phase.kind = "none"
    BY <1>2, PhaseFields DEF PageIs
  <2> QED
    BY <1>2, <2>1, JobsAre DEF Layout, Off, Named, EarlyInv, FlowInv, CodeInv, PhaseInv, ResumeInv,
       Abandoning, PageIs, TaskIs, OnlyTask
<1>6. Talk'
  <2>1. Answers(task'["early"], record)
    BY <1>2, JustAsked DEF At
  <2> QED
    BY <1>1, <1>2, <2>1, TalkSame DEF OnlyTask
<1>7. Owed'
  BY <1>1 DEF Owed
<1> QED
  BY <1>4, <1>5, <1>6, <1>7

(* The timer starts one while no run is under way, unless the step crosses. *)
LEMMA StartEarlyIs ==
  ASSUME Types, StartEarly, crossed' = 0
  PROVE  /\ page.on /\ page.own = "idle" /\ page.resume = "no" /\ task["early"].at = "none"
         /\ UNCHANGED <<status, lapsed, charge, browser, left, loose, plain, counts>>
         /\ Rest("early") \in TaskRec /\ Rest("early").job = "early"
         /\ Rest("early").attempt = NoKey
<1>1. crossed \in Nat
  BY DEF Types
<1>2. task["early"].at = "none" /\ crossed' = crossed
  BY <1>1 DEF StartEarly
<1>3. TaskIs(Rest("early"), "early", "none", NoOrder, NoKey, NoKey, Unsaid)
  BY BlankIs, JobsAre
<1> QED
  BY <1>2, <1>3 DEF StartEarly, Idle, counts, TaskIs

LEMMA StartEarlyKeeps ==
  ASSUME LInv, StartEarly, crossed' = 0
  PROVE  LInv'
<1> USE DEF LInv
<1>1. /\ page.on /\ page.own = "idle" /\ page.resume = "no" /\ task["early"].at = "none"
      /\ UNCHANGED <<status, lapsed, charge, browser, left, loose, plain, counts>>
      /\ Rest("early") \in TaskRec /\ Rest("early").job = "early" /\ Rest("early").attempt = NoKey
  BY StartEarlyIs
<1>2. PICK old \in Over(page.phase.order) :
        \/ EarlyStep(old) = "release" /\ EarlyReleases(NoCart)
        \/ EarlyStep(old) = "replace" /\ EarlyReleases(cart)
        \/ EarlyStep(old) = "renew" /\ EarlyReserves(Rest("early"), NoKey)
        \/ EarlyStep(old) = "reserve" /\ EarlyReserves(Rest("early"), IntentFor(cart))
  BY DEF StartEarly
<1>3. CASE EarlyStep(old) \in {"release", "replace"}
  <2>1. page.phase.kind = "held"
    BY <1>3 DEF EarlyStep
  <2>2. \E next \in Cart \cup {NoCart} : EarlyReleases(next)
    BY <1>2, <1>3, TypesGive
  <2> QED
    BY <1>1, <2>1, <2>2, EarlyReleasesKeeps
<1>4. CASE EarlyStep(old) = "renew"
  <2>1. page.phase.kind = "held" /\ page.phase.order \in lapsed
    BY <1>2, <1>4 DEF EarlyStep, Over
  <2> QED
    BY <1>1, <1>2, <1>4, <2>1, Basics, EarlyReservesKeeps
<1>5. CASE EarlyStep(old) = "reserve"
  <2>1. page.phase.kind \in {"none", "failed"}
    <3>1. page.phase.kind \in PhaseKind
      BY TypesGive DEF PhaseRec
    <3>2. page.phase.kind # "ordered" 
      BY <1>1 DEF Layout, PhaseInv, FlowInv, CodeInv, Abandoning
    <3>3. page.phase.kind # "held" 
      BY <1>5, TypesGive DEF EarlyStep
    <3> QED
      BY <1>5, <3>1, <3>2, <3>3 DEF EarlyStep, PhaseKind
  <2> QED
    BY <1>1, <1>2, <1>5, <2>1, IntentIs, EarlyReservesKeeps
<1> QED
  BY <1>2, <1>3, <1>4, <1>5

(* While one run is under way at a time, the answer is for the named one.  *)
LEMMA HearEarlyIs ==
  ASSUME LInv, NEW run \in EarlyRuns, HearEarly(run)
  PROVE  LET t == task["early"]  what == Reply(t)
         IN  /\ t.job = "early" /\ t.attempt = NoKey /\ t \in TaskRec /\ Answered(t)
             /\ \/ t.at = "drop" /\ t.cart # NoCart /\ EarlyReserves(t, IntentFor(cart))
                \/ t.at = "drop" /\ Ends("early") /\ UNCHANGED <<record, page, history>>
                \/ /\ t.at = "reserve" /\ what.is = "held" /\ Ends("early")
                   /\ page' = [page EXCEPT !.phase = Phase("held", what.order, t.cart)]
                   /\ owed' = owed \cup {what.order}
                   /\ UNCHANGED <<record, asked, denied>>
                \/ /\ t.at = "reserve" /\ what.is # "held" /\ Ends("early")
                   /\ page' = [page EXCEPT !.phase = Phase("failed", NoOrder, t.cart),
                                           !.intent = SettledIntent(what.is)]
                   /\ UNCHANGED <<record, history>>
             /\ UNCHANGED <<status, lapsed, charge, browser, left, loose, plain, counts>>
<1> DEFINE t == task["early"]
           what == Reply(t)
           p == [page EXCEPT !.phase = Phase("held", what.order, t.cart)]
           q == [page EXCEPT !.phase = Phase("failed", NoOrder, t.cart),
                             !.intent = SettledIntent(what.is)]
<1>0. Types
  BY DEF LInv
<1>1. /\ t \in TaskRec /\ t.job = "early" /\ t.attempt = NoKey /\ t.cart \in Cart \cup {NoCart}
      /\ t.answer \in Answer /\ Answers(t, record)
  BY <1>0, JobsAre, TaskFields DEF LInv, Layout, Named, Talk
<1>2. run = t
  BY <1>0, OneRun, TypesGive
<1>3. Answered(t) /\ UNCHANGED <<status, lapsed, charge, browser, left, loose, plain, counts>>
  BY <1>2 DEF HearEarly
<1>4. page \in PageRec
  BY <1>0, TypesGive
<1>5. q \in PageRec
  <2>1. Phase("failed", NoOrder, t.cart) \in PhaseRec
    BY <1>1, Basics, PhaseFields DEF PhaseKind
  <2>2. SettledIntent(what.is) \in 0..MaxKeys
    BY <1>0, SettledIs
  <2> QED
    BY <1>4, <2>1, <2>2 DEF PageRec
<1>6. t.at = "reserve" => p \in PageRec
  <2>1. what.order \in 0..MaxOrders => p \in PageRec
    <3>1. what.order \in 0..MaxOrders => Phase("held", what.order, t.cart) \in PhaseRec
      BY <1>1, PhaseFields DEF PhaseKind
    <3> QED
      BY <1>4, <3>1 DEF PageRec
  <2>2. t.at = "reserve" => what.order \in 0..MaxOrders
    BY <1>1, RepliesNeverWait, SaidFields
  <2> QED
    BY <2>1, <2>2
<1>8. /\ RunEnds(t, page) => page' = page /\ Ends("early")
      /\ RunEnds(t, q) => page' = q /\ Ends("early")
      /\ t.at = "reserve" /\ RunEnds(t, p) => page' = p /\ Ends("early")
  <2> HIDE DEF p, q
  <2> QED
    BY <1>0, <1>4, <1>5, <1>6, OneRun
<1> QED
  BY <1>1, <1>2, <1>3, <1>8, Zenon DEF HearEarly

LEMMA HearEarlyKeeps ==
  ASSUME LInv, NEW run \in EarlyRuns, HearEarly(run)
  PROVE  LInv'
<1> USE DEF LInv
<1> DEFINE t == task["early"]
           what == Reply(t)
<1>1. /\ Named /\ t \in TaskRec /\ Answers(t, record)
      /\ UNCHANGED <<status, lapsed, charge, browser, left, loose, plain, counts>>
      /\ t.job = "early" /\ t.attempt = NoKey
  BY JobsAre, HearEarlyIs DEF Layout, Talk
<1>2. t.at \in {"drop", "reserve"} =>
        /\ what = t.answer /\ what \in Answer
        /\ page.on /\ page.resume = "no"
        /\ page.own = "idle" \/ task["flow"].at = "take"
  <2>1. t.at \in {"drop", "reserve"} => page.on
    BY JobsAre, BlankIs DEF Layout, Off, TaskIs
  <2> QED
    BY <1>1, <2>1, RepliesNeverWait, TaskFields DEF Layout, EarlyInv
<1>3. CASE t.at = "drop" /\ EarlyReserves(t, IntentFor(cart))
  <2>1. page.phase.kind = "none"
    BY <1>3 DEF Layout, EarlyInv
  <2> QED
    BY <1>1, <1>2, <1>3, <2>1, IntentIs, EarlyReservesKeeps
<1>4. CASE /\ t.at = "drop" /\ Ends("early") /\ UNCHANGED <<record, page, history>>
  <2>1. /\ OnlyTask("early", Rest("early"))
        /\ TaskIs(Rest("early"), "early", "none", NoOrder, NoKey, NoKey, Unsaid)
    BY <1>4, EndsIs, JobsAre
  <2>2. Types'
    BY <1>1, <1>4, <2>1 DEF Types, OnlyTask, browser, history, counts
  <2>3. Layout'
    BY <1>4, <1>2, <2>1, JobsAre DEF Layout, Off, Named, EarlyInv, FlowInv, CodeInv, PhaseInv, ResumeInv,
       Abandoning, TaskIs, OnlyTask
  <2>4. Talk'
    BY <1>1, <1>4, <2>1, TalkSame, JustAsked DEF OnlyTask, At
  <2>5. Owed'
    BY <1>1, <1>4 DEF Owed, history
  <2> QED
    BY <2>2, <2>3, <2>4, <2>5
<1>5. CASE /\ t.at = "reserve" /\ what.is = "held" /\ Ends("early")
           /\ page' = [page EXCEPT !.phase = Phase("held", what.order, t.cart)]
           /\ owed' = owed \cup {what.order}
           /\ UNCHANGED <<record, asked, denied>>
  <2>1. /\ OnlyTask("early", Rest("early"))
        /\ TaskIs(Rest("early"), "early", "none", NoOrder, NoKey, NoKey, Unsaid)
    BY <1>5, EndsIs, JobsAre
  <2>2. /\ Phase("held", what.order, t.cart) \in PhaseRec
        /\ Phase("held", what.order, t.cart).kind = "held"
        /\ Phase("held", what.order, t.cart).order = what.order
    BY <1>1, <1>2, <1>5, PhaseFields, SaidFields, TaskFields DEF PhaseKind
  <2>3. PageIs(page', page.on, page.own, page.order, page.resume,
               Phase("held", what.order, t.cart), page.intent, page.attempt)
    BY <1>5, <2>2, TypesGive DEF PageIs, PageRec
  <2>4. what.order # NoOrder /\ what.order \in Order
    <3>1. t.key \in Key
      BY <1>1, <1>5, Basics, TaskFields DEF Answers
    <3>2. record[t.key].answer = Said("held", what.order)
      BY <1>1, <1>2, <1>5 DEF Answers, Holds
    <3>3. what.order # NoOrder
      BY <3>1, <3>2, SaidFields DEF Talk, Stored
    <3> QED
      BY <1>2, <1>5, <3>3, Basics, SaidFields
  <2>5. Types'
    BY <1>1, <1>5, <2>1, <2>3, <2>4 DEF Types, PageIs, OnlyTask, browser, history, counts
  <2>6. Layout'
    <3>1. task["flow"].at \in {"none", "take"} /\ task["code"].at = "none"
          /\ page.phase.kind = "reserving" /\ page.own \notin {"code", "check"}
          /\ task["resume"].at = "none"
      BY <1>5, <1>2, PageFields DEF Layout, EarlyInv, FlowInv, CodeInv, PhaseInv, ResumeInv, Own,
         Abandoning
    <3> QED
      BY <1>2, <1>5, <2>1, <2>2, <2>3, <2>4, <3>1, JobsAre
         DEF Layout, Off, Named, EarlyInv, FlowInv, CodeInv, PhaseInv, ResumeInv,
         Abandoning, TaskIs, PageIs, OnlyTask
  <2>7. Talk'
    BY <1>1, <1>5, <2>1, TalkSame, JustAsked DEF OnlyTask, At
  <2>8. Owed'
    <3>1. page.phase.kind = "reserving"
      BY <1>5 DEF Layout, EarlyInv
    <3> QED
      BY <1>1, <1>5, <2>2, <2>3, <3>1 DEF Owed, PageIs
  <2> QED
    BY <2>5, <2>6, <2>7, <2>8
<1>6. CASE /\ t.at = "reserve" /\ what.is # "held" /\ Ends("early")
           /\ page' = [page EXCEPT !.phase = Phase("failed", NoOrder, t.cart),
                                   !.intent = SettledIntent(what.is)]
           /\ UNCHANGED <<record, history>>
  <2>1. /\ OnlyTask("early", Rest("early"))
        /\ TaskIs(Rest("early"), "early", "none", NoOrder, NoKey, NoKey, Unsaid)
    BY <1>6, EndsIs, JobsAre
  <2>2. /\ Phase("failed", NoOrder, t.cart) \in PhaseRec
        /\ Phase("failed", NoOrder, t.cart).kind = "failed"
    BY <1>1, Basics, PhaseFields, TaskFields DEF PhaseKind
  <2>3. PageIs(page', page.on, page.own, page.order, page.resume,
               Phase("failed", NoOrder, t.cart), SettledIntent(what.is), page.attempt)
    BY <1>6, <2>2, TypesGive, SettledIs DEF PageIs, PageRec
  <2>5. Types'
    BY <1>1, <1>6, <2>1, <2>3 DEF Types, PageIs, OnlyTask, browser, history, counts
  <2>6. Layout'
    <3>1. /\ task["flow"].at \in {"none", "take"} /\ task["code"].at = "none"
          /\ page.phase.kind = "reserving" /\ page.own \notin {"code", "check"}
          /\ task["resume"].at = "none"
      BY <1>6, <1>2, PageFields DEF Layout, EarlyInv, FlowInv, CodeInv, PhaseInv, ResumeInv, Own,
         Abandoning
    <3> QED
      BY <1>2, <1>6, <2>1, <2>2, <2>3, <3>1, JobsAre
         DEF Layout, Off, Named, EarlyInv, FlowInv, CodeInv, PhaseInv, ResumeInv,
         Abandoning, TaskIs, PageIs, OnlyTask
  <2>7. Talk'
    BY <1>1, <1>6, <2>1, TalkSame, JustAsked DEF OnlyTask, At
  <2>8. Owed'
    <3>1. page.phase.kind = "reserving"
      BY <1>6 DEF Layout, EarlyInv
    <3> QED
      BY <1>1, <1>6, <3>1 DEF Owed, history
  <2> QED
    BY <2>5, <2>6, <2>7, <2>8
<1> QED
  BY <1>3, <1>4, <1>5, <1>6, HearEarlyIs

LEMMA RetryEarlyKeeps ==
  ASSUME LInv, RetryEarly
  PROVE  LInv'
<1> USE DEF LInv
<1>1. /\ page.own = "idle" /\ page.phase.kind = "failed" /\ page' = [page EXCEPT !.phase = NoPhase]
      /\ page.on /\ page.resume = "no"
      /\ UNCHANGED <<server, browser, task, left, loose, history, plain, counts>>
  BY DEF RetryEarly, Idle
<1>2. PageIs(page', page.on, page.own, page.order, page.resume, NoPhase, page.intent, page.attempt)
  BY <1>1, PhaseFields, TypesGive DEF PageIs, PageRec
<1>3. Types'
  BY <1>1, <1>2 DEF Types, PageIs, server, browser, history, counts
<1>4. Layout'
  <2>1. page'.phase.kind = "none"
    BY <1>2, PhaseFields DEF PageIs
  <2> QED
    BY <1>1, <1>2, <2>1 DEF Layout, Off, Named, EarlyInv, FlowInv, CodeInv, PhaseInv, ResumeInv,
       Abandoning, PageIs
<1>5. Talk'
  BY <1>1, TalkSame DEF server
<1>6. Owed'
  BY <1>1 DEF Owed, server, history
<1> QED
  BY <1>3, <1>4, <1>5, <1>6

-----------------------------------------------------------------------------
(* So does the placement *)

LEMMA FlowUnderWay ==
  ASSUME LInv, task["flow"].at # "none"
  PROVE  /\ page.on /\ page.own = "busy" /\ page.resume = "no"
         /\ task["code"].at = "none" /\ task["resume"].at = "none"
         /\ task["flow"].at # "take" => task["early"].at = "none"
<1>1. page.on
  BY JobsAre, BlankIs DEF LInv, Layout, Off, TaskIs
<1>2. page.resume \in {"no", "reading", "failed"}
  BY PageFields DEF LInv, Types
<1> QED
  BY <1>1, <1>2 DEF LInv, Layout, FlowInv, ResumeInv, EarlyInv

LEMMA PressKeeps ==
  ASSUME LInv, Press
  PROVE  LInv'
<1> USE DEF LInv
<1> DEFINE t == [task["flow"] EXCEPT !.at = "take", !.cart = cart, !.pay = page.pay]
<1>1. /\ page.on /\ page.own = "idle" /\ page.resume = "no" /\ task["flow"].at = "none"
      /\ page' = [page EXCEPT !.own = "busy"] /\ task' = [task EXCEPT !["flow"] = t]
      /\ UNCHANGED <<server, browser, left, loose, history, plain, counts>>
  BY DEF Press, Idle
<1>2. PageIs(page', page.on, "busy", page.order, page.resume, page.phase, page.intent, page.attempt)
  BY <1>1, TypesGive DEF PageIs, PageRec, Own
<1>3. TaskIs(t, "flow", "take", task["flow"].order, task["flow"].key, NoKey, task["flow"].answer)
  <2>1. /\ task["flow"] \in TaskRec /\ task["flow"].job = "flow" /\ task["flow"].attempt = NoKey
        /\ cart \in Cart \cup {NoCart} /\ page.pay \in Payment
    BY JobsAre, TypesGive DEF Layout, Named
  <2>2. TaskIs(t, task["flow"].job, "take", task["flow"].order, task["flow"].key,
               task["flow"].attempt, task["flow"].answer)
    BY <2>1, TaskUpdates, Zenon
  <2> QED
    BY <2>1, <2>2, Zenon
<1>4. OnlyTask("flow", t)
  <2>1. t \in TaskRec
    BY <1>3 DEF TaskIs
  <2> HIDE DEF t
  <2> QED
    BY <1>1, <2>1, OneTask, JobsAre
<1> HIDE DEF t
<1>5. Types'
  BY <1>1, <1>2, <1>4 DEF Types, PageIs, OnlyTask, server, browser, history, counts
<1>6. Layout'
  BY <1>1, <1>2, <1>3, <1>4, JobsAre DEF Layout, Off, Named, EarlyInv, FlowInv, CodeInv, PhaseInv,
     ResumeInv, Abandoning, TaskIs, PageIs, OnlyTask
<1>7. Talk'
  <2>1. Answers(task["flow"], record)
    BY JobsAre DEF Talk
  <2>2. Answers(t, record)
    BY <1>1, <1>3, <2>1, RepliesAre DEF Answers, TaskIs
  <2> QED
    BY <1>1, <1>4, <2>2, TalkSame DEF OnlyTask, server
<1>8. Owed'
  BY <1>1, <1>2 DEF Owed, server, history, PageIs
<1> QED
  BY <1>5, <1>6, <1>7, <1>8

LEMMA FlowReservesKeeps ==
  ASSUME LInv, NEW kept \in 0..MaxKeys, FlowReserves(kept),
         UNCHANGED <<status, lapsed, charge, browser, left, loose, plain, counts>>,
         task["flow"].at \in {"take", "drop"}, task["early"].at = "none",
         page.phase.kind \in {"none", "failed", "placing"}
  PROVE  LInv'
<1> USE DEF LInv
<1>1. /\ Named /\ Takes(kept) /\ UNCHANGED history
      /\ page.on /\ page.own = "busy" /\ page.resume = "no"
      /\ task["code"].at = "none" /\ task["resume"].at = "none"
  BY FlowUnderWay DEF Layout, FlowReserves
<1>2. /\ PageIs(page', page.on, page.own, page.order, page.resume,
                IF page.phase.kind = "placing" THEN NoPhase ELSE page.phase,
                KeyFrom(kept), page.attempt)
      /\ TaskIs(task'["flow"], "flow", "reserve", NoOrder, KeyFrom(kept), NoKey, Unsaid)
      /\ OnlyTask("flow", task'["flow"])
  BY <1>1, FlowReservesIs
<1>3. KeysStay /\ record' \in [Key -> RecordRec] /\ KeyFrom(kept) # NoKey
  BY <1>1, KeysStayBy, KeyIsTaken, Basics
<1>4. Types'
  BY <1>1, <1>2, <1>3 DEF Types, PageIs, OnlyTask, browser, history, counts
<1>5. Layout'
  <2>1. page'.phase.kind \in {"none", "failed"}
    BY <1>2, PhaseFields DEF PageIs
  <2> QED
    BY <1>1, <1>2, <2>1, JobsAre DEF Layout, Off, Named, EarlyInv, FlowInv, CodeInv, PhaseInv,
       ResumeInv, Abandoning, PageIs, TaskIs, OnlyTask
<1>6. Talk'
  <2>1. Answers(task'["flow"], record')
    BY <1>2, <1>3, JustAsked DEF At
  <2> QED
    BY <1>2, <1>3, <2>1, TalkAfter DEF OnlyTask
<1>7. Owed'
  BY <1>1 DEF Owed, history
<1> QED
  BY <1>4, <1>5, <1>6, <1>7

LEMMA FlowPlacesKeeps ==
  ASSUME LInv, NEW held \in PhaseRec, FlowPlaces(held), held.order # NoOrder,
         UNCHANGED <<status, lapsed, charge, browser, left, loose, plain, counts>>,
         task["flow"].at \in {"take", "reserve"}, task["early"].at = "none",
         page.phase.kind = "held" => page.phase.order = held.order
  PROVE  LInv'
<1> USE DEF LInv
<1>1. /\ Named /\ Takes(page.attempt) /\ page.attempt \in 0..MaxKeys
      /\ asked' = asked \cup {held.order} /\ denied' = denied \ {held.order}
      /\ owed' = owed \ {held.order}
      /\ page.on /\ page.own = "busy" /\ page.resume = "no"
      /\ task["code"].at = "none" /\ task["resume"].at = "none"
  BY FlowUnderWay, TypesGive DEF Layout, FlowPlaces
<1>2. /\ PageIs(page', page.on, page.own, page.order, page.resume,
                [held EXCEPT !.kind = "placing"], page.intent, KeyFrom(page.attempt))
      /\ TaskIs(task'["flow"], "flow", "place", held.order, KeyFrom(page.attempt), NoKey, Unsaid)
      /\ OnlyTask("flow", task'["flow"])
  BY <1>1, FlowPlacesIs
<1>3. KeysStay /\ record' \in [Key -> RecordRec] /\ KeyFrom(page.attempt) # NoKey
  BY <1>1, KeysStayBy, KeyIsTaken, Basics
<1>4. Types'
  <2>1. held.order \in Order
    BY Basics DEF PhaseRec
  <2> QED
    BY <1>1, <1>2, <1>3, <2>1 DEF Types, PageIs, OnlyTask, browser, counts
<1>5. Layout'
  <2>1. page'.phase.kind = "placing" /\ page'.phase.order = held.order
    BY <1>2, PhaseFields DEF PageIs
  <2> QED
    BY <1>1, <1>2, <2>1, JobsAre DEF Layout, Off, Named, EarlyInv, FlowInv, CodeInv, PhaseInv,
       ResumeInv, Abandoning, PageIs, TaskIs, OnlyTask
<1>6. Talk'
  <2>1. Answers(task'["flow"], record')
    BY <1>2, <1>3, JustAsked DEF At
  <2> QED
    BY <1>2, <1>3, <2>1, TalkAfter DEF OnlyTask
<1>7. Owed'
  BY <1>1 DEF Owed
<1> QED
  BY <1>4, <1>5, <1>6, <1>7

LEMMA TakeKeeps ==
  ASSUME LInv, Take
  PROVE  LInv'
<1> USE DEF LInv
<1> DEFINE t == task["flow"]
           held == page.phase
<1>1. /\ t.at = "take" /\ task["early"].at = "none"
      /\ UNCHANGED <<status, lapsed, charge, browser, left, loose, plain, counts>>
      /\ held \in PhaseRec /\ held.kind \in PhaseKind
      /\ held.kind \notin {"ordered", "reserving"}
      /\ held.kind \in {"held", "placing"} => held.order # NoOrder
      /\ page.own = "busy" /\ page.on /\ page.resume = "no"
      /\ task["code"].at = "none" /\ task["resume"].at = "none" /\ Named
  BY FlowUnderWay, TypesGive DEF Take, Layout, EarlyInv, FlowInv, CodeInv, PhaseInv, Abandoning,
     PhaseRec
<1>2. PICK old \in Over(held.order) :
        \/ held.kind \in {"held", "placing"} /\ FlowPlaces(held)
        \/ held.kind = "held" /\ FlowReleases("drop", held.order)
        \/ held.kind # "held" /\ FlowReserves(IntentFor(t.cart))
  BY DEF Take
<1>3. CASE held.kind \in {"held", "placing"} /\ FlowPlaces(held)
  BY <1>1, <1>3, FlowPlacesKeeps
<1>4. CASE held.kind # "held" /\ FlowReserves(IntentFor(t.cart))
  <2>1. held.kind \in {"none", "failed", "placing"}
    BY <1>1, <1>4 DEF PhaseKind
  <2> QED
    BY <1>1, <1>4, <2>1, IntentIs, FlowReservesKeeps
<1>5. CASE held.kind = "held" /\ FlowReleases("drop", held.order)
  <2>1. /\ record' = record /\ asked' = asked /\ denied' = denied
        /\ owed' = owed \ {held.order}
    BY <1>5 DEF FlowReleases
  <2>2. /\ PageIs(page', page.on, page.own, page.order, page.resume, NoPhase, NoKey, page.attempt)
        /\ TaskIs(task'["flow"], "flow", "drop", held.order, NoKey, NoKey, Unsaid)
        /\ OnlyTask("flow", task'["flow"])
    BY <1>1, <1>5, TypesGive, FlowReleasesIs DEF At
  <2>3. Types'
    BY <1>1, <2>1, <2>2 DEF Types, PageIs, OnlyTask, browser, counts
  <2>4. Layout'
    <3>1. page'.phase.kind = "none"
      BY <2>2, PhaseFields DEF PageIs
    <3> QED
      BY <1>1, <2>2, <3>1, JobsAre DEF Layout, Off, Named, EarlyInv, FlowInv, CodeInv, PhaseInv,
         ResumeInv, Abandoning, PageIs, TaskIs, OnlyTask
  <2>5. Talk'
    BY <2>1, <2>2, <1>1, TalkSame, JustAsked DEF OnlyTask, At
  <2>6. Owed'
    BY <1>1, <1>5, <2>1 DEF Owed
  <2> QED
    BY <2>3, <2>4, <2>5, <2>6
<1> QED
  BY <1>2, <1>3, <1>4, <1>5

LEMMA HeldOrder ==
  ASSUME Types, Talk, NEW t \in TaskRec, Answers(t, record), t.at = "reserve", Reply(t).is = "held"
  PROVE  /\ Reply(t) = t.answer /\ Reply(t) \in Answer
         /\ Reply(t).order \in Order /\ Reply(t).order # NoOrder
         /\ t.key \in Key /\ Holds(record, t.key, Reply(t).order)
<1>1. Reply(t) = t.answer /\ Reply(t) \in Answer
  BY RepliesNeverWait, TaskFields
<1>2. t.key \in Key
  BY Basics, TaskFields DEF Answers
<1>3. Holds(record, t.key, Reply(t).order)
  BY <1>1 DEF Answers
<1>4. Reply(t).order # NoOrder
  BY <1>2, <1>3, SaidFields DEF Talk, Stored, Holds
<1>5. Reply(t).order \in Order
  BY <1>1, <1>4, Basics, SaidFields
<1> QED
  BY <1>1, <1>2, <1>3, <1>4, <1>5

LEMMA BackToIdleKeeps ==
  ASSUME LInv, NEW phase \in PhaseRec, NEW intent \in 0..MaxKeys, NEW attempt \in 0..MaxKeys,
         BackToIdle(phase, intent, attempt),
         phase.kind \in {"none", "placing"}, phase.kind = "placing" => phase.order # NoOrder,
         UNCHANGED <<status, lapsed, charge, browser, left, loose, owed, plain, counts>>,
         asked' \cup denied' \subseteq Order,
         task["flow"].at \in {"reserve", "place", "undo"}
  PROVE  LInv'
<1> USE DEF LInv
<1>1. /\ page.on /\ page.own = "busy" /\ page.resume = "no" /\ Named
      /\ task["code"].at = "none" /\ task["resume"].at = "none" /\ task["early"].at = "none"
      /\ page.phase.kind # "held" /\ record' = record
  BY FlowUnderWay DEF Layout, FlowInv, BackToIdle
<1>2. /\ PageIs(page', page.on, "idle", page.order, page.resume, phase, intent, attempt)
      /\ TaskIs(task'["flow"], "flow", "none", NoOrder, NoKey, NoKey, Unsaid)
      /\ OnlyTask("flow", task'["flow"])
  BY BackToIdleIs
<1>3. Types'
  BY <1>1, <1>2 DEF Types, PageIs, OnlyTask, browser, counts
<1>4. Layout'
  BY <1>1, <1>2, JobsAre DEF Layout, Off, Named, EarlyInv, FlowInv, CodeInv, PhaseInv,
     ResumeInv, Abandoning, PageIs, TaskIs, OnlyTask
<1>5. Talk'
  BY <1>1, <1>2, TalkSame, JustAsked DEF OnlyTask, At
<1>6. Owed'
  BY <1>1 DEF Owed
<1> QED
  BY <1>3, <1>4, <1>5, <1>6

LEMMA HearReserveKeeps ==
  ASSUME LInv, HearReserve
  PROVE  LInv'
<1> USE DEF LInv
<1> DEFINE t == task["flow"]
           what == Reply(t)
<1>1. /\ t \in TaskRec /\ Answers(t, record) /\ t.cart \in Cart \cup {NoCart}
      /\ UNCHANGED <<status, lapsed, charge, browser, left, loose, plain, counts>>
  BY JobsAre, TaskFields DEF HearReserve, Talk
<1>2. t.at \in {"drop", "reserve"} =>
         task["early"].at = "none" /\ page.phase.kind \in {"none", "failed"}
  BY FlowUnderWay DEF Layout, FlowInv
<1>3. CASE t.at = "drop" /\ FlowReserves(IntentFor(t.cart))
  BY <1>1, <1>2, <1>3, IntentIs, FlowReservesKeeps
<1>4. CASE t.at = "reserve" /\ what.is = "held" /\ FlowPlaces(Phase("held", what.order, t.cart))
  <2>1. what.order # NoOrder /\ what.order \in 0..MaxOrders
    BY <1>1, <1>4, HeldOrder, Basics
  <2>2. /\ Phase("held", what.order, t.cart) \in PhaseRec
        /\ Phase("held", what.order, t.cart).order = what.order
    BY <2>1, <1>1, PhaseFields DEF PhaseKind
  <2> QED
    BY <1>1, <1>2, <1>4, <2>1, <2>2, FlowPlacesKeeps
<1>5. CASE /\ t.at = "reserve" /\ what.is # "held"
           /\ BackToIdle(NoPhase, SettledIntent(what.is), page.attempt)
           /\ UNCHANGED history
  <2>1. asked' \cup denied' \subseteq Order /\ owed' = owed
    BY <1>5 DEF Types, history
  <2> QED
    BY <1>1, <1>5, <2>1, PhaseFields, SettledIs, TypesGive, BackToIdleKeeps
<1> QED
  BY <1>3, <1>4, <1>5 DEF HearReserve

LEMMA HearRefusalKeeps ==
  ASSUME LInv, HearRefusal
  PROVE  LInv'
<1> USE DEF LInv
<1> DEFINE t == task["flow"]
           what == Reply(t).is
           held == HeldBy(t, "held")
           phase == IF what = "method" THEN held ELSE [held EXCEPT !.with = t.pay]
<1>1. /\ t \in TaskRec /\ Answers(t, record) /\ t.cart \in Cart \cup {NoCart}
      /\ t.pay \in Payment /\ t.order \in 0..MaxOrders
      /\ t.at = "place" /\ t.order # NoOrder /\ t.order \in Order
      /\ UNCHANGED <<server, browser, left, loose, plain, counts>>
      /\ Ends("flow") /\ asked' \cup denied' \subseteq Order /\ owed' = owed \cup {t.order}
  <2>1. t \in TaskRec /\ t.at = "place" /\ t.order \in Order /\ Answers(t, record)
    BY JobsAre, TaskFields, Basics DEF HearRefusal, Talk, Answers
  <2> QED
    BY <2>1, TaskFields, DeniesIs, Basics DEF HearRefusal
<1>2. /\ page.on /\ page.own = "busy" /\ page.resume = "no" /\ Named
      /\ task["code"].at = "none" /\ task["resume"].at = "none" /\ task["early"].at = "none"
      /\ page.phase.kind = "placing"
  BY <1>1, FlowUnderWay DEF Layout, FlowInv
<1>3. phase \in PhaseRec /\ phase.kind = "held" /\ phase.order = t.order
  <2>1. held \in PhaseRec /\ held.kind = "held" /\ held.order = t.order
    BY <1>1, HeldByIs DEF PhaseKind
  <2> HIDE DEF held
  <2> QED
    BY <1>1, <2>1, PhaseFields
<1>4. PageIs(page', page.on, "idle", page.order, page.resume, phase, page.intent, NoKey)
  <2>1. page' = [page EXCEPT !.own = "idle", !.attempt = NoKey,
                             !.pay = IF what = "method" THEN "card" ELSE @, !.phase = phase]
    BY DEF HearRefusal
  <2>2. "card" \in Payment /\ page.pay \in Payment
    BY TypesGive DEF Payment
  <2> HIDE DEF phase, what
  <2> QED
    BY <2>1, <2>2, <1>3, Basics, TypesGive DEF PageIs, PageRec, Own
<1>5. /\ OnlyTask("flow", Rest("flow"))
      /\ TaskIs(Rest("flow"), "flow", "none", NoOrder, NoKey, NoKey, Unsaid)
  BY <1>1, EndsIs, JobsAre
<1> HIDE DEF phase
<1>6. Types'
  BY <1>1, <1>4, <1>5 DEF Types, PageIs, OnlyTask, server, browser, counts
<1>7. Layout'
  BY <1>1, <1>2, <1>3, <1>4, <1>5, JobsAre DEF Layout, Off, Named, EarlyInv, FlowInv, CodeInv,
     PhaseInv, ResumeInv, Abandoning, PageIs, TaskIs, OnlyTask
<1>8. Talk'
  BY <1>1, <1>5, TalkSame, JustAsked DEF OnlyTask, At, server
<1>9. Owed'
  BY <1>1, <1>2, <1>3, <1>4 DEF Owed, PageIs, server
<1> QED
  BY <1>6, <1>7, <1>8, <1>9

LEMMA HearFailureKeeps ==
  ASSUME LInv, HearFailure
  PROVE  LInv'
<1> USE DEF LInv
<1> DEFINE t == task["flow"]
           what == Reply(t).is
<1>1. /\ t \in TaskRec /\ Answers(t, record) /\ t.cart \in Cart \cup {NoCart}
      /\ t.order \in 0..MaxOrders /\ Named
      /\ UNCHANGED <<status, lapsed, charge, browser, left, loose, owed, plain, counts>>
  BY JobsAre, TaskFields DEF HearFailure, Talk, Layout
<1>2. CASE /\ t.at = "place" /\ what = "error"
           /\ page' = [page EXCEPT !.intent = NoKey, !.attempt = SettledAttempt(what)]
           /\ task' = [task EXCEPT !["flow"] = Ask(@, "undo", t.order)]
           /\ Denies(t.order, what) /\ UNCHANGED record
  <2>1. PageIs(page', page.on, page.own, page.order, page.resume, page.phase, NoKey,
               SettledAttempt(what))
    BY <1>2, Basics, TypesGive, SettledIs DEF PageIs, PageRec
  <2>2. TaskIs(Ask(t, "undo", t.order), "flow", "undo", t.order, NoKey, NoKey, Unsaid)
    BY <1>1, AskIs, JobsAre DEF At, Named
  <2>3. OnlyTask("flow", Ask(t, "undo", t.order))
    BY <1>2, <2>2, OneTask, JobsAre DEF TaskIs
  <2>8. t.order \in Order
    BY <1>1, <1>2, Basics DEF Answers
  <2>4. Types'
    BY <1>1, <1>2, <2>1, <2>3, <2>8, DeniesIs DEF Types, PageIs, OnlyTask, browser, counts
  <2>5. Layout'
    BY <1>1, <1>2, <2>1, <2>2, <2>3, FlowUnderWay, JobsAre DEF Layout, Off, Named, EarlyInv, FlowInv, CodeInv,
       PhaseInv, ResumeInv, Abandoning, PageIs, TaskIs, OnlyTask
  <2>6. Talk'
    BY <1>1, <1>2, <2>2, <2>3, TalkSame, JustAsked DEF OnlyTask, At
  <2>7. Owed'
    BY <1>1, <2>1 DEF Owed, PageIs
  <2> QED
    BY <2>4, <2>5, <2>6, <2>7
<1>3. CASE /\ t.at = "place" /\ what = "unknown"
           /\ BackToIdle(HeldBy(t, "placing"), page.intent, SettledAttempt(what))
           /\ UNCHANGED <<asked, denied>>
  <2>1. t.order # NoOrder
    BY <1>1, <1>3 DEF Answers
  <2>2. /\ HeldBy(t, "placing") \in PhaseRec
        /\ HeldBy(t, "placing").kind = "placing"
        /\ HeldBy(t, "placing").order = t.order
    BY <1>1, HeldByIs DEF PhaseKind
  <2>3. asked' \cup denied' \subseteq Order
    BY <1>3 DEF Types
  <2> QED
    BY <1>1, <1>3, <2>1, <2>2, <2>3, SettledIs, TypesGive, BackToIdleKeeps
<1>4. CASE /\ t.at = "undo" /\ BackToIdle(NoPhase, page.intent, page.attempt)
           /\ UNCHANGED <<asked, denied>>
  <2>1. asked' \cup denied' \subseteq Order
    BY <1>4 DEF Types
  <2> QED
    BY <1>1, <1>4, <2>1, PhaseFields, TypesGive, BackToIdleKeeps
<1> QED
  BY <1>2, <1>3, <1>4 DEF HearFailure

LEMMA HearChallengeKeeps ==
  ASSUME LInv, HearChallenge
  PROVE  LInv'
<1> USE DEF LInv
<1> DEFINE t == task["flow"]
<1>1. /\ t \in TaskRec /\ t.order \in 0..MaxOrders /\ t.at = "place" /\ Ends("flow")
      /\ page' = [page EXCEPT !.own = "code", !.order = t.order, !.attempt = NoKey,
                              !.phase = Phase("ordered", t.order, NoCart)]
      /\ pending' = t.order
      /\ UNCHANGED <<server, cart, left, loose, history, plain, counts>>
  BY JobsAre, TaskFields DEF HearChallenge
<1>2. /\ page.on /\ page.own = "busy" /\ page.resume = "no" /\ Named
      /\ task["code"].at = "none" /\ task["resume"].at = "none" /\ task["early"].at = "none"
      /\ page.phase.kind = "placing"
  BY <1>1, FlowUnderWay DEF Layout, FlowInv
<1>3. /\ Phase("ordered", t.order, NoCart) \in PhaseRec
      /\ Phase("ordered", t.order, NoCart).kind = "ordered"
  BY <1>1, PhaseFields DEF PhaseKind
<1>4. PageIs(page', page.on, "code", t.order, page.resume, Phase("ordered", t.order, NoCart),
             page.intent, NoKey)
  BY <1>1, <1>3, Basics, TypesGive DEF PageIs, PageRec, Own
<1>5. /\ OnlyTask("flow", Rest("flow"))
      /\ TaskIs(Rest("flow"), "flow", "none", NoOrder, NoKey, NoKey, Unsaid)
  BY <1>1, EndsIs, JobsAre
<1>6. Types'
  BY <1>1, <1>4, <1>5 DEF Types, PageIs, OnlyTask, server, history, counts
<1>7. Layout'
  BY <1>1, <1>2, <1>3, <1>4, <1>5, JobsAre DEF Layout, Off, Named, EarlyInv, FlowInv, CodeInv,
     PhaseInv, ResumeInv, Abandoning, PageIs, TaskIs, OnlyTask
<1>8. Talk'
  BY <1>1, <1>5, TalkSame, JustAsked DEF OnlyTask, At, server
<1>9. Owed'
  BY <1>1, <1>2 DEF Owed, server, history
<1> QED
  BY <1>6, <1>7, <1>8, <1>9

-----------------------------------------------------------------------------
(* And the challenge *)

LEMMA CodeUnderWay ==
  ASSUME LInv, task["code"].at # "none"
  PROVE  /\ page.on /\ page.own \in {"busy", "check"} /\ page.resume = "no"
         /\ task["flow"].at = "none" /\ task["resume"].at = "none" /\ task["early"].at = "none"
<1>1. page.on
  BY JobsAre, BlankIs DEF LInv, Layout, Off, TaskIs
<1>2. page.resume \in {"no", "reading", "failed"}
  BY PageFields DEF LInv, Types
<1> QED
  BY <1>1, <1>2 DEF LInv, Layout, FlowInv, ResumeInv, EarlyInv, CodeInv

LEMMA ChallengeShown ==
  ASSUME LInv, page.own \in {"code", "check"}
  PROVE  /\ page.on /\ page.resume = "no" /\ page.phase.kind = "ordered"
         /\ task["flow"].at = "none" /\ task["resume"].at = "none" /\ task["early"].at = "none"
<1>1. page.on
  BY BlankIs DEF LInv, Layout, Off, PageIs
<1>2. page.resume \in {"no", "reading", "failed"}
  BY PageFields DEF LInv, Types
<1> QED
  BY <1>1, <1>2 DEF LInv, Layout, FlowInv, ResumeInv, EarlyInv, CodeInv, PhaseInv

LEMMA SubmitKeeps ==
  ASSUME LInv, Submit
  PROVE  LInv'
<1> USE DEF LInv
<1> DEFINE t == Ask(task["code"], "confirm", page.order)
<1>1. /\ page.own = "code" /\ task["code"].at = "none" /\ Named
      /\ page' = [page EXCEPT !.own = "check"] /\ task' = [task EXCEPT !["code"] = t]
      /\ UNCHANGED <<server, browser, left, loose, history, plain, counts>>
  BY DEF Submit, Layout
<1>2. PageIs(page', page.on, "check", page.order, page.resume, page.phase, page.intent, page.attempt)
  BY <1>1, TypesGive DEF PageIs, PageRec, Own
<1>3. TaskIs(t, "code", "confirm", page.order, NoKey, NoKey, Unsaid)
  BY <1>1, AskIs, JobsAre, TypesGive DEF At, Named
<1>4. OnlyTask("code", t)
  BY <1>1, <1>3, OneTask, JobsAre DEF TaskIs
<1> HIDE DEF t
<1>5. Types'
  BY <1>1, <1>2, <1>4 DEF Types, PageIs, OnlyTask, server, browser, history, counts
<1>6. Layout'
  BY <1>1, <1>2, <1>3, <1>4, ChallengeShown, JobsAre DEF Layout, Off, Named, EarlyInv, FlowInv,
     CodeInv, PhaseInv, ResumeInv, Abandoning, PageIs, TaskIs, OnlyTask
<1>7. Talk'
  BY <1>1, <1>3, <1>4, TalkSame, JustAsked DEF OnlyTask, At, server
<1>8. Owed'
  BY <1>1, <1>2 DEF Owed, server, history, PageIs
<1> QED
  BY <1>5, <1>6, <1>7, <1>8

LEMMA AbandonKeeps ==
  ASSUME LInv, NEW j \in {"flow", "code"}, NEW o \in 0..MaxOrders, Abandon(j, o), crossed' \in Nat,
         page.own \in {"code", "check"},
         \A i \in {"flow", "code"} \ {j} : task[i].at = "none"
  PROVE  LInv'
<1> USE DEF LInv
<1>1. Named /\ UNCHANGED <<server, browser, left, loose, history>>
  BY DEF Layout, Abandon
<1>2. /\ PageIs(page', page.on, "busy", page.order, "no", page.phase, NoKey, page.attempt)
      /\ TaskIs(task'[j], j, "abandon", o, NoKey, NoKey, Unsaid)
      /\ OnlyTask(j, task'[j]) /\ j \in Job
  BY <1>1, JobsAre, AbandonIs
<1>3. Types'
  BY <1>1, <1>2 DEF Types, PageIs, OnlyTask, server, browser, history
<1>4. Layout'
  <2>1. CASE j = "flow"
    BY <2>1, <1>1, <1>2, ChallengeShown, JobsAre DEF Layout, Off, Named, EarlyInv, FlowInv,
       CodeInv, PhaseInv, ResumeInv, Abandoning, PageIs, TaskIs, OnlyTask
  <2>2. CASE j = "code"
    BY <2>2, <1>1, <1>2, ChallengeShown, JobsAre DEF Layout, Off, Named, EarlyInv, FlowInv,
       CodeInv, PhaseInv, ResumeInv, Abandoning, PageIs, TaskIs, OnlyTask
  <2> QED
    BY <2>1, <2>2
<1>5. Talk'
  BY <1>1, <1>2, TalkSame, JustAsked DEF OnlyTask, At, server
<1>6. Owed'
  BY <1>1, <1>2 DEF Owed, server, history, PageIs
<1> QED
  BY <1>3, <1>4, <1>5, <1>6

LEMMA CancelKeeps ==
  ASSUME LInv, Cancel, crossed' = 0
  PROVE  LInv'
<1>1. /\ page.own \in {"code", "check"} /\ Abandon("flow", page.order) /\ page.order \in 0..MaxOrders
      /\ task["code"].at = "none" /\ crossed' \in Nat
  BY TypesGive DEF Cancel, LInv, Types
<1> QED
  BY <1>1, AbandonKeeps

-----------------------------------------------------------------------------
(* Leaving the page *)

LEMMA OrphanIs ==
  ASSUME Types, NEW t \in TaskRec
  PROVE  TaskIs(Orphan(t), t.job, t.at, t.order, t.key, page.attempt, t.answer)
<1> DEFINE c == IF t.job = "early" /\ t.at = "drop" /\ t.cart # NoCart THEN cart ELSE t.cart
<1>1. c \in Cart \cup {NoCart} /\ page.attempt \in 0..MaxKeys
  BY TypesGive, TaskFields
<1>2. Orphan(t) = [t EXCEPT !.attempt = page.attempt, !.cart = c]
  BY DEF Orphan
<1> HIDE DEF c
<1> QED
  BY <1>1, <1>2 DEF TaskIs, TaskRec

(* The tasks the page has at its end: those of the state, or all but the   *)
(* one that finishes it.                                                   *)
AtTheEnd(tasks) ==
  /\ tasks \in [Job -> TaskRec]
  /\ \A j \in Job : tasks[j] = task[j] \/ tasks[j] = Rest(j)
  /\ tasks["flow"].at # "take"

LEMMA EndOfTask ==
  ASSUME Types, NEW j \in Job, j = "flow" \/ task["flow"].at # "take"
  PROVE  AtTheEnd([task EXCEPT ![j] = Rest(j)])
BY JobsAre, BlankIs DEF AtTheEnd, Types, TaskIs

UnderWay(tasks) == {j \in Job : tasks[j].at \notin {"none", "read"}}

LEMMA OrphansAreOfPage ==
  ASSUME Types, Layout, Talk, NEW tasks, AtTheEnd(tasks), NEW j \in UnderWay(tasks)
  PROVE  /\ tasks[j] = task[j] /\ j \in Job
         /\ task[j].at \notin {"none", "take", "read"}
         /\ TaskIs(Orphan(tasks[j]), j, task[j].at, task[j].order, task[j].key, page.attempt,
                   task[j].answer)
         /\ Answers(Orphan(tasks[j]), record) /\ OfPage(Orphan(tasks[j]))
<1>1. j \in Job /\ tasks[j] = task[j] /\ tasks[j] \in TaskRec /\ task[j].at \notin {"none", "read"}
  BY BlankIs DEF UnderWay, AtTheEnd, TaskIs
<1>2. TaskIs(Orphan(tasks[j]), j, task[j].at, task[j].order, task[j].key, page.attempt, task[j].answer)
  BY <1>1, OrphanIs DEF Layout, Named
<1>3. Answers(Orphan(tasks[j]), record)
  BY <1>1, <1>2 DEF Talk, Answers, TaskIs
<1>4. /\ task[j].at # "take"
      /\ task[j].at \in {"drop", "reserve"} => j \in {"early", "flow"}
  BY <1>1, JobsAre DEF AtTheEnd, Layout, EarlyInv, FlowInv, CodeInv, ResumeInv
<1> QED
  BY <1>1, <1>2, <1>3, <1>4 DEF OfPage, TaskIs

OrphansOf(tasks) == {Orphan(tasks[j]) : j \in UnderWay(tasks)}
LEMMA OrphansAre ==
  ASSUME Types, NEW tasks
  PROVE  {Orphan(t) : t \in {u \in {tasks[j] : j \in Job} \cup page.stale :
                               u.at \notin {"none", "read"}}} = OrphansOf(tasks)
<1>1. page.stale = {}
  BY PageFields DEF Types
<1> QED
  BY <1>1 DEF OrphansOf, UnderWay

LEMMA UnmountKeeps ==
  ASSUME LInv, NEW tasks, AtTheEnd(tasks), NEW others \in SUBSET left, Unmount(tasks, others),
         UNCHANGED <<server, asked, denied>>, crossed' \in Nat,
         cart' \in Cart \cup {NoCart}, pending' \in 0..MaxOrders
  PROVE  LInv'
<1> USE DEF LInv
<1> DEFINE orphans == OrphansOf(tasks)
           over == ReleasableOnLeave(page.phase)
<1>1. /\ page' = Blank /\ task' = NoTasks /\ left' = others \cup orphans
      /\ loose' = loose \cup {Drop(o) : o \in over} /\ owed' = owed \ over
  BY OrphansAre, Zenon DEF Unmount
<1>2. over = IF page.phase.kind = "held" THEN {page.phase.order} ELSE {}
  BY DEF ReleasableOnLeave
<1>3. \A t \in orphans : t \in TaskRec /\ Answers(t, record) /\ OfPage(t)
  BY OrphansAreOfPage DEF TaskIs, OrphansOf
<1>4. \A t \in {Drop(o) : o \in over} : t \in TaskRec /\ Answers(t, record) /\ OnItsWay(t)
  <2> SUFFICES ASSUME NEW o \in over
               PROVE  Drop(o) \in TaskRec /\ Answers(Drop(o), record) /\ OnItsWay(Drop(o))
    OBVIOUS
  <2>1. TaskIs(Drop(o), "loose", "drop", o, NoKey, NoKey, Unsaid)
    BY <1>2, TypesGive, BlankIs
  <2>2. Answers(Drop(o), record)
    BY <2>1, JustAsked DEF At
  <2> QED
    BY <2>1, <2>2 DEF OnItsWay, TaskIs
<1>5. Types'
  <2>1. page' \in PageRec /\ task' \in [Job -> TaskRec]
    BY <1>1, BlankIs DEF PageIs
  <2>2. left' \subseteq TaskRec /\ loose' \subseteq TaskRec
    BY <1>1, <1>3, <1>4 DEF Types
  <2> HIDE DEF orphans, over
  <2> QED
    BY <1>1, <2>1, <2>2 DEF Types, server
<1>6. Layout'
  <2>1. PageIs(page', FALSE, "idle", NoOrder, "no", NoPhase, NoKey, NoKey)
    BY <1>1, BlankIs
  <2>2. \A j \in Job : TaskIs(task'[j], j, "none", NoOrder, NoKey, NoKey, Unsaid)
    BY <1>1, BlankIs
  <2>3. page'.phase.kind = "none"
    BY <2>1, PhaseFields DEF PageIs
  <2> HIDE DEF orphans, over
  <2> QED
    BY <1>1, <2>1, <2>2, <2>3, JobsAre DEF Layout, Off, Named, EarlyInv, FlowInv,
       CodeInv, PhaseInv, ResumeInv, Abandoning, PageIs, TaskIs
<1>7. Talk'
  <2>1. \A j \in Job : Answers(task'[j], record)
    <3> TAKE j \in Job
    <3>1. TaskIs(task'[j], j, "none", NoOrder, NoKey, NoKey, Unsaid)
      BY <1>1, BlankIs
    <3> QED
      BY <3>1, JustAsked DEF At
  <2> HIDE DEF orphans, over
  <2> QED
    BY <1>1, <1>3, <1>4, <2>1, TalkSame DEF server
<1>8. Owed'
  BY <1>1, <1>2 DEF Owed, server
<1> QED
  BY <1>5, <1>6, <1>7, <1>8

LEMMA FinishKeeps ==
  ASSUME LInv, NEW j \in Job, j = "flow" \/ task["flow"].at # "take", Finish(j)
  PROVE  LInv'
<1>1. AtTheEnd([task EXCEPT ![j] = Rest(j)])
  BY EndOfTask DEF LInv
<1>2. /\ Unmount([task EXCEPT ![j] = Rest(j)], left)
      /\ cart' \in Cart \cup {NoCart} /\ pending' \in 0..MaxOrders
      /\ UNCHANGED <<server, asked, denied>> /\ crossed' \in Nat
  BY Basics DEF Finish, LInv, Types, counts
<1> DEFINE tasks == [task EXCEPT ![j] = Rest(j)]
<1> HIDE DEF tasks
<1> QED
  BY <1>1, <1>2, UnmountKeeps DEF tasks

LEMMA LeaveKeeps ==
  ASSUME LInv, Leave
  PROVE  LInv'
<1>1. AtTheEnd(task)
  BY DEF AtTheEnd, Leave, LInv, Types
<1>2. /\ Unmount(task, left)
      /\ cart' \in Cart \cup {NoCart} /\ pending' \in 0..MaxOrders
      /\ UNCHANGED <<server, asked, denied>> /\ crossed' \in Nat
  BY Basics DEF Leave, LInv, Types, counts
<1> QED
  BY <1>1, <1>2, UnmountKeeps

LEMMA HearPlacedKeeps ==
  ASSUME LInv, HearPlaced
  PROVE  LInv'
BY FinishKeeps, JobsAre DEF HearPlaced

LEMMA HearCodeKeeps ==
  ASSUME LInv, HearCode
  PROVE  LInv'
<1> USE DEF LInv
<1> DEFINE t == task["code"]
           what == Reply(t).is
<1>1. /\ t.at = "confirm" /\ t \in TaskRec /\ t.order \in 0..MaxOrders /\ Named
      /\ page.on /\ page.own = "check" /\ page.resume = "no"
      /\ task["flow"].at = "none" /\ task["resume"].at = "none" /\ task["early"].at = "none"
      /\ page.phase.kind = "ordered"
  BY JobsAre, TaskFields, CodeUnderWay, ChallengeShown DEF HearCode, Layout, CodeInv
<1>2. CASE what = "paid" /\ Finish("code")
  BY <1>1, <1>2, FinishKeeps, JobsAre
<1>3. CASE Abandon("code", t.order) /\ UNCHANGED <<plain, crossed>>
  <2>1. crossed' \in Nat
    BY <1>3 DEF Types
  <2> QED
    BY <1>1, <1>3, <2>1, AbandonKeeps
<1>4. CASE /\ Ends("code") /\ page' = [page EXCEPT !.own = IF @ = "check" THEN "code" ELSE @]
           /\ UNCHANGED <<server, browser, left, loose, history, plain, counts>>
  <2>1. PageIs(page', page.on, "code", page.order, page.resume, page.phase, page.intent, page.attempt)
    BY <1>1, <1>4, TypesGive DEF PageIs, PageRec, Own
  <2>2. /\ OnlyTask("code", Rest("code"))
        /\ TaskIs(Rest("code"), "code", "none", NoOrder, NoKey, NoKey, Unsaid)
    BY <1>4, EndsIs, JobsAre
  <2>3. Types'
    BY <1>4, <2>1, <2>2 DEF Types, PageIs, OnlyTask, server, browser, history, counts
  <2>4. Layout'
    BY <1>1, <2>1, <2>2, JobsAre DEF Layout, Off, Named, EarlyInv, FlowInv,
       CodeInv, PhaseInv, ResumeInv, Abandoning, PageIs, TaskIs, OnlyTask
  <2>5. Talk'
    BY <1>4, <2>2, TalkSame, JustAsked DEF OnlyTask, At, server
  <2>6. Owed'
    BY <1>4, <2>1 DEF Owed, server, history, PageIs
  <2> QED
    BY <2>3, <2>4, <2>5, <2>6
<1> QED
  BY <1>2, <1>3, <1>4 DEF HearCode

LEMMA HearAbandonKeeps ==
  ASSUME LInv, NEW j \in {"flow", "code"}, HearAbandon(j)
  PROVE  LInv'
<1> USE DEF LInv
<1> DEFINE t == task[j]
           what == Reply(t).is
           i == IF j = "flow" THEN "code" ELSE "flow"
<1>1. /\ t.at \in {"abandon", "look"} /\ t \in TaskRec /\ t.order \in 0..MaxOrders /\ Named
      /\ j \in Job /\ Abandoning
      /\ page.on /\ page.own = "busy" /\ page.resume = "no" /\ page.intent = NoKey
      /\ task["resume"].at = "none" /\ task["early"].at = "none"
      /\ task[i].at = "none" /\ page.phase.kind \in {"none", "ordered"}
  <2>1. /\ t.at \in {"abandon", "look"} /\ j \in Job /\ t \in TaskRec /\ Abandoning /\ Named
    BY JobsAre DEF HearAbandon, Abandoning, Layout
  <2>2. t.order \in 0..MaxOrders
    BY <2>1, TaskFields
  <2>3. page.intent = NoKey /\ page.own = "busy" /\ page.phase.kind \in {"none", "ordered"}
    BY <2>1 DEF Layout, FlowInv, CodeInv, PhaseInv
  <2> QED
    BY <2>1, <2>2, <2>3, FlowUnderWay, CodeUnderWay
<1>2. CASE Finish(j)
  BY <1>1, <1>2, FinishKeeps
<1>3. CASE /\ t.at = "abandon" /\ task' = [task EXCEPT ![j] = Ask(t, "look", t.order)]
           /\ UNCHANGED <<server, browser, page, left, loose, history, plain, counts>>
  <2>1. TaskIs(Ask(t, "look", t.order), j, "look", t.order, NoKey, NoKey, Unsaid)
    BY <1>1, AskIs DEF At, Named
  <2>2. OnlyTask(j, Ask(t, "look", t.order))
    BY <1>1, <1>3, <2>1, OneTask DEF TaskIs
  <2>3. Types'
    BY <1>3, <2>2 DEF Types, OnlyTask, server, browser, history, counts
  <2>4. Layout'
    BY <1>1, <1>3, <2>1, <2>2, JobsAre DEF Layout, Off, Named, EarlyInv, FlowInv,
       CodeInv, PhaseInv, ResumeInv, Abandoning, TaskIs, OnlyTask
  <2>5. Talk'
    BY <1>3, <2>1, <2>2, TalkSame, JustAsked DEF OnlyTask, At, server
  <2>6. Owed'
    BY <1>3 DEF Owed, server, history
  <2> QED
    BY <2>3, <2>4, <2>5, <2>6
<1>4. CASE /\ Ends(j) /\ page' = [page EXCEPT !.own = "idle", !.phase = NoPhase]
           /\ pending' = IF what = "released" THEN NoOrder ELSE pending
           /\ UNCHANGED <<server, cart, left, loose, history, plain, counts>>
  <2>1. PageIs(page', page.on, "idle", page.order, page.resume, NoPhase, page.intent, page.attempt)
    BY <1>4, PhaseFields, TypesGive DEF PageIs, PageRec, Own
  <2>2. /\ OnlyTask(j, Rest(j))
        /\ TaskIs(Rest(j), j, "none", NoOrder, NoKey, NoKey, Unsaid)
    BY <1>1, <1>4, EndsIs
  <2>3. Types'
    BY <1>4, <2>1, <2>2, Basics DEF Types, PageIs, OnlyTask, server, history, counts
  <2>4. Layout'
    <3>1. page'.phase.kind = "none"
      BY <2>1, PhaseFields DEF PageIs
    <3>2. \A k \in {"flow", "code"} : task'[k].at = "none"
      BY <1>1, <2>2, JobsAre DEF OnlyTask, TaskIs
    <3>3. task'["resume"].at = "none" /\ task'["early"].at = "none"
      BY <1>1, <2>2, JobsAre DEF OnlyTask
    <3>4. Named'
      BY <1>1, <2>2, JobsAre DEF OnlyTask, TaskIs, Named
    <3> QED
      BY <1>1, <2>1, <3>1, <3>2, <3>3, <3>4 DEF Layout, Off, EarlyInv, FlowInv,
         CodeInv, PhaseInv, ResumeInv, Abandoning, PageIs
  <2>5. Talk'
    BY <1>4, <2>2, TalkSame, JustAsked DEF OnlyTask, At, server
  <2>6. Owed'
    BY <1>1, <1>4 DEF Owed, server, history
  <2> QED
    BY <2>3, <2>4, <2>5, <2>6
<1> QED
  BY <1>2, <1>3, <1>4 DEF HearAbandon

LEMMA ResumeUnderWay ==
  ASSUME LInv, page.resume # "no"
  PROVE  /\ page.on /\ page.own = "idle" /\ page.phase.kind = "none" /\ page.intent = NoKey
         /\ \A j \in Job \ {"resume"} : task[j].at = "none"
<1>1. page.on
  BY BlankIs DEF LInv, Layout, Off, PageIs
<1> QED
  BY <1>1, JobsAre DEF LInv, Layout, ResumeInv, EarlyInv, FlowInv, CodeInv

LEMMA HearResumeKeeps ==
  ASSUME LInv, HearResume
  PROVE  LInv'
<1> USE DEF LInv
<1> DEFINE t == task["resume"]
           what == Reply(t).is
<1>1. /\ t.at = "read" /\ t \in TaskRec /\ t.order \in 0..MaxOrders /\ Named
      /\ page.resume = "reading"
      /\ page.on /\ page.own = "idle" /\ page.phase.kind = "none" /\ page.intent = NoKey
      /\ \A j \in Job \ {"resume"} : task[j].at = "none"
  BY JobsAre, TaskFields, ResumeUnderWay DEF HearResume, Layout, ResumeInv
<1>2. CASE Finish("resume")
  BY <1>1, <1>2, FinishKeeps, JobsAre
<1>3. CASE /\ page' = [page EXCEPT !.own = "busy", !.resume = "no", !.intent = NoKey]
           /\ task' = [task EXCEPT !["resume"] = Rest(@.job), !["flow"] = Ask(@, "abandon", t.order)]
           /\ UNCHANGED <<server, browser, left, loose, history, plain, counts>>
  <2>1. PageIs(page', page.on, "busy", page.order, "no", page.phase, NoKey, page.attempt)
    BY <1>3, Basics, TypesGive DEF PageIs, PageRec, Own
  <2>2. /\ TaskIs(Rest("resume"), "resume", "none", NoOrder, NoKey, NoKey, Unsaid)
        /\ TaskIs(Ask(task["flow"], "abandon", t.order), "flow", "abandon", t.order, NoKey, NoKey,
                  Unsaid)
    BY <1>1, AskIs, BlankIs, JobsAre DEF At, Named
  <2>3. /\ task' \in [Job -> TaskRec]
        /\ task'["resume"] = Rest("resume")
        /\ task'["flow"] = Ask(task["flow"], "abandon", t.order)
        /\ \A j \in Job \ {"resume", "flow"} : task'[j] = task[j]
    <3>1. task["resume"].job = "resume"
      BY <1>1, JobsAre DEF Named
    <3>2. task' = [task EXCEPT !["resume"] = Rest("resume"),
                               !["flow"] = Ask(task["flow"], "abandon", t.order)]
      BY <1>3, <3>1, JobsAre DEF Types
    <3>3. Rest("resume") \in TaskRec /\ Ask(task["flow"], "abandon", t.order) \in TaskRec
      BY <2>2 DEF TaskIs
    <3> QED
      BY <3>2, <3>3, JobsAre DEF Types
  <2>4. Types'
    BY <1>3, <2>1, <2>3 DEF Types, PageIs, server, browser, history, counts
  <2>5. Layout'
    BY <1>1, <2>1, <2>2, <2>3, JobsAre DEF Layout, Off, Named, EarlyInv, FlowInv,
       CodeInv, PhaseInv, ResumeInv, Abandoning, PageIs, TaskIs
  <2>6. Talk'
    <3>1. Answers(task'["resume"], record) /\ Answers(task'["flow"], record)
      BY <2>2, <2>3, JustAsked DEF At
    <3> QED
      BY <1>3, <2>3, <3>1, TalkSame DEF server
  <2>7. Owed'
    BY <1>1, <1>3 DEF Owed, server, history
  <2> QED
    BY <2>4, <2>5, <2>6, <2>7
<1>4. CASE /\ what \in {"challenge", "gone", "unknown"} /\ Ends("resume")
           /\ page' = CASE what = "challenge" ->
                             [page EXCEPT !.resume = "no", !.own = "code", !.order = t.order,
                                          !.phase = Phase("ordered", t.order, NoCart)]
                         [] what = "gone" -> [page EXCEPT !.resume = "no"]
                         [] OTHER -> [page EXCEPT !.resume = "failed"]
           /\ pending' = IF what = "gone" THEN NoOrder ELSE pending
           /\ UNCHANGED <<server, cart, left, loose, history, plain, counts>>
  <2>1. /\ OnlyTask("resume", Rest("resume"))
        /\ TaskIs(Rest("resume"), "resume", "none", NoOrder, NoKey, NoKey, Unsaid)
    BY <1>4, EndsIs, JobsAre
  <2>2. /\ Phase("ordered", t.order, NoCart) \in PhaseRec
        /\ Phase("ordered", t.order, NoCart).kind = "ordered"
    BY <1>1, PhaseFields DEF PhaseKind
  <2>3. \/ PageIs(page', page.on, "code", t.order, "no", Phase("ordered", t.order, NoCart),
                  page.intent, page.attempt)
        \/ PageIs(page', page.on, page.own, page.order, "no", page.phase, page.intent, page.attempt)
        \/ PageIs(page', page.on, page.own, page.order, "failed", page.phase, page.intent,
                  page.attempt)
    <3>1. CASE what = "challenge"
      BY <1>1, <1>4, <2>2, <3>1, TypesGive DEF PageIs, PageRec, Own
    <3>2. CASE what = "gone"
      BY <1>4, <3>2, TypesGive DEF PageIs, PageRec
    <3>3. CASE what = "unknown"
      BY <1>4, <3>3, TypesGive DEF PageIs, PageRec
    <3> QED
      BY <1>4, <3>1, <3>2, <3>3
  <2>4. Types'
    BY <1>4, <2>1, <2>3, Basics DEF Types, PageIs, OnlyTask, server, history, counts
  <2>5. Layout'
    <3>1. \A j \in Job : task'[j].at = "none"
      BY <1>1, <2>1, JobsAre DEF OnlyTask, TaskIs
    <3>2. Named'
      BY <1>1, <2>1, JobsAre DEF OnlyTask, TaskIs, Named
    <3>3. page'.on /\ page'.intent = NoKey
      BY <1>1, <2>3 DEF PageIs
    <3>4. \/ page'.own = "code" /\ page'.resume = "no" /\ page'.phase.kind = "ordered"
          \/ page'.own = "idle" /\ page'.phase.kind = "none"
      BY <1>1, <2>2, <2>3 DEF PageIs
    <3> QED
      BY <3>1, <3>2, <3>3, <3>4, JobsAre DEF Layout, Off, EarlyInv, FlowInv,
         CodeInv, PhaseInv, ResumeInv, Abandoning
  <2>6. Talk'
    BY <1>4, <2>1, TalkSame, JustAsked DEF OnlyTask, At, server
  <2>7. Owed'
    BY <1>1, <1>4 DEF Owed, server, history
  <2> QED
    BY <2>4, <2>5, <2>6, <2>7
<1> QED
  BY <1>2, <1>3, <1>4 DEF HearResume

LEMMA RetryResumeKeeps ==
  ASSUME LInv, RetryResume
  PROVE  LInv'
<1> USE DEF LInv
<1> DEFINE t == Ask(task["resume"], "read", page.order)
<1>1. /\ page.resume = "failed" /\ page' = [page EXCEPT !.resume = "reading"] /\ Named
      /\ task' = [task EXCEPT !["resume"] = t]
      /\ UNCHANGED <<server, browser, left, loose, history, plain, counts>>
      /\ page.on /\ page.own = "idle" /\ page.phase.kind = "none" /\ page.intent = NoKey
      /\ \A j \in Job \ {"resume"} : task[j].at = "none"
  BY ResumeUnderWay DEF RetryResume, Layout
<1>2. PageIs(page', page.on, page.own, page.order, "reading", page.phase, page.intent, page.attempt)
  BY <1>1, TypesGive DEF PageIs, PageRec
<1>3. TaskIs(t, "resume", "read", page.order, NoKey, NoKey, Unsaid)
  BY <1>1, AskIs, JobsAre, TypesGive DEF At, Named
<1>4. OnlyTask("resume", t)
  BY <1>1, <1>3, OneTask, JobsAre DEF TaskIs
<1> HIDE DEF t
<1>5. Types'
  BY <1>1, <1>2, <1>4 DEF Types, PageIs, OnlyTask, server, browser, history, counts
<1>6. Layout'
  BY <1>1, <1>2, <1>3, <1>4, JobsAre DEF Layout, Off, Named, EarlyInv, FlowInv,
     CodeInv, PhaseInv, ResumeInv, Abandoning, PageIs, TaskIs, OnlyTask
<1>7. Talk'
  BY <1>1, <1>3, <1>4, TalkSame, JustAsked DEF OnlyTask, At, server
<1>8. Owed'
  BY <1>1, <1>2 DEF Owed, server, history, PageIs
<1> QED
  BY <1>5, <1>6, <1>7, <1>8

Sent == {j \in Job : task[j].answer = Unsaid /\ task[j].at \notin {"none", "take", "read"}}
LEMMA ReloadLeaves ==
  ASSUME Types
  PROVE  LET running == {task[j] : j \in Job} \cup page.stale
             sent == {t \in running : t.answer = Unsaid /\ t.at \notin {"none", "take", "read"}}
         IN  {[t EXCEPT !.job = "loose"] : t \in sent}
               = {[task[j] EXCEPT !.job = "loose"] : j \in Sent}
<1>1. page.stale = {}
  BY PageFields DEF Types
<1> QED
  BY <1>1 DEF Sent

LEMMA ReloadKeeps ==
  ASSUME LInv, Reload
  PROVE  LInv'
<1> USE DEF LInv
<1> DEFINE sent == Sent
           copies == {[task[j] EXCEPT !.job = "loose"] : j \in sent}
<1>1. /\ page' = Blank /\ task' = NoTasks
      /\ loose' \in {loose, loose \cup copies}
      /\ owed' = IF page.phase.kind = "held" THEN owed \ {page.phase.order} ELSE owed
      /\ plain' = FALSE /\ UNCHANGED <<server, browser, left, asked, denied>>
      /\ UNCHANGED crossed
  BY ReloadLeaves DEF Reload, Happens, Sent
<1>2. \A t \in copies : t \in TaskRec /\ Answers(t, record) /\ OnItsWay(t)
  <2> SUFFICES ASSUME NEW j \in sent
               PROVE  LET t == [task[j] EXCEPT !.job = "loose"]
                      IN  t \in TaskRec /\ Answers(t, record) /\ OnItsWay(t)
    OBVIOUS
  <2> DEFINE t == [task[j] EXCEPT !.job = "loose"]
  <2>1. task[j] \in TaskRec /\ Answers(task[j], record)
    BY JobsAre DEF Talk, Sent
  <2>2. TaskIs(t, "loose", task[j].at, task[j].order, task[j].key, task[j].attempt, task[j].answer)
    BY <2>1, TaskUpdates
  <2> HIDE DEF t
  <2>3. Answers(t, record)
    BY <2>1, <2>2 DEF Answers, TaskIs
  <2>4. t \in TaskRec /\ OnItsWay(t)
    BY <2>2 DEF OnItsWay, TaskIs, Sent
  <2> QED
    BY <2>3, <2>4 DEF t
<1> HIDE DEF copies
<1>3. PageIs(page', FALSE, "idle", NoOrder, "no", NoPhase, NoKey, NoKey)
  BY <1>1, BlankIs
<1>4. \A j \in Job : TaskIs(task'[j], j, "none", NoOrder, NoKey, NoKey, Unsaid)
  BY <1>1, BlankIs
<1>5. Types'
  <2>1. page' \in PageRec /\ task' \in [Job -> TaskRec]
    BY <1>1, BlankIs DEF PageIs
  <2>2. loose' \subseteq TaskRec
    BY <1>1, <1>2 DEF Types
  <2> QED
    BY <1>1, <2>1, <2>2 DEF Types, server, browser
<1>6. Layout'
  <2>3. page'.phase.kind = "none"
    BY <1>3, PhaseFields DEF PageIs
  <2> QED
    BY <1>1, <1>3, <1>4, <2>3, JobsAre DEF Layout, Off, Named, EarlyInv, FlowInv,
       CodeInv, PhaseInv, ResumeInv, Abandoning, PageIs, TaskIs
<1>7. Talk'
  <2>1. \A j \in Job : Answers(task'[j], record)
    BY <1>4, JustAsked DEF At
  <2> QED
    BY <1>1, <1>2, <2>1, TalkSame DEF server
<1>8. Owed'
  BY <1>1 DEF Owed, server
<1> QED
  BY <1>5, <1>6, <1>7, <1>8

LEMMA OpenKeeps ==
  ASSUME LInv, Open
  PROVE  LInv'
<1> USE DEF LInv
<1>1. /\ ~page.on /\ UNCHANGED <<server, browser, left, loose, history, plain>> /\ UNCHANGED crossed
      /\ page = Blank /\ task = NoTasks
  BY DEF Open, Happens, Layout, Off
<1>2. PICK p \in Payment :
        page' = [Blank EXCEPT !.on = TRUE, !.pay = p, !.order = pending,
                              !.resume = IF pending = NoOrder THEN "no" ELSE "reading"]
  BY DEF Open
<1>3. PageIs(page', TRUE, "idle", pending, IF pending = NoOrder THEN "no" ELSE "reading", NoPhase,
             NoKey, NoKey)
  BY <1>2, BlankIs, TypesGive DEF PageIs, PageRec
<1>4. /\ task' \in [Job -> TaskRec]
      /\ \A j \in Job \ {"resume"} : TaskIs(task'[j], j, "none", NoOrder, NoKey, NoKey, Unsaid)
      /\ \/ TaskIs(task'["resume"], "resume", "none", NoOrder, NoKey, NoKey, Unsaid)
         \/ /\ TaskIs(task'["resume"], "resume", "read", pending, NoKey, NoKey, Unsaid)
            /\ pending # NoOrder
  <2>1. CASE pending = NoOrder
    BY <2>1, BlankIs, JobsAre DEF Open
  <2>2. CASE pending # NoOrder
    <3> DEFINE t == Ask(Rest("resume"), "read", pending)
    <3>1. task' = [NoTasks EXCEPT !["resume"] = t]
      BY <2>2, BlankIs, JobsAre DEF Open
    <3>2. TaskIs(t, "resume", "read", pending, NoKey, NoKey, Unsaid)
      <4>1. TaskIs(Rest("resume"), "resume", "none", NoOrder, NoKey, NoKey, Unsaid)
        BY BlankIs, JobsAre
      <4>2. /\ Rest("resume") \in TaskRec /\ Rest("resume").job = "resume"
            /\ Rest("resume").attempt = NoKey
        BY <4>1 DEF TaskIs
      <4>3. "read" \in At /\ pending \in 0..MaxOrders
        BY TypesGive DEF At
      <4> QED
        BY <4>2, <4>3, AskIs
    <3> HIDE DEF t
    <3>3. t \in TaskRec
      BY <3>2 DEF TaskIs
    <3> QED
      BY <2>2, <3>1, <3>2, <3>3, BlankIs, JobsAre
  <2> QED
    BY <2>1, <2>2
<1>5. Types'
  BY <1>1, <1>3, <1>4 DEF Types, PageIs, server, browser, history
<1>6. Layout'
  <2>1. page'.phase.kind = "none"
    BY <1>3, PhaseFields DEF PageIs
  <2> QED
    BY <1>3, <1>4, <2>1, JobsAre DEF Layout, Off, Named, EarlyInv, FlowInv,
       CodeInv, PhaseInv, ResumeInv, Abandoning, PageIs, TaskIs
<1>7. Talk'
  <2>1. \A j \in Job : Answers(task'[j], record)
    BY <1>4, JustAsked DEF At
  <2> QED
    BY <1>1, <2>1, TalkSame DEF server
<1>8. Owed'
  <2>1. page.phase.kind = "none"
    BY <1>1, BlankIs, PhaseFields DEF PageIs
  <2> QED
    BY <1>1, <2>1 DEF Owed, server, history
<1> QED
  BY <1>5, <1>6, <1>7, <1>8

LEMMA ChangeKeeps ==
  ASSUME LInv, Change
  PROVE  LInv'
<1> USE DEF LInv
<1>1. UNCHANGED <<server, pending, task, left, loose, history>> /\ UNCHANGED crossed
  BY DEF Change, Happens
<1>2. /\ cart' \in Cart \cup {NoCart}
      /\ PageIs(page', page.on, page.own, page.order, page.resume, page.phase, page.intent,
                page.attempt)
      /\ ~page.on => page' = page
  BY TypesGive DEF Change, PageIs, PageRec
<1>3. Types'
  BY <1>1, <1>2 DEF Types, PageIs, server, history
<1>4. Layout'
  BY <1>1, <1>2 DEF Layout, Off, Named, EarlyInv, FlowInv,
     CodeInv, PhaseInv, ResumeInv, Abandoning, PageIs
<1>5. Talk'
  BY <1>1, TalkSame DEF server
<1>6. Owed'
  BY <1>1, <1>2 DEF Owed, server, history, PageIs
<1> QED
  BY <1>3, <1>4, <1>5, <1>6

-----------------------------------------------------------------------------
(* What goes on after the page was left *)

LEMMA GoesIs ==
  ASSUME NEW t \in left, NEW u, Goes(t, {u})
  PROVE  left' = (left \ {t}) \cup {u}
BY DEF Goes

(* What a step of a left task may change.                                  *)
LEMMA LeftStepKeeps ==
  ASSUME LInv, UNCHANGED <<status, lapsed, charge, cart, page, task, counts>>,
         KeysStay, record' \in [Key -> RecordRec], pending' \in 0..MaxOrders,
         left' \subseteq TaskRec, loose' \subseteq TaskRec,
         \A t \in left' : t \in left \/ (Answers(t, record') /\ OfPage(t)),
         \A t \in loose' : t \in loose \/ (Answers(t, record') /\ OnItsWay(t)),
         asked' \cup denied' \subseteq Order, owed' \subseteq owed
  PROVE  LInv'
<1> USE DEF LInv
<1>1. Types'
  BY DEF Types, counts
<1>2. Layout'
  BY DEF Layout, Off, Named, EarlyInv, FlowInv, CodeInv, PhaseInv, ResumeInv, Abandoning
<1>3. Talk'
  BY TalkAfter
<1>4. Owed'
  BY DEF Owed
<1> QED
  BY <1>1, <1>2, <1>3, <1>4

(* The four kinds of its steps: it asks again, it hands over a release, it *)
(* ends, or it has a new key.                                              *)
LeftGoes(t) ==
  \/ \E at \in {"abandon", "look"} :
       /\ t.at \notin {"reserve", "drop"} /\ Goes(t, {Ask(t, at, t.order)})
       /\ UNCHANGED <<record, loose, pending, asked, denied>>
  \/ \E o \in 0..MaxOrders : LeftReleases(t, o) /\ (t.at = "place" => o = t.order)
  \/ \E saved \in 0..MaxOrders : LeftEnds(t, saved)
  \/ t.at = "drop" /\ LeftReserves(t)
  \/ t.at = "reserve" /\ Reply(t).is = "held" /\ t.job = "flow" /\ LeftPlaces(t, Reply(t).order)

LEMMA LeftGoesOnIs ==
  ASSUME LInv, NEW t \in left, LeftGoesOn(t, Reply(t).is, Reply(t).order)
  PROVE  LeftGoes(t)
<1>1. t \in TaskRec /\ Answers(t, record) /\ t.order \in 0..MaxOrders /\ pending \in 0..MaxOrders
  BY TypesGive, TaskFields DEF LInv, Talk
<1>2. t.at = "reserve" /\ Reply(t).is = "held" => Reply(t).order \in 0..MaxOrders
  BY <1>1, HeldOrder, Basics DEF LInv
<1>3. NoOrder \in 0..MaxOrders
  BY Basics
<1>4. CASE t.at = "drop" /\ t.cart # NoCart /\ LeftReserves(t)
  BY <1>4 DEF LeftGoes
<1>5. CASE t.at = "reserve" /\ Reply(t).is = "held" /\ t.job = "flow" /\ LeftPlaces(t, Reply(t).order)
  BY <1>5 DEF LeftGoes
<1>6. CASE /\ t.at = "reserve" /\ Reply(t).is = "held" /\ t.job = "early"
           /\ LeftKeeps(t, Reply(t).order)
  BY <1>2, <1>6 DEF LeftGoes, LeftKeeps
<1>7. CASE LeftKeeps(t, t.order) \/ LeftReleases(t, t.order)
  BY <1>1, <1>7 DEF LeftGoes, LeftKeeps
<1>8. CASE LeftEnds(t, pending) \/ LeftEnds(t, t.order)
  BY <1>1, <1>8 DEF LeftGoes
<1>9. CASE t.at = "confirm" /\ LeftAbandons(t)
  BY <1>9 DEF LeftGoes, LeftAbandons
<1>10. CASE /\ t.at = "abandon" /\ Goes(t, {Ask(t, "look", t.order)})
            /\ UNCHANGED <<record, loose, pending, asked, denied>>
  BY <1>10 DEF LeftGoes
<1>11. CASE LeftEnds(t, IF Reply(t).is = "released" THEN NoOrder ELSE pending)
  BY <1>1, <1>3, <1>11 DEF LeftGoes
<1> QED
  BY <1>4, <1>5, <1>6, <1>7, <1>8, <1>9, <1>10, <1>11 DEF LeftGoesOn

(* The page was told of nothing new, or it is handed over.                 *)
LEMMA NothingNewIsOwed ==
  ASSUME LInv, NEW t \in left, LeftGoesOn(t, Reply(t).is, Reply(t).order),
         owed' = (owed \cup Told(t)) \ (asked' \cup {u.order : u \in loose'})
  PROVE  owed' \subseteq owed
<1>1. t \in TaskRec /\ Answers(t, record) /\ t.order \in 0..MaxOrders
  BY TypesGive, TaskFields DEF LInv, Talk
<1>2. \A o \in 0..MaxOrders : Drop(o).order = o
  BY BlankIs DEF TaskIs
<1>3. CASE t.at = "reserve" /\ Reply(t).is = "held"
  <2>1. Told(t) = {Reply(t).order} /\ Reply(t).order \in 0..MaxOrders
    BY <1>1, <1>3, HeldOrder, Basics DEF Told, LInv
  <2>2. LeftPlaces(t, Reply(t).order) \/ LeftKeeps(t, Reply(t).order)
    BY <1>3 DEF LeftGoesOn
  <2>3. Reply(t).order \in asked' \cup {u.order : u \in loose'}
    <3>1. CASE LeftPlaces(t, Reply(t).order)
      BY <3>1 DEF LeftPlaces
    <3>2. CASE LeftKeeps(t, Reply(t).order)
      <4>1. Drop(Reply(t).order) \in loose'
        BY <3>2 DEF LeftKeeps, LeftReleases
      <4> QED
        BY <4>1, <1>2, <2>1
    <3> QED
      BY <2>2, <3>1, <3>2
  <2> QED
    BY <2>1, <2>3
<1>4. CASE t.at = "place" /\ Reply(t).is \in {"cardless", "method"}
  <2>1. Told(t) = {t.order}
    BY <1>4 DEF Told
  <2>2. LeftKeeps(t, t.order)
    BY <1>4 DEF LeftGoesOn
  <2>3. Drop(t.order) \in loose' /\ Drop(t.order).order = t.order
    BY <1>1, <1>2, <2>2 DEF LeftKeeps, LeftReleases
  <2> QED
    BY <2>1, <2>3
<1>5. CASE ~(t.at = "reserve" /\ Reply(t).is = "held")
           /\ ~(t.at = "place" /\ Reply(t).is \in {"cardless", "method"})
  <2>1. t.at # "place" => Reply(t).is \notin {"cardless", "method"}
    BY <1>1, RepliesNeverWait, RepliesAre DEF Answers, At, Replies, PlaceKinds
  <2>2. t.at # "reserve" => Reply(t).is # "held"
    <3>1. CASE t.at = "place"
      BY <3>1 DEF LeftGoesOn
    <3>2. CASE t.at \notin {"place", "reserve"}
      BY <1>1, <3>2, RepliesNeverWait DEF Answers, Replies, PlaceKinds
    <3> QED
      BY <3>1, <3>2
  <2>3. Told(t) = {}
    BY <1>5, <2>1, <2>2 DEF Told
  <2> QED
    BY <2>3
<1> QED
  BY <1>3, <1>4, <1>5

LEMMA LeftGoesKeeps ==
  ASSUME LInv, NEW t \in left, LeftGoes(t), owed' \subseteq owed,
         UNCHANGED <<status, lapsed, charge, cart, page, task, counts>>
  PROVE  LInv'
<1> USE DEF LInv
<1>1. /\ t \in TaskRec /\ Answers(t, record) /\ OfPage(t) /\ t.order \in 0..MaxOrders
      /\ pending \in 0..MaxOrders /\ record \in [Key -> RecordRec]
      /\ left \subseteq TaskRec /\ loose \subseteq TaskRec /\ asked \cup denied \subseteq Order
      /\ t.attempt \in 0..MaxKeys
  BY TypesGive, TaskFields DEF Talk, Types
<1>2. record' = record => KeysStay
  BY DEF KeysStay
<1>3. ASSUME NEW at \in {"abandon", "look"}, t.at \notin {"reserve", "drop"},
             Goes(t, {Ask(t, at, t.order)}), UNCHANGED <<record, loose, pending, asked, denied>>
      PROVE  LInv'
  <2> DEFINE u == Ask(t, at, t.order)
  <2>1. TaskIs(u, t.job, at, t.order, NoKey, t.attempt, Unsaid)
    BY <1>1, AskIs DEF At
  <2> HIDE DEF u
  <2>2. u \in TaskRec /\ Answers(u, record') /\ OfPage(u)
    BY <1>1, <2>1, JustAsked DEF At, OfPage, TaskIs
  <2>3. left' = (left \ {t}) \cup {u}
    BY <1>3 DEF Goes, u
  <2> QED
    BY <1>1, <1>2, <1>3, <2>2, <2>3, LeftStepKeeps
<1>4. ASSUME NEW o \in 0..MaxOrders, LeftReleases(t, o), t.at = "place" => o = t.order
      PROVE  LInv'
  <2>1. TaskIs(Drop(o), "loose", "drop", o, NoKey, NoKey, Unsaid)
    BY BlankIs
  <2>2. Drop(o) \in TaskRec /\ Answers(Drop(o), record') /\ OnItsWay(Drop(o))
    BY <2>1, JustAsked DEF At, OnItsWay, TaskIs
  <2>3. /\ left' = left \ {t} /\ loose' = loose \cup {Drop(o)} /\ record' = record
        /\ pending' = pending
        /\ IF t.at = "place" THEN Denies(o, Reply(t).is) ELSE UNCHANGED <<asked, denied>>
    BY <1>4 DEF LeftReleases, Goes
  <2>4. asked' \cup denied' \subseteq Order
    BY <1>1, <1>4, <2>3, Basics, DeniesIs DEF Answers
  <2> QED
    BY <1>1, <1>2, <2>2, <2>3, <2>4, LeftStepKeeps
<1>5. ASSUME NEW saved \in 0..MaxOrders, LeftEnds(t, saved)
      PROVE  LInv'
  <2>1. /\ left' = left \ {t} /\ loose' = loose /\ record' = record
        /\ pending' = saved /\ asked' = asked /\ denied' = denied
    BY <1>5 DEF LeftEnds, Goes
  <2> QED
    BY <1>1, <1>2, <2>1, LeftStepKeeps
<1>6. ASSUME t.at = "drop", LeftReserves(t)
      PROVE  LInv'
  <2> DEFINE u == AskWith(t, "reserve", NoOrder, NewKey)
  <2>1. Takes(NoKey) /\ UNCHANGED <<loose, pending, asked, denied>> /\ left' = (left \ {t}) \cup {u}
    BY <1>6 DEF LeftReserves, Goes
  <2>2. KeysStay /\ record' \in [Key -> RecordRec] /\ NewKey \in Key
    BY <2>1, KeysStayBy, KeyIsTaken, TheNewKey, Basics
  <2>3. TaskIs(u, t.job, "reserve", NoOrder, NewKey, t.attempt, Unsaid)
    BY <1>1, <2>2, AskIs, Basics DEF At
  <2> HIDE DEF u
  <2>4. Answers(u, record')
    BY <2>2, <2>3, Basics, JustAsked DEF At
  <2>5. u \in TaskRec /\ OfPage(u)
    BY <1>1, <1>6, <2>3 DEF OfPage, TaskIs
  <2> QED
    BY <1>1, <2>1, <2>2, <2>4, <2>5, LeftStepKeeps
<1>7. ASSUME t.at = "reserve", Reply(t).is = "held", LeftPlaces(t, Reply(t).order)
      PROVE  LInv'
  <2> DEFINE o == Reply(t).order
             k == KeyFrom(t.attempt)
             u == AskWith(t, "place", o, k)
  <2>1. /\ Takes(t.attempt) /\ UNCHANGED <<loose, pending>> /\ left' = (left \ {t}) \cup {u}
        /\ asked' = asked \cup {o} /\ denied' = denied \ {o}
    BY <1>7 DEF LeftPlaces, Goes
  <2>2. KeysStay /\ record' \in [Key -> RecordRec] /\ k \in Key
    BY <1>1, <2>1, KeysStayBy, KeyIsTaken
  <2>3. o \in Order /\ o # NoOrder /\ o \in 0..MaxOrders
    BY <1>1, <1>7, HeldOrder, Basics
  <2> HIDE DEF k, o
  <2>4. TaskIs(u, t.job, "place", o, k, t.attempt, Unsaid)
    BY <1>1, <2>2, <2>3, AskIs, Basics DEF At
  <2> HIDE DEF u
  <2>5. Answers(u, record')
    BY <2>2, <2>3, <2>4, Basics, JustAsked DEF At
  <2>6. u \in TaskRec /\ OfPage(u)
    BY <1>1, <1>7, <2>4 DEF OfPage, TaskIs
  <2> QED
    BY <1>1, <2>1, <2>2, <2>3, <2>5, <2>6, LeftStepKeeps
<1> QED
  BY <1>3, <1>4, <1>5, <1>6, <1>7 DEF LeftGoes

LEMMA HearLeftKeeps ==
  ASSUME LInv, NEW t \in left, HearLeft(t)
  PROVE  LInv'
<1>1. CASE LeftFinishes(t)
  <2>1. /\ cart' = NoCart /\ pending' = NoOrder /\ UNCHANGED <<server, asked, denied, plain, counts>>
        /\ cart' \in Cart \cup {NoCart} /\ pending' \in 0..MaxOrders
    BY <1>1, Basics DEF LeftFinishes
  <2>2. CASE page.on
    <3>1. AtTheEnd(task) /\ Unmount(task, left \ {t}) /\ crossed' \in Nat
      BY <1>1, <2>1, <2>2 DEF AtTheEnd, LeftFinishes, LInv, Types, counts
    <3> QED
      BY <2>1, <3>1, UnmountKeeps
  <2>3. CASE ~page.on
    <3>1. left' = left \ {t} /\ UNCHANGED <<page, task, loose, owed>>
      BY <1>1, <2>3 DEF LeftFinishes, Goes
    <3>2. Types'
      BY <2>1, <3>1 DEF LInv, Types, server, counts
    <3>3. Layout'
      BY <3>1 DEF LInv, Layout, Off, Named, EarlyInv, FlowInv, CodeInv, PhaseInv, ResumeInv, Abandoning
    <3>4. Talk'
      BY <2>1, <3>1, TalkSame DEF LInv, server
    <3>5. Owed'
      BY <2>1, <3>1 DEF LInv, Owed, server
    <3> QED
      BY <3>2, <3>3, <3>4, <3>5 DEF LInv
  <2> QED
    BY <2>2, <2>3
<1>2. CASE /\ LeftGoesOn(t, Reply(t).is, Reply(t).order)
           /\ owed' = (owed \cup Told(t)) \ (asked' \cup {u.order : u \in loose'})
           /\ UNCHANGED <<status, lapsed, charge, cart, page, task, plain, counts>>
  BY <1>2, LeftGoesOnIs, NothingNewIsOwed, LeftGoesKeeps
<1> QED
  BY <1>1, <1>2 DEF HearLeft

-----------------------------------------------------------------------------
(* The servers *)

LEMMA BodyFields ==
  /\ \A o, content : Body(o, content).order = o /\ Body(o, content).content = content
  /\ \A o \in 0..MaxOrders, content \in Content :
       Body(o, content) \in [order : 0..MaxOrders, content : Content]
  /\ FreeKey \in RecordRec /\ FreeKey.state = "free" /\ FreeKey.answer.is = "none"
  /\ Stored(FreeKey)
BY Basics, FreeKeyIsStored DEF Body, FreeKey, RecordRec, Content, Said, Unsaid, Answer, Kind

LEMMA StoresIs ==
  ASSUME Types, NEW k \in Key, NEW o \in 0..MaxOrders, NEW content \in Content, NEW a \in Answer,
         Stores(k, Body(o, content), a)
  PROVE  /\ record' \in [Key -> RecordRec]
         /\ \A i \in Key : i # k => record'[i] = record[i]
         /\ record'[k] \in RecordRec
         /\ record'[k].state = "done" /\ record'[k].body.order = o /\ record'[k].answer = a
         /\ record'[k].body = Body(o, content)
<1> DEFINE r == [state |-> "done", body |-> Body(o, content), answer |-> a]
<1>1. r \in RecordRec /\ r.state = "done" /\ r.body.order = o /\ r.answer = a
      /\ r.body = Body(o, content)
  BY BodyFields DEF RecordRec
<1>2. record' = [record EXCEPT ![k] = r]
  BY DEF Stores
<1> HIDE DEF r
<1> QED
  BY <1>1, <1>2 DEF Types

(* What a key that was free, or that a placement had, keeps of the others. *)
HoldsStay ==
  /\ record' \in [Key -> RecordRec]
  /\ \A k \in Key, o \in 0..MaxOrders : Holds(record, k, o) => Holds(record', k, o)
  /\ \A k \in Key : Stored(record'[k])

LEMMA OneRecordChanges ==
  ASSUME Types, Talk, NEW k \in Key, record[k].answer.is = "none",
         record' \in [Key -> RecordRec], \A i \in Key : i # k => record'[i] = record[i],
         Stored(record'[k])
  PROVE  HoldsStay
BY SaidFields DEF HoldsStay, Holds, Talk

LEMMA TalkOfServer ==
  ASSUME Types, Talk, HoldsStay,
         \A j \in Job : task'[j] = task[j] \/ Answers(task'[j], record'),
         \A t \in left' : t \in left \/ (Answers(t, record') /\ OfPage(t)),
         \A t \in loose' : t \in loose \/ (Answers(t, record') /\ OnItsWay(t))
  PROVE  Talk'
<1>1. ASSUME NEW t \in Tasks
      PROVE  Answers(t, record')
  <2>1. t \in TaskRec /\ Answers(t, record)
    BY TasksAre, TypesGive, JobsAre DEF Talk
  <2>2. CASE t.answer.is = "held"
    <3>1. t.key # NoKey
      BY <2>1, <2>2, TaskFields DEF Answers, Replies, PlaceKinds
    <3>2. t.key \in Key /\ t.answer.order \in 0..MaxOrders
      BY <2>1, <3>1, Basics, TaskFields, SaidFields
    <3>3. Holds(record', t.key, t.answer.order)
      BY <2>1, <2>2, <3>2 DEF Answers, HoldsStay
    <3> QED
      BY <2>1, <3>3 DEF Answers
  <2>3. CASE t.answer.is # "held"
    BY <2>1, <2>3 DEF Answers
  <2> QED
    BY <2>2, <2>3
<1>2. \A t \in Tasks : Answers(t, record')
  BY <1>1
<1>3. \A k \in Key : Stored(record'[k])
  BY DEF HoldsStay
<1>4. \A j \in Job : Answers(task'[j], record')
  BY <1>2, TaskIsAmong
<1>5. \A t \in left' : Answers(t, record') /\ OfPage(t)
  BY <1>2, TaskIsAmong DEF Talk
<1>6. \A t \in loose' : Answers(t, record') /\ OnItsWay(t)
  BY <1>2, TaskIsAmong DEF Talk
<1> QED
  BY <1>3, <1>4, <1>5, <1>6 DEF Talk

(* The answer fits the request.                                            *)
Fits(t, ans) ==
  /\ ans \in Answer /\ ans.is \in Replies(t.at) /\ ans.is # "none"
  /\ ans.is = "held" => Holds(record', t.key, ans.order)

ServerTypes == status' \in [Order -> Status] /\ charge' \in [Order -> ChargeRec]

LEMMA ReservesIs ==
  ASSUME Types, Talk, NEW t \in TaskRec, t.at = "reserve", t.key # NoKey, NEW ans \in Answer,
         Reserves(t.key, t.cart, ans)
  PROVE  ServerTypes /\ lapsed' = lapsed /\ HoldsStay /\ Fits(t, ans)
<1> DEFINE k == t.key
<1>1. k \in Key /\ t.cart \in Content /\ NoOrder \in 0..MaxOrders /\ Stored(record[k])
      /\ record[k].answer \in Answer /\ record[k].state \in {"free", "busy", "done"}
  BY Basics, TaskFields, TypesGive DEF Content, Talk, RecordRec
<1>2. CASE Repeats(k, Body(NoOrder, t.cart), ans)
  <2>1. HoldsStay /\ UNCHANGED server
    BY <1>2 DEF Repeats, server, HoldsStay, Talk, Types
  <2>2. ServerTypes /\ lapsed' = lapsed
    BY <2>1 DEF server, ServerTypes, Types
  <2>3. CASE record[k].body # Body(NoOrder, t.cart)
    BY <1>2, <2>1, <2>2, <2>3, BodyFields, SaidFields, RepliesAre DEF Repeats, Fits
  <2>4. CASE record[k].body = Body(NoOrder, t.cart)
    <3>1. record[k].body.order = NoOrder /\ record[k] # FreeKey
      BY <1>2, <2>4, BodyFields DEF Repeats
    <3>2. record[k].state = "done" /\ ans = record[k].answer /\ ans.is \in {"held", "refused"}
      BY <1>1, <1>2, <2>4, <3>1 DEF Repeats, Stored
    <3>3. ans = Said(ans.is, ans.order)
      BY SaidFields
    <3> QED
      BY <2>1, <2>2, <3>2, <3>3, RepliesAre DEF Fits, Holds, server
  <2> QED
    BY <2>1, <2>2, <2>3, <2>4
<1>3. CASE /\ record[k] = FreeKey /\ Stores(k, Body(NoOrder, t.cart), ans)
           /\ UNCHANGED <<lapsed, charge>>
           /\ \/ \E o \in Order : Opened(o) /\ ans = Said("held", o)
              \/ UNCHANGED status /\ ans = Said("refused", NoOrder)
  <2>1. /\ record' \in [Key -> RecordRec] /\ \A i \in Key : i # k => record'[i] = record[i]
        /\ record'[k].state = "done" /\ record'[k].body.order = NoOrder /\ record'[k].answer = ans
    BY <1>1, <1>3, StoresIs
  <2>2. \/ \E o \in Order : ans = Said("held", o)
        \/ ans = Said("refused", NoOrder)
    BY <1>3
  <2>3. Stored(record'[k])
    BY <2>1, <2>2, SaidFields, Basics DEF Stored
  <2>4. HoldsStay
    BY <1>1, <1>3, <2>1, <2>3, BodyFields, OneRecordChanges
  <2>5. ServerTypes /\ lapsed' = lapsed
    BY <1>3 DEF ServerTypes, Types, Opened, Status
  <2>6. Fits(t, ans)
    BY <2>1, <2>2, SaidFields, RepliesAre DEF Fits, Holds
  <2> QED
    BY <2>4, <2>5, <2>6
<1> QED
  BY <1>2, <1>3 DEF Reserves

LEMMA PlacesIs ==
  ASSUME Types, Talk, NEW t \in TaskRec, t.at = "place", t.key # NoKey, t.order # NoOrder,
         NEW ans \in Answer, Places(t.key, t.order, t.pay, ans)
  PROVE  ServerTypes /\ lapsed' = lapsed /\ HoldsStay /\ Fits(t, ans)
<1> DEFINE k == t.key
           o == t.order
<1>1. /\ k \in Key /\ t.pay \in Content /\ t.pay \in Payment /\ o \in Order /\ o \in 0..MaxOrders
      /\ Stored(record[k]) /\ record[k] \in RecordRec /\ k \in 0..MaxKeys
      /\ record[k].answer \in Answer /\ record[k].state \in {"free", "busy", "done"}
  BY Basics, TaskFields, TypesGive DEF Content, Talk, RecordRec
<1>2. CASE Repeats(k, Body(o, t.pay), ans)
  <2>1. HoldsStay /\ UNCHANGED server
    BY <1>2 DEF Repeats, server, HoldsStay, Talk, Types
  <2>2. ServerTypes /\ lapsed' = lapsed
    BY <2>1 DEF server, ServerTypes, Types
  <2>3. CASE record[k].body # Body(o, t.pay)
    BY <1>2, <2>1, <2>2, <2>3, BodyFields, SaidFields, RepliesAre DEF Repeats, Fits, PlaceKinds
  <2>4. CASE record[k].body = Body(o, t.pay)
    <3>1. record[k].body.order # NoOrder /\ record[k] # FreeKey
      BY <1>2, <2>4, BodyFields DEF Repeats
    <3>2. ans.is \in PlaceKinds
      <4>1. CASE record[k].state = "busy"
        BY <1>2, <2>4, <4>1, SaidFields DEF Repeats, PlaceKinds
      <4>2. CASE record[k].state = "done"
        BY <1>1, <1>2, <2>4, <3>1, <4>2 DEF Repeats, Stored
      <4> QED
        BY <1>1, <3>1, <4>1, <4>2 DEF Stored
    <3> QED
      BY <2>1, <2>2, <3>2, RepliesAre DEF Fits, PlaceKinds
  <2> QED
    BY <2>3, <2>4
<1>3. CASE record[k] = FreeKey /\ UNCHANGED lapsed /\ Begins(k, o, t.pay) /\ ans = Said("wait", o)
  <2> DEFINE r == [FreeKey EXCEPT !.state = "busy", !.body = Body(o, t.pay)]
  <2>1. /\ r \in RecordRec /\ r.state = "busy" /\ r.body.order = o /\ r.answer.is = "none"
    BY <1>1, BodyFields DEF RecordRec
  <2>2. record' = [record EXCEPT ![k] = r]
    BY <1>3 DEF Begins
  <2> HIDE DEF r
  <2>3. /\ record' \in [Key -> RecordRec] /\ \A i \in Key : i # k => record'[i] = record[i]
        /\ record'[k] = r
    BY <1>1, <2>1, <2>2 DEF Types
  <2>4. Stored(record'[k])
    BY <1>1, <2>1, <2>3 DEF Stored
  <2>5. HoldsStay
    BY <1>1, <1>3, <2>3, <2>4, BodyFields, OneRecordChanges
  <2>6. ServerTypes
    BY <1>1, <1>3 DEF Begins, ServerTypes, Types, Status, ChargeRec
  <2>7. Fits(t, ans)
    BY <1>3, SaidFields, RepliesAre DEF Fits, PlaceKinds
  <2> QED
    BY <1>3, <2>5, <2>6, <2>7
<1>4. CASE /\ record[k] = FreeKey /\ UNCHANGED <<status, lapsed, charge>>
           /\ ans.order = o /\ ans.is \in Refusals(o, t.pay)
           /\ Stores(k, Body(o, t.pay), ans)
  <2>1. /\ record' \in [Key -> RecordRec] /\ \A i \in Key : i # k => record'[i] = record[i]
        /\ record'[k].state = "done" /\ record'[k].body.order = o /\ record'[k].answer = ans
    BY <1>1, <1>4, StoresIs
  <2>2. ans.is \in {"error", "unknown"}
    BY <1>4 DEF Refusals
  <2>3. Stored(record'[k])
    BY <2>1, <2>2 DEF Stored, PlaceKinds
  <2>4. HoldsStay
    BY <1>1, <1>4, <2>1, <2>3, BodyFields, OneRecordChanges
  <2>5. ServerTypes /\ lapsed' = lapsed
    BY <1>4 DEF ServerTypes, Types
  <2>6. Fits(t, ans)
    BY <2>2, RepliesAre DEF Fits, PlaceKinds
  <2> QED
    BY <2>4, <2>5, <2>6
<1> QED
  BY <1>2, <1>3, <1>4 DEF Places

LEMMA ConfirmsIs ==
  ASSUME Types, Talk, NEW t \in TaskRec, t.at = "confirm", NEW ans \in AnswersAbout(t.order),
         Confirms(t.order, ans)
  PROVE  ServerTypes /\ lapsed' = lapsed /\ HoldsStay /\ Fits(t, ans)
<1>1. ans \in Answer /\ ans.is \in {"paid", "wrong", "error"}
  BY SaidFields, TaskFields DEF Confirms
<1>2. Fits(t, ans)
  BY <1>1, RepliesAre DEF Fits
<1>3. ServerTypes /\ lapsed' = lapsed
  BY DEF Confirms, ServerTypes, Types, Status
<1>4. HoldsStay
  BY DEF Confirms, HoldsStay, Talk, Types, Holds
<1> QED
  BY <1>2, <1>3, <1>4

LEMMA ReleasesIs ==
  ASSUME Types, Talk, NEW t \in TaskRec, t.at \in {"drop", "undo", "abandon"},
         NEW ans \in AnswersAbout(t.order), Releases(t.order, ans)
  PROVE  ServerTypes /\ lapsed' = lapsed /\ HoldsStay /\ Fits(t, ans)
<1>1. ans \in Answer /\ ans.is \in {"released", "progress", "open"}
  BY SaidFields, TaskFields DEF Releases
<1>2. Fits(t, ans)
  BY <1>1, RepliesAre DEF Fits
<1>3. ServerTypes /\ lapsed' = lapsed
  BY DEF Releases, ServerTypes, Types, Status
<1>4. HoldsStay
  BY DEF Releases, HoldsStay, Talk, Types, Holds
<1> QED
  BY <1>2, <1>3, <1>4

LEMMA ShowsIs ==
  ASSUME Types, Talk, NEW t \in TaskRec, t.at \in {"look", "read"},
         NEW ans \in AnswersAbout(t.order), Shows(t.order, ans)
  PROVE  ServerTypes /\ lapsed' = lapsed /\ HoldsStay /\ Fits(t, ans)
<1>1. ans \in Answer /\ ans.is \in {"paid", "review", "challenge", "open", "unknown", "gone"}
  BY SaidFields, TaskFields DEF Shows
<1>2. Fits(t, ans)
  BY <1>1, RepliesAre DEF Fits
<1>3. UNCHANGED server
  BY DEF Shows
<1>4. ServerTypes /\ lapsed' = lapsed /\ HoldsStay
  BY <1>3 DEF server, ServerTypes, HoldsStay, Talk, Types, Holds
<1> QED
  BY <1>2, <1>4

LEMMA HandlesIs ==
  ASSUME Types, Talk, NEW t \in TaskRec, Answers(t, record), NEW ans \in AnswersTo(t),
         Handles(t, ans)
  PROVE  ServerTypes /\ lapsed' = lapsed /\ HoldsStay /\ Fits(t, ans)
<1>1. CASE t.at = "reserve"
  BY <1>1, ReservesIs DEF Handles, AnswersTo, Answers
<1>2. CASE t.at = "place"
  <2>1. ans \in Answer /\ t.order # NoOrder /\ t.key # NoKey
    BY <1>2, SaidFields, TaskFields DEF AnswersTo, Answers
  <2> QED
    BY <1>2, <2>1, PlacesIs DEF Handles
<1>3. CASE t.at = "confirm"
  BY <1>3, ConfirmsIs DEF Handles, AnswersTo
<1>4. CASE t.at \in {"drop", "undo", "abandon"}
  BY <1>4, ReleasesIs DEF Handles, AnswersTo
<1>5. CASE t.at \in {"look", "read"}
  BY <1>5, ShowsIs DEF Handles, AnswersTo
<1> QED
  BY <1>1, <1>2, <1>3, <1>4, <1>5 DEF Handles

LEMMA AnswerIsHeard ==
  ASSUME NEW t \in TaskRec, NEW ans, Answers(t, record), Fits(t, ans)
  PROVE  LET u == [t EXCEPT !.answer = ans]
         IN  /\ TaskIs(u, t.job, t.at, t.order, t.key, t.attempt, ans)
             /\ Answers(u, record')
             /\ OfPage(t) => OfPage(u)
<1> DEFINE u == [t EXCEPT !.answer = ans]
<1>1. TaskIs(u, t.job, t.at, t.order, t.key, t.attempt, ans)
  BY TaskUpdates DEF Fits
<1> HIDE DEF u
<1>2. Answers(u, record')
  BY <1>1 DEF TaskIs, Answers, Fits, Holds
<1>3. OfPage(t) => OfPage(u)
  BY <1>1 DEF TaskIs, OfPage
<1> QED
  BY <1>1, <1>2, <1>3 DEF u

(* What the servers do while the page waits leaves the page what it is.    *)
LEMMA ServerKeeps ==
  ASSUME LInv, ServerTypes, HoldsStay, lapsed \subseteq lapsed', lapsed' \subseteq Order,
         task' \in [Job -> TaskRec], left' \subseteq TaskRec, loose' \subseteq TaskRec,
         UNCHANGED <<browser, page, history>>, crossed' \in Nat,
         \A j \in Job : /\ task'[j].job = task[j].job /\ task'[j].at = task[j].at
                        /\ task'[j].attempt = task[j].attempt
                        /\ task'[j] = task[j] \/ (Answers(task'[j], record') /\ page.on),
         \A t \in left' : t \in left \/ (Answers(t, record') /\ OfPage(t)),
         \A t \in loose' : t \in loose \/ (Answers(t, record') /\ OnItsWay(t))
  PROVE  LInv'
<1>1. Types'
  BY DEF LInv, Types, ServerTypes, HoldsStay, browser, history
<1>2. Layout'
  <2>1. Off'
    <3>1. ASSUME ~page.on
          PROVE  task' = task
      <4>1. \A j \in Job : task'[j] = task[j]
        BY <3>1
      <4> QED
        BY <4>1 DEF LInv, Types
    <3> QED
      BY <3>1 DEF LInv, Layout, Off
  <2>2. Named'
    BY DEF LInv, Layout, Named
  <2>3. EarlyInv'
    BY JobsAre DEF LInv, Layout, EarlyInv
  <2>4. FlowInv'
    BY JobsAre DEF LInv, Layout, FlowInv
  <2>5. CodeInv'
    BY JobsAre DEF LInv, Layout, CodeInv
  <2>6. PhaseInv'
    BY JobsAre DEF LInv, Layout, PhaseInv, Abandoning
  <2>7. ResumeInv'
    BY JobsAre DEF LInv, Layout, ResumeInv
  <2> QED
    BY <2>1, <2>2, <2>3, <2>4, <2>5, <2>6, <2>7 DEF Layout
<1>3. Talk'
  BY TalkOfServer DEF LInv
<1>4. Owed'
  BY DEF LInv, Owed, history
<1> QED
  BY <1>1, <1>2, <1>3, <1>4 DEF LInv

LEMMA NoStale ==
  ASSUME page \in PageRec
  PROVE  page.stale = {} /\ [page EXCEPT !.stale = {}] = page
BY DEF PageRec

LEMMA ServeLeavesPage ==
  ASSUME Types, Serve
  PROVE  page' = page
<1>1. page.stale = {} /\ \A t, ans : page' = [page EXCEPT !.stale = WithAnswer(@, t, ans)] => page' = page
  BY NoStale DEF Types, WithAnswer
<1> QED
  BY <1>1 DEF Serve

LEMMA ServeKeeps ==
  ASSUME LInv, Serve
  PROVE  LInv'
<1>0. UNCHANGED <<browser, history>> /\ crossed' = crossed /\ crossed \in Nat
      /\ task \in [Job -> TaskRec] /\ left \subseteq TaskRec /\ loose \subseteq TaskRec
      /\ lapsed \subseteq Order /\ Types /\ Talk
  BY DEF Serve, counts, LInv, Types
<1>1. ASSUME NEW j \in Job, task[j].at # "none", NEW ans \in AnswersTo(task[j]),
             Handles(task[j], ans), task' = [task EXCEPT ![j].answer = ans],
             UNCHANGED <<page, left, loose>>
      PROVE  LInv'
  <2> DEFINE u == [task[j] EXCEPT !.answer = ans]
  <2>1. task[j] \in TaskRec /\ Answers(task[j], record)
    BY <1>0 DEF Talk
  <2>2. ServerTypes /\ lapsed' = lapsed /\ HoldsStay /\ Fits(task[j], ans)
    BY <1>0, <1>1, <2>1, HandlesIs
  <2>3. /\ TaskIs(u, task[j].job, task[j].at, task[j].order, task[j].key, task[j].attempt, ans)
        /\ Answers(u, record')
    BY <2>1, <2>2, AnswerIsHeard
  <2>4. task' = [task EXCEPT ![j] = u]
    BY <1>1
  <2>5. page.on
    BY <1>1, BlankIs DEF LInv, Layout, Off, TaskIs
  <2> HIDE DEF u
  <2>6. OnlyTask(j, u)
    BY <1>0, <2>3, <2>4, OneTask DEF TaskIs
  <2>7. \A i \in Job : /\ task'[i].job = task[i].job /\ task'[i].at = task[i].at
                       /\ task'[i].attempt = task[i].attempt
                       /\ task'[i] = task[i] \/ (Answers(task'[i], record') /\ page.on)
    BY <2>3, <2>5, <2>6 DEF OnlyTask, TaskIs
  <2>8. task' \in [Job -> TaskRec]
    BY <2>6 DEF OnlyTask
  <2> QED
    BY <1>0, <1>1, <2>2, <2>7, <2>8, ServerKeeps
<1>2. ASSUME NEW t \in left, NEW ans \in AnswersTo(t), Handles(t, ans),
             left' = WithAnswer(left, t, ans), page' = page, UNCHANGED <<task, loose>>
      PROVE  LInv'
  <2> DEFINE u == [t EXCEPT !.answer = ans]
  <2>1. t \in TaskRec /\ Answers(t, record) /\ OfPage(t)
    BY <1>0 DEF Talk
  <2>2. ServerTypes /\ lapsed' = lapsed /\ HoldsStay /\ Fits(t, ans)
    BY <1>0, <1>2, <2>1, HandlesIs
  <2>3. u \in TaskRec /\ Answers(u, record') /\ OfPage(u)
    BY <2>1, <2>2, AnswerIsHeard DEF TaskIs
  <2>4. left' = (left \ {t}) \cup {u}
    BY <1>2 DEF WithAnswer
  <2> HIDE DEF u
  <2>5. left' \subseteq TaskRec /\ \A v \in left' : v \in left \/ (Answers(v, record') /\ OfPage(v))
    BY <1>0, <2>3, <2>4
  <2> QED
    BY <1>0, <1>2, <2>2, <2>5, ServerKeeps
<1>3. ASSUME NEW t \in loose, NEW ans \in AnswersTo(t), Handles(t, ans), loose' = loose \ {t},
             UNCHANGED <<page, task, left>>
      PROVE  LInv'
  <2>1. t \in TaskRec /\ Answers(t, record)
    BY <1>0 DEF Talk
  <2>2. ServerTypes /\ lapsed' = lapsed /\ HoldsStay
    BY <1>0, <1>3, <2>1, HandlesIs
  <2> QED
    BY <1>0, <1>3, <2>2, ServerKeeps
<1>4. page' = page /\ \A t \in left \cup page.stale : t \in left
  BY <1>0, NoStale, ServeLeavesPage DEF Types
<1> QED
  BY <1>1, <1>2, <1>3, <1>4 DEF Serve

LEMMA KeyIsFreed ==
  ASSUME Types, Talk, NEW k \in Key, record[k].state = "busy",
         record' = [record EXCEPT ![k] = FreeKey]
  PROVE  HoldsStay
<1>1. FreeKey \in RecordRec /\ Stored(FreeKey) /\ record[k].answer.is = "none"
  BY BodyFields DEF Talk, Stored
<1>2. /\ record' \in [Key -> RecordRec] /\ \A i \in Key : i # k => record'[i] = record[i]
      /\ record'[k] = FreeKey
  BY <1>1 DEF Types
<1> QED
  BY <1>1, <1>2, OneRecordChanges

LEMMA RecordStays ==
  ASSUME Types, Talk, record' = record
  PROVE  HoldsStay
BY DEF HoldsStay, Holds, Talk, Types

LEMMA AwaitedKey ==
  ASSUME Types, NEW o \in Order, Awaited(o)
  PROVE  /\ charge[o].key \in Key /\ record[charge[o].key].state = "busy"
         /\ record[charge[o].key].body.order = o
BY Basics DEF Awaited, Running, Types, ChargeRec

LEMMA KeyOfCharge ==
  ASSUME Types, NEW o \in Order, charge' = [charge EXCEPT ![o].key = NoKey]
  PROVE  charge' \in [Order -> ChargeRec]
BY Basics DEF Types, ChargeRec

LEMMA DecidesIs ==
  ASSUME Types, Talk, NEW o \in Order, Decides(o)
  PROVE  ServerTypes /\ lapsed' = lapsed /\ HoldsStay
<1>1. PICK what \in Outcomes(o) :
        /\ status' = [status EXCEPT ![o] = IF @ = "closed" THEN @ ELSE After(what)]
        /\ IF Awaited(o) THEN Stores(charge[o].key, Body(o, charge[o].payment), Said(what, o))
                         ELSE UNCHANGED record
  BY DEF Decides
<1>2. what \in {"paid", "review", "error", "challenge", "cardless", "method"}
  BY DEF Outcomes
<1>3. After(what) \in Status
  BY <1>2 DEF After, Status
<1>4. ServerTypes /\ lapsed' = lapsed
  BY <1>1, <1>3, KeyOfCharge DEF Decides, ServerTypes, Types
<1>5. CASE ~Awaited(o)
  BY <1>1, <1>4, <1>5, RecordStays
<1>6. CASE Awaited(o)
  <2> DEFINE k == charge[o].key
             ans == Said(what, o)
  <2>1. k \in Key /\ record[k].state = "busy" /\ record[k].answer.is = "none"
    BY <1>6, AwaitedKey DEF Talk, Stored
  <2>2. o \in 0..MaxOrders /\ charge[o].payment \in Content /\ ans \in Answer /\ ans.is = what
    BY <1>2, Basics, SaidFields DEF Content, Types, ChargeRec, Kind
  <2>3. Stores(k, Body(o, charge[o].payment), ans)
    BY <1>1, <1>6
  <2> HIDE DEF k, ans
  <2>4. /\ record' \in [Key -> RecordRec] /\ \A i \in Key : i # k => record'[i] = record[i]
        /\ record'[k].state = "done" /\ record'[k].body.order = o /\ record'[k].answer = ans
    BY <2>1, <2>2, <2>3, StoresIs
  <2>5. Stored(record'[k])
    BY <1>2, <2>2, <2>4, Basics DEF Stored, PlaceKinds
  <2>6. HoldsStay
    BY <2>1, <2>4, <2>5, OneRecordChanges
  <2> QED
    BY <1>4, <2>6
<1> QED
  BY <1>5, <1>6

LEMMA ServerDecidesKeeps ==
  ASSUME LInv, ServerDecides
  PROVE  LInv'
<1>1. ServerTypes /\ lapsed' = lapsed /\ HoldsStay
  BY DecidesIs DEF ServerDecides, LInv
<1>2. UNCHANGED <<browser, page, task, left, loose, history>> /\ crossed' \in Nat
  BY DEF ServerDecides, counts, LInv, Types
<1> QED
  BY <1>1, <1>2, ServerKeeps DEF LInv, Types

LEMMA TimePassesKeeps ==
  ASSUME LInv, TimePasses
  PROVE  LInv'
<1>1. PICK o \in Order : Lapses(o)
  BY DEF TimePasses
<1>2. ServerTypes /\ lapsed \subseteq lapsed' /\ lapsed' \subseteq Order /\ record' = record
  BY <1>1 DEF Lapses, ServerTypes, LInv, Types, Status
<1>3. HoldsStay
  BY <1>2, RecordStays DEF LInv
<1>4. UNCHANGED <<browser, page, task, left, loose, history>> /\ crossed' \in Nat
  BY DEF TimePasses, Happens, LInv, Types
<1> QED
  BY <1>2, <1>3, <1>4, ServerKeeps DEF LInv, Types

LEMMA UnknownIsHeard ==
  ASSUME Types, Talk, HoldsStay, NEW j \in Job, task[j].at \notin {"none", "take"},
         task' = [task EXCEPT ![j].answer = Said("unknown", task[j].order)]
  PROVE  /\ task' \in [Job -> TaskRec]
         /\ \A i \in Job : /\ task'[i].job = task[i].job /\ task'[i].at = task[i].at
                           /\ task'[i].attempt = task[i].attempt
                           /\ task'[i] = task[i] \/ (i = j /\ Answers(task'[i], record'))
<1> DEFINE ans == Said("unknown", task[j].order)
           u == [task[j] EXCEPT !.answer = ans]
<1>1. task[j] \in TaskRec /\ Answers(task[j], record)
  BY DEF Types, Talk
<1>2. ans \in Answer /\ ans.is = "unknown"
  BY <1>1, Basics, SaidFields, TaskFields DEF Kind
<1>3. "unknown" \in Replies(task[j].at)
  BY <1>1, RepliesAre, TaskFields DEF At, PlaceKinds
<1>4. Fits(task[j], ans)
  BY <1>2, <1>3 DEF Fits
<1>5. /\ TaskIs(u, task[j].job, task[j].at, task[j].order, task[j].key, task[j].attempt, ans)
      /\ Answers(u, record')
  BY <1>1, <1>4, AnswerIsHeard
<1>6. task' = [task EXCEPT ![j] = u]
  OBVIOUS
<1> HIDE DEF ans, u
<1>7. OnlyTask(j, u)
  BY <1>5, <1>6, OneTask DEF TaskIs
<1> QED
  BY <1>5, <1>7 DEF OnlyTask, TaskIs

LostTask(j) ==
  /\ task[j].at \notin {"none", "take"} /\ Reply(task[j]).is # "unknown"
  /\ task' = [task EXCEPT ![j].answer = Said("unknown", task[j].order)]
  /\ loose' \in IF task[j].answer = Unsaid
               THEN {loose, loose \cup {[task[j] EXCEPT !.job = "loose"]}} ELSE {loose}
  /\ plain' = (plain /\ task[j].at # "confirm")
  /\ page' = page

LEMMA LoseIs ==
  ASSUME Types, Named, Lose
  PROVE  \E j \in Job : LostTask(j)
<1>1. page.stale = {}
  BY NoStale DEF Types
<1>2. PICK t \in {task[j] : j \in Job} :
        /\ t.at \notin {"none", "take"} /\ Reply(t).is # "unknown"
        /\ task' = [task EXCEPT ![t.job].answer = Said("unknown", t.order)] /\ page' = page
        /\ loose' \in IF t.answer = Unsaid THEN {loose, loose \cup {[t EXCEPT !.job = "loose"]}}
                      ELSE {loose}
        /\ plain' = (plain /\ t.at # "confirm")
  BY <1>1 DEF Lose
<1>3. PICK j \in Job : t = task[j]
  BY <1>2
<1>4. t.job = j
  BY <1>3 DEF Named
<1> QED
  BY <1>2, <1>3, <1>4 DEF LostTask

LEMMA LoseKeeps ==
  ASSUME LInv, Lose
  PROVE  LInv'
<1>0. Types /\ Named
  BY DEF LInv, Layout
<1>1. PICK j \in Job : LostTask(j)
  BY <1>0, LoseIs
<1> DEFINE u == [task[j] EXCEPT !.job = "loose"]
<1>2. /\ UNCHANGED <<server, browser, left, history>> /\ page' = page /\ crossed' = crossed /\ crossed \in Nat
      /\ Types /\ Talk /\ record' = record /\ lapsed' = lapsed /\ ServerTypes
      /\ lapsed \subseteq Order /\ left \subseteq TaskRec /\ loose \subseteq TaskRec
  BY <1>1 DEF Lose, LostTask, Happens, LInv, Types, server, ServerTypes
<1>3. HoldsStay
  BY <1>2, RecordStays
<1>4. page.on
  BY <1>1, BlankIs DEF LInv, Layout, Off, TaskIs, LostTask
<1>5. /\ task' \in [Job -> TaskRec]
      /\ \A i \in Job : /\ task'[i].job = task[i].job /\ task'[i].at = task[i].at
                        /\ task'[i].attempt = task[i].attempt
                        /\ task'[i] = task[i] \/ (Answers(task'[i], record') /\ page.on)
  BY <1>1, <1>2, <1>3, <1>4, UnknownIsHeard DEF LostTask
<1>6. task[j] \in TaskRec /\ Answers(task[j], record)
  BY <1>2 DEF Types, Talk
<1>7. TaskIs(u, "loose", task[j].at, task[j].order, task[j].key, task[j].attempt, task[j].answer)
  BY <1>6, TaskUpdates
<1> HIDE DEF u
<1>8. task[j].answer = Unsaid => u \in TaskRec /\ Answers(u, record') /\ OnItsWay(u)
  BY <1>1, <1>2, <1>6, <1>7, SaidFields DEF TaskIs, Answers, OnItsWay, LostTask
<1>9. loose' \subseteq TaskRec /\ \A t \in loose' : t \in loose \/ (Answers(t, record') /\ OnItsWay(t))
  <2>1. CASE task[j].answer # Unsaid
    BY <1>1, <1>2, <2>1 DEF LostTask
  <2>2. CASE task[j].answer = Unsaid
    BY <1>1, <1>2, <1>8, <2>2 DEF u, LostTask
  <2> QED
    BY <2>1, <2>2
<1> QED
  BY <1>2, <1>3, <1>5, <1>9, ServerKeeps

LEMMA ServerFailsKeeps ==
  ASSUME LInv, ServerFails
  PROVE  LInv'
<1>1. /\ UNCHANGED <<browser, page, left, loose, history>> /\ crossed' = crossed /\ crossed \in Nat
      /\ Types /\ Talk /\ lapsed \subseteq Order /\ left \subseteq TaskRec /\ loose \subseteq TaskRec
      /\ task \in [Job -> TaskRec]
  BY DEF ServerFails, Happens, LInv, Types
<1>2. ASSUME NEW o \in Order, ChargeLost(o) \/ Cuts(o), task' = task
      PROVE  LInv'
  <2>1. lapsed' = lapsed /\ ServerTypes
    <3>1. CASE ChargeLost(o)
      BY <1>1, <3>1, KeyOfCharge DEF ChargeLost, ServerTypes, Types, Status
    <3>2. CASE Cuts(o)
      BY <1>1, <3>2 DEF Cuts, ServerTypes, Types
    <3> QED
      BY <1>2, <3>1, <3>2
  <2>2. HoldsStay
    <3>1. CASE Awaited(o)
      <4>1. record' = [record EXCEPT ![charge[o].key] = FreeKey]
        BY <1>2, <3>1 DEF ChargeLost, Cuts
      <4>2. charge[o].key \in Key /\ record[charge[o].key].state = "busy"
        BY <1>1, <3>1, AwaitedKey
      <4> QED
        BY <1>1, <4>1, <4>2, KeyIsFreed
    <3>2. CASE ~Awaited(o)
      BY <1>1, <1>2, <3>2, RecordStays DEF ChargeLost, Cuts
    <3> QED
      BY <3>1, <3>2
  <2> QED
    BY <1>1, <1>2, <2>1, <2>2, ServerKeeps
<1>3. ASSUME task["code"].at = "confirm", ConfirmLost(task["code"].order),
             task' = [task EXCEPT !["code"].answer = Said("unknown", task["code"].order)]
      PROVE  LInv'
  <2>1. lapsed' = lapsed /\ ServerTypes /\ record' = record
    BY <1>1, <1>3 DEF ConfirmLost, ServerTypes, Types, Status
  <2>2. HoldsStay
    BY <1>1, <2>1, RecordStays
  <2>3. page.on
    BY <1>3, BlankIs, JobsAre DEF LInv, Layout, Off, TaskIs
  <2>4. task' = [task EXCEPT !["code"].answer = Said("unknown", task["code"].order)]
    BY <1>3
  <2>5. /\ task' \in [Job -> TaskRec]
        /\ \A i \in Job : /\ task'[i].job = task[i].job /\ task'[i].at = task[i].at
                          /\ task'[i].attempt = task[i].attempt
                          /\ task'[i] = task[i] \/ (Answers(task'[i], record') /\ page.on)
    BY <1>1, <1>3, <2>2, <2>3, <2>4, JobsAre, UnknownIsHeard
  <2> QED
    BY <1>1, <2>1, <2>2, <2>5, ServerKeeps
<1> QED
  BY <1>2, <1>3 DEF ServerFails

-----------------------------------------------------------------------------
(* The invariant *)

LEMMA LInvInit == Init => LInv
<1> SUFFICES ASSUME Init PROVE LInv
  OBVIOUS
<1>1. PICK p \in Payment : page = [Blank EXCEPT !.on = TRUE, !.pay = p]
  BY DEF Init
<1>2. /\ page \in PageRec /\ page.on /\ page.own = "idle" /\ page.resume = "no"
      /\ page.phase = NoPhase
  BY <1>1, BlankIs DEF PageIs, PageRec, Blank
<1>3. task = NoTasks /\ left = {} /\ loose = {} /\ asked = {} /\ denied = {} /\ owed = {} /\ crossed = 0
      /\ cart \in Cart /\ pending = NoOrder
  BY DEF Init
<1>4. /\ task \in [Job -> TaskRec]
      /\ \A j \in Job : TaskIs(task[j], j, "none", NoOrder, NoKey, NoKey, Unsaid)
  BY <1>3, BlankIs
<1>5. /\ record \in [Key -> RecordRec] /\ \A k \in Key : record[k] = FreeKey
  BY BodyFields DEF Init, ServerInit
<1>6. Types
  <2>1. status \in [Order -> Status] /\ lapsed \subseteq Order /\ charge \in [Order -> ChargeRec]
    BY Basics DEF Init, ServerInit, Status, ChargeRec, Payment
  <2> QED
    BY <1>2, <1>3, <1>4, <1>5, <2>1, Basics DEF Types
<1>7. Layout
  <2>1. Off
    BY <1>2 DEF Off
  <2>2. Named /\ EarlyInv /\ FlowInv
    BY <1>2, <1>4, JobsAre, PhaseFields DEF Named, EarlyInv, FlowInv, TaskIs
  <2>3. CodeInv /\ PhaseInv /\ ResumeInv
    BY <1>2, <1>4, JobsAre, PhaseFields DEF CodeInv, PhaseInv, ResumeInv, Abandoning, TaskIs
  <2> QED
    BY <2>1, <2>2, <2>3 DEF Layout
<1>8. Talk
  <2>1. \A k \in Key : Stored(record[k])
    BY <1>5, FreeKeyIsStored
  <2>2. \A j \in Job : Answers(task[j], record)
    BY <1>4, SaidFields, RepliesAre DEF TaskIs, Answers
  <2> QED
    BY <1>3, <2>1, <2>2 DEF Talk
<1>9. Owed
  BY <1>3 DEF Owed
<1> QED
  BY <1>6, <1>7, <1>8, <1>9 DEF LInv

LEMMA LInvStep ==
  ASSUME LInv, [Next]_vars, crossed' = 0
  PROVE  LInv'
<1>1. CASE Next
  <2>1. CASE \/ StartEarly \/ (\E t \in EarlyRuns : HearEarly(t)) \/ RetryEarly \/ Open
             \/ Leave \/ Reload \/ Change
    BY <2>1, StartEarlyKeeps, HearEarlyKeeps, RetryEarlyKeeps, OpenKeeps, LeaveKeeps, ReloadKeeps,
       ChangeKeeps
  <2>2. CASE \/ Press \/ Take \/ HearReserve \/ HearRefusal \/ HearFailure \/ HearPlaced
             \/ HearChallenge
    BY <2>2, PressKeeps, TakeKeeps, HearReserveKeeps, HearRefusalKeeps, HearFailureKeeps,
       HearPlacedKeeps, HearChallengeKeeps
  <2>3. CASE \/ Submit \/ Cancel \/ HearCode \/ HearAbandon("flow") \/ HearAbandon("code")
             \/ HearResume \/ RetryResume
    BY <2>3, SubmitKeeps, CancelKeeps, HearCodeKeeps, HearAbandonKeeps, HearResumeKeeps,
       RetryResumeKeeps
  <2>4. CASE \E t \in left : HearLeft(t)
    BY <2>4, HearLeftKeeps
  <2>5. CASE Serve \/ ServerDecides \/ Lose \/ ServerFails \/ TimePasses
    BY <2>5, ServeKeeps, ServerDecidesKeeps, LoseKeeps, ServerFailsKeeps, TimePassesKeeps
  <2> QED
    BY <1>1, <2>1, <2>2, <2>3, <2>4, <2>5 DEF Next
<1>2. CASE UNCHANGED vars
  <2>1. UNCHANGED <<server, cart, pending, page, task, left, loose, asked, denied, owed, crossed>>
    BY <1>2 DEF vars, server, browser, history, counts
  <2>2. Types'
    BY <2>1 DEF LInv, Types, server
  <2>3. Layout'
    BY <2>1 DEF LInv, Layout, Off, Named, EarlyInv, FlowInv, CodeInv, PhaseInv, ResumeInv, Abandoning
  <2>4. Talk'
    BY <2>1, TalkSame DEF LInv, server
  <2>5. Owed'
    BY <2>1 DEF LInv, Owed, server
  <2> QED
    BY <2>2, <2>3, <2>4, <2>5 DEF LInv
<1> QED
  BY <1>1, <1>2

LEMMA LInvMeans ==
  ASSUME LInv
  PROVE  TypeOK /\ NothingLeftBehind
<1>1. TypeOK
  <2>1. \A t \in Tasks : t \in TaskRec
    BY JobsAre, NoStale DEF Tasks, LInv, Types
  <2>2. \A t \in Tasks : t.key \in 0..MaxKeys /\ t.order \in 0..MaxOrders /\ t.answer \in Answer
    BY <2>1, TaskFields
  <2>3. page.own \in Own /\ page.resume \in {"no", "reading", "failed"}
    BY PageFields DEF LInv, Types
  <2> QED
    BY <2>2, <2>3 DEF TypeOK, LInv, Types
<1>2. NothingLeftBehind
  <2>1. ~page.on => page.phase.kind = "none"
    BY BlankIs, PhaseFields DEF LInv, Layout, Off, PageIs
  <2> QED
    BY <2>1 DEF NothingLeftBehind, LInv, Owed
<1> QED
  BY <1>1, <1>2

(* A step that crosses another is counted, and the count never goes down.  *)
LEMMA CrossedGrows ==
  ASSUME crossed \in Nat, [Next]_vars
  PROVE  crossed' \in Nat /\ (crossed' = 0 => crossed = 0)
<1>1. CASE (\E t \in EarlyRuns : HearEarly(t)) \/ RetryEarly \/ Open \/ Leave \/ Reload \/ Change
  BY <1>1 DEF HearEarly, RetryEarly, Open, Leave, Reload, Change, Happens, counts
<1>7. CASE StartEarly
  <2>1. crossed' = crossed \/ crossed' = crossed + 1
    BY <1>7 DEF StartEarly
  <2> QED
    BY <2>1
<1>2. CASE \/ Press \/ Take \/ HearReserve \/ HearRefusal \/ HearFailure \/ HearPlaced
           \/ HearChallenge
  BY <1>2 DEF Press, Take, HearReserve, HearRefusal, HearFailure, HearPlaced, Finish,
     HearChallenge, counts
<1>3. CASE \/ Submit \/ Cancel \/ HearCode \/ HearAbandon("flow") \/ HearAbandon("code")
           \/ HearResume \/ RetryResume
  BY <1>3 DEF Submit, Cancel, HearCode, HearAbandon, Finish, HearResume, RetryResume, counts
<1>4. CASE \E t \in left : HearLeft(t)
  BY <1>4 DEF HearLeft, LeftFinishes, counts
<1>5. CASE Serve \/ ServerDecides \/ Lose \/ ServerFails \/ TimePasses
  BY <1>5 DEF Serve, ServerDecides, Lose, ServerFails, TimePasses, Happens, counts
<1>6. CASE UNCHANGED vars
  BY <1>6 DEF vars, counts
<1> QED
  BY <1>1, <1>2, <1>3, <1>4, <1>5, <1>6, <1>7 DEF Next

FirstInv == crossed \in Nat /\ (crossed = 0 => LInv)

LEMMA FirstInvHolds ==
  /\ Init => FirstInv
  /\ FirstInv /\ [Next]_vars => FirstInv'
<1>1. Init => FirstInv
  <2>1. Init => crossed = 0
    BY DEF Init
  <2> QED
    BY <2>1, LInvInit DEF FirstInv
<1>2. ASSUME FirstInv, [Next]_vars
      PROVE  FirstInv'
  <2>1. crossed' \in Nat /\ (crossed' = 0 => crossed = 0)
    BY <1>2, CrossedGrows DEF FirstInv
  <2>2. crossed' = 0 => LInv'
    BY <1>2, <2>1, LInvStep DEF FirstInv
  <2> QED
    BY <2>1, <2>2 DEF FirstInv
<1> QED
  BY <1>1, <1>2

(* The page, its tasks and the servers' records keep their shape, whatever *)
(* the user does and however late the answers are, for any number of       *)
(* orders, repeat keys and carts: until an early run starts while another  *)
(* is under way, or a challenge is cancelled while its code is checked.    *)
THEOREM PageTypeCorrect == Spec => [](crossed = 0 => TypeOK)
<1>1. FirstInv => (crossed = 0 => TypeOK)
  BY LInvMeans DEF FirstInv
<1> QED
  BY <1>1, FirstInvHolds, PTL DEF Spec

(* useEarlyReservation.ts:172-183: when a page that was left has come to   *)
(* its end, no draft it was told of locks stock for the rest of its time,  *)
(* unless it was placed or its release was lost.                           *)
THEOREM LeavingReleases == Spec => []NothingLeftBehind
<1>1. FirstInv => NothingLeftBehind
  BY LInvMeans DEF FirstInv, NothingLeftBehind
<1> QED
  BY <1>1, FirstInvHolds, PTL DEF Spec

-----------------------------------------------------------------------------
(* Who may release or place an order.  The page has the order of a phase   *)
(* that is held or being placed, and the one its reservation key has got;  *)
(* a page that was left has what its task places or has reserved.          *)

Mine == {page.intent, page.attempt} \ {NoKey}
KeysOf(t) == {t.key, t.attempt} \ {NoKey}
KeysApart ==
  /\ page.intent = page.attempt => page.intent = NoKey
  /\ \A t \in left : KeysOf(t) \cap Mine = {}
  /\ \A t, u \in left : t # u => KeysOf(t) \cap KeysOf(u) = {}
  /\ task["early"].at = "reserve" => task["early"].key = page.intent
  /\ task["flow"].at = "reserve" => task["flow"].key = page.intent
  /\ task["flow"].at = "place" => /\ task["flow"].key = page.attempt
                                  /\ task["flow"].order = page.phase.order

Got(r, k, o) == k \in Key /\ Holds(r, k, o)
Owned(o) ==
  \/ /\ page.phase.kind \in {"held", "placing"} /\ task["flow"].at # "undo"
     /\ page.phase.order = o
  \/ Got(record, page.intent, o)
Owns(t, r, o) == (t.at = "place" /\ t.order = o) \/ (t.at = "reserve" /\ Got(r, t.key, o))

OneOwner ==
  /\ \A o \in Order : Owned(o) => o \notin Releasing
  /\ \A o \in Order, t \in left : Owns(t, record, o) => ~Owned(o) /\ o \notin Releasing
  /\ \A o \in Order, t, u \in left : Owns(t, record, o) /\ Owns(u, record, o) => t = u
Fresh ==
  \A o \in Order : status[o] = "none" =>
    /\ o \notin asked \cup Releasing
    /\ ~Owned(o) /\ \A t \in left : ~Owns(t, record, o)
    /\ \A k \in Key : ~Holds(record, k, o)
Unreleased == Releasing \cap asked = {}
Claims == OneOwner /\ Fresh /\ Unreleased

(* An order that was placed is not held again, ...                         *)
Placed ==
  /\ page.phase.kind = "held" => page.phase.order \notin asked
  /\ \A o \in asked : Got(record, page.intent, o) =>
       \/ page.phase.kind \notin {"none", "failed", "reserving"}
       \/ /\ task["flow"].at = "reserve" /\ "trouble" \in events
          /\ task["flow"].answer.is # "unknown"
  /\ \A t \in left, o \in asked : t.at = "reserve" /\ t.job = "early" => ~Got(record, t.key, o)

(* ... because its placement is answered as long as there is no trouble.   *)
Waits(t, o) ==
  /\ t.at = "place" /\ t.order = o /\ t.answer.is = "wait" /\ t.key \in Key
  /\ record[t.key].state = "busy" /\ record[t.key].body.order = o
Asks(t) ==
  t.at = "place" =>
    /\ t.answer.is # "unknown"
    /\ t.answer.is = "none" => record[t.key] = FreeKey
    /\ t.answer.is = "wait" => record[t.key].state # "free"
Before ==
  "trouble" \notin events =>
    /\ \A t \in loose : t.at = "drop"
    /\ \A t \in left \cup {task["flow"]} : Asks(t)
    /\ \A k \in Key : record[k].answer.is # "unknown"
    /\ \A o \in Order : status[o] = "charging" => \E t \in left \cup {task["flow"]} : Waits(t, o)
    /\ task["flow"].at # "place" => page.attempt = NoKey
    /\ \A t \in left : t.at # "place" => t.attempt = NoKey
    /\ page.phase.kind = "placing" => task["flow"].at \in {"place", "undo"}

KInv == KeysApart /\ Claims /\ Placed /\ Before

-----------------------------------------------------------------------------
(* Steps of the page and of what is left of it: no request is answered.    *)

LEMMA Releases1 ==
  /\ \A t \in Tasks : t.at \in {"drop", "undo"} => t.order \in Releasing
  /\ \A o \in Releasing : \E t \in Tasks : t.at \in {"drop", "undo"} /\ t.order = o
BY DEF Releasing

(* What is answered to a key that is in use stays, and nothing is added.   *)
LEMMA NothingIsGot ==
  ASSUME KeysStay, NEW k, NEW o, Got(record', k, o)
  PROVE  Got(record, k, o) /\ record'[k] = record[k]
BY FreeKeyIsStored, SaidFields DEF KeysStay, Got, Holds

LEMMA KeysStep ==
  ASSUME KeysApart, NEW n, \A t \in left' : t \in left \/ t = n,
         \A k \in Mine' : k \in Mine \/ k \notin KeysInUse,
         n \in left' /\ n \notin left =>
           \A k \in KeysOf(n) : /\ k \notin Mine'
                                /\ \/ k \in Mine \/ k \notin KeysInUse
                                   \/ \E u \in left \ left' : k \in KeysOf(u)
  PROVE  /\ \A t \in left' : KeysOf(t) \cap Mine' = {}
         /\ \A t, u \in left' : t # u => KeysOf(t) \cap KeysOf(u) = {}
<1>1. \A t \in left : KeysOf(t) \subseteq KeysInUse
  BY UsedKeys, TaskIsAmong DEF KeysOf
<1>2. \A t \in left' : KeysOf(t) \cap Mine' = {}
  BY <1>1 DEF KeysApart
<1>3. ASSUME NEW t \in left', NEW u \in left', t # u, NEW k \in KeysOf(t), k \in KeysOf(u)
      PROVE  FALSE
  <2>1. ASSUME NEW a \in left', NEW b \in left', a \in left, b \notin left,
               k \in KeysOf(a), k \in KeysOf(b)
        PROVE  FALSE
    BY <1>1, <2>1 DEF KeysApart
  <2> QED
    BY <1>3, <2>1 DEF KeysApart
<1> QED
  BY <1>2, <1>3

LEMMA ClaimsStep ==
  ASSUME Claims, asked' \subseteq Order, NEW n, \A t \in left' : t \in left \/ t = n,
         \A k \in Key, o \in Order : Holds(record', k, o) => Holds(record, k, o),
         \A o \in Order : status'[o] = "none" => status[o] = "none",
         \A o \in Order : Owned(o)' => Owned(o),
         n \in left' /\ n \notin left =>
           \A o \in Order : Owns(n, record', o) => \/ Owned(o) /\ ~Owned(o)'
                                                   \/ \E u \in left \ left' : Owns(u, record, o),
         \A o \in Order : o \in Releasing' =>
           \/ o \in Releasing
           \/ /\ o \notin asked' /\ ~Owned(o)' /\ \A t \in left' : ~Owns(t, record', o)
              /\ Owned(o) \/ \E t \in left : Owns(t, record, o),
         \A o \in Order : o \in asked' =>
           \/ o \in asked \/ Owned(o) \/ \E t \in left : Owns(t, record, o)
  PROVE  Claims'
<1>1. ASSUME NEW t \in left', NEW o \in Order, Owns(t, record', o)
      PROVE  \/ t \in left /\ Owns(t, record, o)
             \/ t = n /\ t \notin left /\ Owned(o) /\ ~Owned(o)'
             \/ t = n /\ t \notin left /\ \E u \in left \ left' : Owns(u, record, o)
  BY <1>1 DEF Owns, Got
<1>2. ASSUME NEW o \in Order
      PROVE  /\ Owned(o)' => o \notin Releasing'
             /\ \A t \in left' : Owns(t, record', o) => ~Owned(o)' /\ o \notin Releasing'
             /\ \A t, u \in left' : Owns(t, record', o) /\ Owns(u, record', o) => t = u
             /\ o \notin Releasing' \cap asked'
  <2>1. Owned(o)' => o \notin Releasing'
    BY DEF Claims, OneOwner
  <2>2. ASSUME NEW t \in left', Owns(t, record', o)
        PROVE  ~Owned(o)' /\ o \notin Releasing'
    BY <1>1, <2>2 DEF Claims, OneOwner
  <2>3. ASSUME NEW t \in left', NEW u \in left', Owns(t, record', o), Owns(u, record', o), t # u
        PROVE  FALSE
    <3>1. ASSUME NEW a \in left', NEW b \in left', a \in left, b \notin left,
                 Owns(a, record', o), Owns(b, record', o)
          PROVE  FALSE
      <4>1. Owns(a, record, o)
        BY <1>1, <3>1
      <4>2. Owned(o) \/ \E v \in left \ left' : Owns(v, record, o)
        BY <1>1, <3>1
      <4> QED
        BY <3>1, <4>1, <4>2 DEF Claims, OneOwner
    <3>2. t \in left /\ u \in left => Owns(t, record, o) /\ Owns(u, record, o)
      BY <1>1, <2>3
    <3> QED
      BY <2>3, <3>1, <3>2 DEF Claims, OneOwner
  <2>4. o \notin Releasing' \cap asked'
    BY DEF Claims, OneOwner, Unreleased
  <2> QED
    BY <2>1, <2>2, <2>3, <2>4
<1>3. OneOwner'
  BY <1>2 DEF OneOwner
<1>4. Unreleased'
  BY <1>2 DEF Unreleased
<1>5. ASSUME NEW o \in Order, status'[o] = "none"
      PROVE  /\ o \notin asked' \cup Releasing'
             /\ ~Owned(o)' /\ \A t \in left' : ~Owns(t, record', o)
             /\ \A k \in Key : ~Holds(record', k, o)
  <2>1. /\ o \notin asked \cup Releasing /\ ~Owned(o) /\ \A t \in left : ~Owns(t, record, o)
        /\ \A k \in Key : ~Holds(record, k, o)
    BY <1>5 DEF Claims, Fresh
  <2>2. \A t \in left' : ~Owns(t, record', o)
    BY <1>1, <2>1
  <2> QED
    BY <2>1, <2>2
<1>6. Fresh'
  BY <1>5 DEF Fresh
<1> QED
  BY <1>3, <1>4, <1>6 DEF Claims

(* The same request.                                                       *)
Like(t, u) == t.at = u.at /\ t.order = u.order /\ t.key = u.key /\ t.answer = u.answer

Placers == left \cup {task["flow"]}

LEMMA BeforeStep ==
  ASSUME LInv, Before, KeysStay, "trouble" \in events => "trouble" \in events',
         \A o \in Order : status'[o] = "charging" => status[o] = "charging",
         "trouble" \notin events' =>
           /\ \A t \in loose' : t \in loose \/ t.at = "drop"
           /\ \A t \in Placers' : t.at = "place" =>
                \/ \E u \in Placers : Like(t, u)
                \/ t.answer.is = "none" /\ record'[t.key] = FreeKey
           /\ \A u \in Placers, o \in Order : Waits(u, o) => \E t \in Placers' : Like(t, u)
           /\ task'["flow"].at # "place" => page'.attempt = NoKey
           /\ \A t \in left' : t.at # "place" => t.attempt = NoKey
           /\ page'.phase.kind = "placing" => task'["flow"].at \in {"place", "undo"}
  PROVE  Before'
<1> SUFFICES ASSUME "trouble" \notin events'
             PROVE  Before'
  BY DEF Before
<1>1. \A u \in Placers : u \in TaskRec /\ u \in Tasks /\ Answers(u, record)
  BY TypesGive, JobsAre, TaskIsAmong DEF Placers, LInv, Talk
<1>2. ASSUME NEW u \in Placers, u.at = "place"
      PROVE  u.key \in Key /\ record'[u.key] = record[u.key]
  <2>1. u.key \in Key
    BY <1>1, <1>2, Basics, TaskFields DEF Answers
  <2> QED
    BY <1>1, <2>1, UsedKeys DEF KeysStay
<1>3. \A u \in Placers : Asks(u)
  BY DEF Before, Placers
<1>4. ASSUME NEW t \in Placers', t.at = "place"
      PROVE  /\ t.answer.is # "unknown"
             /\ t.answer.is = "none" => record'[t.key] = FreeKey
             /\ t.answer.is = "wait" => record'[t.key].state # "free"
  <2>1. CASE t.answer.is = "none" /\ record'[t.key] = FreeKey
    BY <2>1
  <2>2. ASSUME NEW u \in Placers, Like(t, u)
        PROVE  /\ t.answer.is # "unknown"
               /\ t.answer.is = "none" => record'[t.key] = FreeKey
               /\ t.answer.is = "wait" => record'[t.key].state # "free"
    BY <1>2, <1>3, <1>4, <2>2 DEF Asks, Like
  <2> QED
    BY <1>4, <2>1, <2>2
<1>5. \A k \in Key : record'[k].answer.is # "unknown"
  BY FreeKeyIsStored DEF Before, KeysStay
<1>6. ASSUME NEW o \in Order, status'[o] = "charging"
      PROVE  \E t \in Placers' : Waits(t, o)'
  <2>1. PICK u \in Placers : Waits(u, o)
    BY <1>6 DEF Before, Placers
  <2>2. PICK t \in Placers' : Like(t, u)
    BY <2>1
  <2>3. record'[u.key] = record[u.key]
    BY <1>2, <2>1 DEF Waits
  <2> QED
    BY <2>1, <2>2, <2>3 DEF Waits, Like
<1>7. \A t \in Placers' : Asks(t)'
  BY <1>4 DEF Asks
<1>8. \A t \in loose' : t.at = "drop"
  BY DEF Before
<1> QED
  BY <1>5, <1>6, <1>7, <1>8 DEF Before, Placers

LEMMA PageReleases ==
  ASSUME Types, Types', NEW j \in Job, OnlyTask(j, task'[j]),
         \A t \in left' : t \in left \/ t.at \notin {"drop", "undo"},
         \A t \in loose' : t \in loose \/ t.at \notin {"drop", "undo"},
         NEW o \in Releasing'
  PROVE  o \in Releasing \/ (task'[j].at \in {"drop", "undo"} /\ task'[j].order = o)
<1>1. PICK t \in Tasks' : t.at \in {"drop", "undo"} /\ t.order = o
  BY DEF Releasing
<1>2. t \in Tasks \/ t = task'[j]
  BY <1>1, TasksAre, TasksAreNext DEF OnlyTask
<1> QED
  BY <1>1, <1>2, Releases1

LEMMA ClaimsOfPage ==
  ASSUME LInv, LInv', Claims, left' = left, loose' = loose, status' = status, KeysStay,
         NEW j \in Job, OnlyTask(j, task'[j]),
         \A o \in Order : Owned(o)' => Owned(o),
         \A o \in Order : task'[j].at \in {"drop", "undo"} /\ task'[j].order = o =>
           o \in Releasing \/ (Owned(o) /\ ~Owned(o)' /\ o \notin asked'),
         \A o \in Order : o \in asked' => o \in asked \/ Owned(o)
  PROVE  Claims'
<1>1. \A k \in Key, o \in Order : Holds(record', k, o) => Holds(record, k, o)
  BY NothingIsGot DEF Got
<1>2. \A t \in left, o \in Order : Owns(t, record', o) => Owns(t, record, o)
  BY NothingIsGot DEF Owns
<1>3. \A o \in Order : o \in Releasing' =>
           \/ o \in Releasing
           \/ /\ o \notin asked' /\ ~Owned(o)' /\ \A t \in left' : ~Owns(t, record', o)
              /\ Owned(o) \/ \E t \in left : Owns(t, record, o)
  <2> TAKE o \in Order
  <2> HAVE o \in Releasing'
  <2>1. o \in Releasing \/ (task'[j].at \in {"drop", "undo"} /\ task'[j].order = o)
    BY PageReleases DEF LInv
  <2> QED
    BY <1>2, <2>1 DEF Claims, OneOwner
<1>4. asked' \subseteq Order
  BY DEF LInv, Types
<1> QED
  BY <1>1, <1>3, <1>4, ClaimsStep

LEMMA KeysOfPage ==
  ASSUME KeysApart, left' = left, \A k \in Mine' : k \in Mine \/ k \notin KeysInUse
  PROVE  /\ \A t \in left' : KeysOf(t) \cap Mine' = {}
         /\ \A t, u \in left' : t # u => KeysOf(t) \cap KeysOf(u) = {}
BY KeysStep

LEMMA BeforeOfPage ==
  ASSUME LInv, Before, KeysStay, left' = left, loose' = loose, status' = status,
         "trouble" \in events => "trouble" \in events', task'["flow"] = task["flow"],
         task["flow"].at # "place" => page'.attempt \in {page.attempt, NoKey},
         page'.phase.kind = "placing" => page.phase.kind = "placing"
  PROVE  Before'
<1>1. "trouble" \notin events' =>
           /\ \A t \in loose' : t \in loose \/ t.at = "drop"
           /\ \A t \in Placers' : \E u \in Placers : Like(t, u)
           /\ \A u \in Placers : \E t \in Placers' : Like(t, u)
           /\ task'["flow"].at # "place" => page'.attempt = NoKey
           /\ \A t \in left' : t.at # "place" => t.attempt = NoKey
           /\ page'.phase.kind = "placing" => task'["flow"].at \in {"place", "undo"}
  BY DEF Before, Placers, Like
<1> QED
  BY <1>1, BeforeStep

LEMMA KeyIsMine ==
  ASSUME Types, KeysApart, NEW kept \in {page.intent, page.attempt, NoKey}, Takes(kept)
  PROVE  /\ KeyFrom(kept) \in Key /\ KeyFrom(kept) # NoKey
         /\ \/ KeyFrom(kept) = kept
            \/ /\ kept = NoKey /\ KeyFrom(kept) \notin KeysInUse
               /\ record'[KeyFrom(kept)] = FreeKey /\ \A o : ~Got(record', KeyFrom(kept), o)
         /\ page.intent \in KeysInUse /\ page.attempt \in KeysInUse
<1>1. kept \in 0..MaxKeys
  BY TypesGive, Basics
<1>2. /\ KeyFrom(kept) \in Key
      /\ KeyFrom(kept) = kept \/ (kept = NoKey /\ KeyFrom(kept) \notin KeysInUse)
      /\ kept = NoKey => record'[KeyFrom(kept)] = FreeKey
  BY <1>1, KeyIsTaken
<1>3. page.intent \in KeysInUse /\ page.attempt \in KeysInUse
  BY DEF KeysInUse
<1> QED
  BY <1>2, <1>3, Basics, FreeKeyIsStored, SaidFields DEF Got, Holds

LEMMA EarlyReservesClaims ==
  ASSUME LInv, LInv', KInv, NEW kept \in {page.intent, NoKey}, NEW r \in TaskRec, r.job = "early",
         r.attempt = NoKey, r = task["early"] \/ task["early"].at = "none", EarlyReserves(r, kept),
         UNCHANGED <<status, lapsed, charge, browser, left, loose, plain, counts>>,
         page.phase.kind \in {"none", "failed"} \/ kept = NoKey,
         task["flow"].at \in {"none", "take"}
  PROVE  KInv'
<1> USE DEF KInv
<1>0. Types /\ Named /\ Takes(kept) /\ UNCHANGED history /\ kept \in 0..MaxKeys
  BY TypesGive, Basics DEF LInv, Layout, EarlyReserves
<1> DEFINE k == KeyFrom(kept)
<1>1. /\ PageIs(page', page.on, page.own, page.order, page.resume,
                Phase("reserving", NoOrder, cart), k, page.attempt)
      /\ TaskIs(task'["early"], "early", "reserve", NoOrder, k, NoKey, Unsaid)
      /\ OnlyTask("early", task'["early"])
      /\ page'.phase.kind = "reserving" /\ task'["flow"] = task["flow"]
  <2>1. /\ PageIs(page', page.on, page.own, page.order, page.resume,
                  Phase("reserving", NoOrder, cart), KeyFrom(kept), page.attempt)
        /\ TaskIs(task'["early"], "early", "reserve", NoOrder, KeyFrom(kept), NoKey, Unsaid)
        /\ OnlyTask("early", task'["early"])
    BY <1>0, EarlyReservesIs
  <2>2. Phase("reserving", NoOrder, cart).kind = "reserving"
    BY DEF Phase
  <2> QED
    BY <2>1, <2>2, JobsAre DEF PageIs, OnlyTask
<1>2. KeysStay
  BY <1>0, KeysStayBy
<1>3. /\ k \in Key /\ k # NoKey
      /\ k = page.intent \/ (k \notin KeysInUse /\ \A o : ~Got(record', k, o))
      /\ k = kept \/ k \notin KeysInUse
      /\ page.intent \in KeysInUse /\ page.attempt \in KeysInUse
  BY <1>0, KeyIsMine
<1> HIDE DEF k
<1>4. KeysApart'
  <2>1. Mine' = {k, page.attempt} \ {NoKey} /\ \A i \in Mine' : i \in Mine \/ i \notin KeysInUse
    BY <1>1, <1>3 DEF Mine, PageIs
  <2>2. page'.intent # page'.attempt
    BY <1>1, <1>3 DEF PageIs, KeysApart
  <2> QED
    BY <1>1, <2>1, <2>2, KeysOfPage DEF KeysApart, PageIs, TaskIs
<1>5. Claims'
  <2>1. \A o \in Order : Owned(o)' => Owned(o)
    BY <1>1, <1>2, <1>3, NothingIsGot DEF Owned, PageIs
  <2> QED
    BY <1>0, <1>1, <1>2, <2>1, JobsAre, ClaimsOfPage DEF TaskIs, history
<1>6. Placed'
  <2>1. ASSUME NEW o \in asked, Got(record', page'.intent, o)
        PROVE  FALSE
    <3>1. Got(record', k, o) /\ Got(record, k, o) /\ k = page.intent /\ kept = page.intent
      BY <1>1, <1>2, <1>3, <2>1, NothingIsGot DEF PageIs
    <3> QED
      BY <1>0, <1>3, <3>1 DEF Placed
  <2>2. \A t \in left, o \in asked : t.at = "reserve" /\ t.job = "early" => ~Got(record', t.key, o)
    BY <1>2, NothingIsGot DEF Placed
  <2> QED
    BY <1>0, <1>1, <2>1, <2>2 DEF Placed, PageIs, history
<1>7. Before'
  BY <1>1, <1>2, BeforeOfPage DEF PageIs, counts
<1> QED
  BY <1>4, <1>5, <1>6, <1>7

LEMMA SameRecord ==
  ASSUME record' = record
  PROVE  KeysStay
BY DEF KeysStay

LEMMA EarlyReleasesClaims ==
  ASSUME LInv, LInv', KInv, NEW next \in Cart \cup {NoCart}, task["early"].at = "none",
         EarlyReleases(next),
         UNCHANGED <<status, lapsed, charge, browser, left, loose, plain, counts>>,
         page.phase.kind = "held", task["flow"].at \in {"none", "take"}
  PROVE  KInv'
<1> USE DEF KInv
<1>1. /\ Types /\ Named /\ record' = record /\ asked' = asked /\ KeysStay /\ events' = events
      /\ left' = left /\ loose' = loose /\ status' = status
  BY SameRecord DEF LInv, Layout, EarlyReleases, counts
<1>2. /\ PageIs(page', page.on, page.own, page.order, page.resume, NoPhase, NoKey, page.attempt)
      /\ TaskIs(task'["early"], "early", "drop", page.phase.order, NoKey, NoKey, Unsaid)
      /\ OnlyTask("early", task'["early"])
      /\ page'.phase.kind = "none" /\ task'["flow"] = task["flow"]
  BY <1>1, EarlyReleasesIs, PhaseFields, JobsAre DEF PageIs, OnlyTask
<1>3. KeysApart'
  <2>1. \A i \in Mine' : i \in Mine
    BY <1>2 DEF Mine, PageIs
  <2>2. page'.intent = NoKey
    BY <1>2 DEF PageIs
  <2> QED
    BY <1>1, <1>2, <2>1, <2>2, KeysOfPage DEF KeysApart, PageIs, TaskIs
<1>4. Claims'
  <2>1. \A o \in Order : ~Owned(o)'
    BY <1>2, Basics DEF Owned, Got, PageIs
  <2>2. \A o \in Order : page.phase.order = o => Owned(o)
    BY DEF Owned
  <2>3. page.phase.order \notin asked
    BY DEF Placed
  <2> QED
    BY <1>1, <1>2, <2>1, <2>2, <2>3, JobsAre, ClaimsOfPage DEF TaskIs
<1>5. Placed'
  BY <1>1, <1>2, Basics DEF Placed, PageIs, Got
<1>6. Before'
  BY <1>1, <1>2, BeforeOfPage DEF PageIs
<1> QED
  BY <1>3, <1>4, <1>5, <1>6

LEMMA StartEarlyClaims ==
  ASSUME LInv, LInv', KInv, StartEarly, crossed' = 0
  PROVE  KInv'
<1>1. /\ page.own = "idle" /\ task["flow"].at \in {"none", "take"} /\ task["early"].at = "none"
      /\ UNCHANGED <<status, lapsed, charge, browser, left, loose, plain, counts>>
      /\ Rest("early") \in TaskRec /\ Rest("early").job = "early" /\ Rest("early").attempt = NoKey
  BY StartEarlyIs DEF LInv, Layout, FlowInv
<1>2. PICK old \in Over(page.phase.order) :
        \/ EarlyStep(old) = "release" /\ EarlyReleases(NoCart)
        \/ EarlyStep(old) = "replace" /\ EarlyReleases(cart)
        \/ EarlyStep(old) = "renew" /\ EarlyReserves(Rest("early"), NoKey)
        \/ EarlyStep(old) = "reserve" /\ EarlyReserves(Rest("early"), IntentFor(cart))
  BY DEF StartEarly
<1>3. CASE EarlyStep(old) \in {"release", "replace"}
  <2>1. page.phase.kind = "held"
    BY <1>3 DEF EarlyStep
  <2>2. \E next \in Cart \cup {NoCart} : EarlyReleases(next)
    BY <1>2, <1>3, TypesGive DEF LInv
  <2> QED
    BY <1>1, <2>1, <2>2, EarlyReleasesClaims
<1>4. CASE EarlyStep(old) = "renew"
  BY <1>1, <1>2, <1>4, EarlyReservesClaims
<1>5. CASE EarlyStep(old) = "reserve"
  <2>1. page.phase.kind \in {"none", "failed"}
    <3>1. page.phase.kind \in PhaseKind
      BY TypesGive DEF PhaseRec, LInv
    <3>2. page.phase.kind # "ordered"
      BY <1>1 DEF LInv, Layout, PhaseInv, FlowInv, CodeInv, Abandoning
    <3>3. page.phase.kind # "held"
      BY <1>5, TypesGive DEF EarlyStep, LInv
    <3> QED
      BY <1>5, <3>1, <3>2, <3>3 DEF EarlyStep, PhaseKind
  <2>2. IntentFor(cart) \in {page.intent, NoKey}
    BY IntentIs DEF LInv
  <2> QED
    BY <1>1, <1>2, <1>5, <2>1, <2>2, EarlyReservesClaims
<1> QED
  BY <1>2, <1>3, <1>4, <1>5

(* The early run has come to its end.                                      *)
LEMMA EarlyEndsClaims ==
  ASSUME LInv, LInv', KInv, Ends("early"), UNCHANGED <<record, asked, status, left, loose, events>>,
         page'.intent \in {page.intent, NoKey}, page'.attempt = page.attempt,
         task["flow"].at \in {"none", "take"},
         \/ page'.phase = page.phase
         \/ page'.phase.kind = "failed" /\ page.phase.kind = "reserving"
         \/ /\ page'.phase.kind = "held" /\ page.phase.kind = "reserving"
            /\ Got(record, page.intent, page'.phase.order)
  PROVE  KInv'
<1> USE DEF KInv
<1>1. /\ Types /\ KeysStay /\ left' = left /\ loose' = loose /\ status' = status
      /\ record' = record /\ asked' = asked /\ events' = events
  BY SameRecord DEF LInv
<1>2. /\ OnlyTask("early", task'["early"]) /\ task'["early"].at = "none"
      /\ task'["flow"] = task["flow"]
  BY <1>1, EndsIs, JobsAre DEF OnlyTask, TaskIs
<1>3. \A k, o : Got(record', page'.intent, o) => Got(record, page.intent, o)
  BY <1>1, Basics DEF Got
<1>4. KeysApart'
  <2>1. \A i \in Mine' : i \in Mine
    BY DEF Mine
  <2> QED
    BY <1>1, <1>2, <2>1, KeysOfPage DEF KeysApart
<1>5. Claims'
  <2>1. \A o \in Order : Owned(o)' => Owned(o)
    BY <1>2, <1>3 DEF Owned
  <2> QED
    BY <1>1, <1>2, <2>1, JobsAre, ClaimsOfPage
<1>6. Placed'
  <2>1. page'.phase.kind = "held" => page'.phase.order \notin asked
    BY DEF Placed
  <2>2. ASSUME NEW o \in asked, Got(record', page'.intent, o)
        PROVE  page'.phase.kind \notin {"none", "failed", "reserving"}
    BY <1>3, <2>2 DEF Placed
  <2> QED
    BY <1>1, <2>1, <2>2 DEF Placed
<1>7. Before'
  BY <1>1, <1>2, BeforeOfPage
<1> QED
  BY <1>4, <1>5, <1>6, <1>7

LEMMA HearEarlyClaims ==
  ASSUME LInv, LInv', KInv, NEW run \in EarlyRuns, HearEarly(run)
  PROVE  KInv'
<1> DEFINE t == task["early"]
           what == Reply(t)
<1>1. /\ Types /\ t \in TaskRec /\ Answers(t, record) /\ page \in PageRec
      /\ UNCHANGED <<status, lapsed, charge, browser, left, loose, plain, counts>>
      /\ UNCHANGED <<status, left, loose, events>> /\ t.job = "early" /\ t.attempt = NoKey
  BY JobsAre, HearEarlyIs DEF LInv, Talk, counts, Types
<1>2. t.at \in {"drop", "reserve"} =>
        /\ what = t.answer /\ what \in Answer
        /\ task["flow"].at \in {"none", "take"}
  BY <1>1, RepliesNeverWait, TaskFields DEF LInv, Layout, EarlyInv, FlowInv
<1>3. CASE t.at = "drop" /\ EarlyReserves(t, IntentFor(cart))
  <2>1. page.phase.kind = "none"
    BY <1>3 DEF LInv, Layout, EarlyInv
  <2>2. IntentFor(cart) \in {page.intent, NoKey}
    BY IntentIs DEF LInv
  <2> QED
    BY <1>1, <1>2, <1>3, <2>1, <2>2, EarlyReservesClaims
<1>4. CASE /\ t.at = "drop" /\ Ends("early") /\ UNCHANGED <<record, page, history>>
  BY <1>1, <1>2, <1>4, EarlyEndsClaims DEF history
<1>5. CASE /\ t.at = "reserve" /\ what.is = "held" /\ Ends("early")
           /\ page' = [page EXCEPT !.phase = Phase("held", what.order, t.cart)]
           /\ owed' = owed \cup {what.order}
           /\ UNCHANGED <<record, asked, denied>>
  <2>1. /\ page'.intent = page.intent /\ page'.attempt = page.attempt
        /\ page'.phase = Phase("held", what.order, t.cart)
    BY <1>1, <1>5 DEF PageRec
  <2>2. page'.phase.kind = "held" /\ page'.phase.order = what.order
    BY <2>1, PhaseFields
  <2>3. t.key = page.intent /\ t.key \in Key
    BY <1>1, <1>5, Basics, TaskFields DEF KInv, KeysApart, Answers
  <2>4. Got(record, page.intent, what.order)
    BY <1>1, <1>2, <1>5, <2>3 DEF Got, Answers
  <2>5. page.phase.kind = "reserving"
    BY <1>5 DEF LInv, Layout, EarlyInv
  <2> QED
    BY <1>1, <1>2, <1>5, <2>1, <2>2, <2>4, <2>5, EarlyEndsClaims
<1>6. CASE /\ t.at = "reserve" /\ what.is # "held" /\ Ends("early")
           /\ page' = [page EXCEPT !.phase = Phase("failed", NoOrder, t.cart),
                                   !.intent = SettledIntent(what.is)]
           /\ UNCHANGED <<record, history>>
  <2>1. /\ page'.intent = SettledIntent(what.is) /\ page'.attempt = page.attempt
        /\ page'.phase = Phase("failed", NoOrder, t.cart)
    BY <1>1, <1>6 DEF PageRec
  <2>2. page'.phase.kind = "failed"
    BY <2>1, PhaseFields
  <2>3. page.phase.kind = "reserving" /\ SettledIntent(what.is) \in {page.intent, NoKey}
    BY <1>1, <1>6, SettledIs DEF LInv, Layout, EarlyInv
  <2> QED
    BY <1>1, <1>2, <1>6, <2>1, <2>2, <2>3, EarlyEndsClaims DEF history
<1> QED
  BY <1>3, <1>4, <1>5, <1>6, HearEarlyIs

(* A step that is about no reservation and no placement.                   *)
LEMMA CalmClaims ==
  ASSUME LInv, LInv', KInv, UNCHANGED <<record, asked, left, loose>>,
         \A o \in Order : status'[o] \in {"none", "charging"} => status'[o] = status[o],
         "trouble" \in events => "trouble" \in events',
         task'["early"] = task["early"],
         \/ task'["flow"] = task["flow"]
         \/ /\ task["flow"].at \notin {"drop", "undo", "reserve", "place"}
            /\ task'["flow"].at \notin {"drop", "undo", "reserve", "place"},
         \/ page'.intent = page.intent
         \/ /\ page'.intent = NoKey
            /\ task'["early"].at # "reserve" /\ task'["flow"].at # "reserve",
         page'.attempt = page.attempt,
         \/ page'.phase = page.phase
         \/ page'.phase.kind = "ordered"
         \/ page'.phase.kind = "none" /\ (page'.intent = NoKey \/ page.phase.kind = "failed")
  PROVE  KInv'
<1> USE DEF KInv
<1>1. /\ KeysStay /\ left' = left /\ loose' = loose /\ record' = record /\ asked' = asked
      /\ asked' \subseteq Order
  BY SameRecord DEF LInv, Types
<1>2. \A k, o : Got(record', page'.intent, o) => Got(record, page.intent, o)
  BY <1>1, Basics DEF Got
<1>3. KeysApart'
  <2>1. \A i \in Mine' : i \in Mine
    BY DEF Mine
  <2>2. task'["flow"].at = "place" => page'.phase.order = page.phase.order
    BY DEF LInv, Layout, FlowInv
  <2> QED
    BY <1>1, <2>1, <2>2, KeysOfPage DEF KeysApart
<1>4. Claims'
  <2>1. \A o \in Order : Owned(o)' => Owned(o)
    BY <1>2 DEF Owned
  <2>2. ASSUME NEW o \in Order, o \in Releasing'
        PROVE  o \in Releasing
    <3>1. PICK t \in Tasks' : t.at \in {"drop", "undo"} /\ t.order = o
      BY <2>2 DEF Releasing
    <3>2. t \in Tasks
      <4>1. task'["code"].at \notin {"drop", "undo"} /\ task'["resume"].at \notin {"drop", "undo"}
        BY DEF LInv, Layout, CodeInv, ResumeInv
      <4> QED
        BY <1>1, <3>1, <4>1, JobsAre, TasksAre, TasksAreNext DEF LInv
    <3> QED
      BY <3>1, <3>2, Releases1
  <2> QED
    BY <1>1, <2>1, <2>2, ClaimsStep DEF Got
<1>5. Placed'
  <2>1. page'.phase.kind = "held" => page'.phase.order \notin asked
    BY DEF Placed
  <2>2. ASSUME NEW o \in asked, Got(record', page'.intent, o)
        PROVE  \/ page'.phase.kind \notin {"none", "failed", "reserving"}
               \/ /\ task'["flow"].at = "reserve" /\ "trouble" \in events'
                  /\ task'["flow"].answer.is # "unknown"
    <3>1. Got(record, page.intent, o) /\ page'.intent # NoKey
      BY <1>2, <2>2, Basics DEF Got
    <3> QED
      BY <3>1 DEF Placed
  <2> QED
    BY <1>1, <2>1, <2>2 DEF Placed
<1>6. Before'
  <2>1. "trouble" \notin events' =>
           /\ \A t \in loose' : t \in loose \/ t.at = "drop"
           /\ \A t \in Placers' : t.at = "place" => \E u \in Placers : Like(t, u)
           /\ \A u \in Placers : u.at = "place" => \E t \in Placers' : Like(t, u)
           /\ task'["flow"].at # "place" => page'.attempt = NoKey
           /\ \A t \in left' : t.at # "place" => t.attempt = NoKey
           /\ page'.phase.kind = "placing" => task'["flow"].at \in {"place", "undo"}
    BY <1>1 DEF Before, Placers, Like
  <2> QED
    BY <1>1, <2>1, BeforeStep DEF Waits
<1> QED
  BY <1>3, <1>4, <1>5, <1>6

LEMMA RetryEarlyClaims ==
  ASSUME LInv, LInv', KInv, RetryEarly
  PROVE  KInv'
<1>1. /\ page.phase.kind = "failed" /\ page' = [page EXCEPT !.phase = NoPhase] /\ page \in PageRec
      /\ UNCHANGED <<record, asked, left, loose, status, events, task>>
  BY DEF RetryEarly, Idle, LInv, Types, server, history, counts
<1>2. page'.phase.kind = "none" /\ page'.intent = page.intent /\ page'.attempt = page.attempt
  BY <1>1, PhaseFields DEF PageRec
<1> QED
  BY <1>1, <1>2, CalmClaims

LEMMA PressClaims ==
  ASSUME LInv, LInv', KInv, Press
  PROVE  KInv'
<1>1. /\ page' = [page EXCEPT !.own = "busy"] /\ page \in PageRec /\ task["flow"].at = "none"
      /\ task["flow"] \in TaskRec /\ task \in [Job -> TaskRec]
      /\ task' = [task EXCEPT !["flow"] = [@ EXCEPT !.at = "take", !.cart = cart, !.pay = page.pay]]
      /\ UNCHANGED <<record, asked, left, loose, status, events>>
  BY JobsAre DEF Press, LInv, Types, server, history, counts
<1>2. /\ page'.phase = page.phase /\ page'.intent = page.intent /\ page'.attempt = page.attempt
      /\ task'["early"] = task["early"] /\ task'["flow"].at = "take"
  BY <1>1, JobsAre DEF PageRec, TaskRec
<1> QED
  BY <1>1, <1>2, CalmClaims

LEMMA SubmitClaims ==
  ASSUME LInv, LInv', KInv, Submit
  PROVE  KInv'
<1>1. /\ page' = [page EXCEPT !.own = "check"] /\ page \in PageRec /\ task \in [Job -> TaskRec]
      /\ task' = [task EXCEPT !["code"] = Ask(@, "confirm", page.order)]
      /\ UNCHANGED <<record, asked, left, loose, status, events>>
  BY DEF Submit, LInv, Types, server, history, counts
<1>2. /\ page'.phase = page.phase /\ page'.intent = page.intent /\ page'.attempt = page.attempt
      /\ task'["early"] = task["early"] /\ task'["flow"] = task["flow"]
  BY <1>1, JobsAre DEF PageRec
<1> QED
  BY <1>1, <1>2, CalmClaims

LEMMA AbandonClaims ==
  ASSUME LInv, LInv', KInv, NEW j \in {"flow", "code"}, NEW o \in 0..MaxOrders, Abandon(j, o),
         page.phase.kind = "ordered", task["flow"].at = "none"
  PROVE  KInv'
<1>1. UNCHANGED <<record, asked, left, loose, status, events>>
  BY DEF Abandon, server, history
<1>2. /\ PageIs(page', page.on, "busy", page.order, "no", page.phase, NoKey, page.attempt)
      /\ TaskIs(task'[j], j, "abandon", o, NoKey, NoKey, Unsaid)
      /\ OnlyTask(j, task'[j]) /\ j \in Job
  BY JobsAre, AbandonIs DEF LInv, Layout
<1>3. /\ page'.phase = page.phase /\ page'.intent = NoKey /\ page'.attempt = page.attempt
      /\ task'["early"] = task["early"] /\ task'["flow"].at \in {"none", "abandon"}
  BY <1>2, JobsAre DEF PageIs, TaskIs, OnlyTask
<1>4. task'["early"].at # "reserve"
  BY <1>3 DEF LInv, Layout, EarlyInv
<1> QED
  BY <1>1, <1>3, <1>4, CalmClaims

LEMMA CancelClaims ==
  ASSUME LInv, LInv', KInv, Cancel
  PROVE  KInv'
<1>1. /\ Abandon("flow", page.order) /\ page.order \in 0..MaxOrders /\ task["flow"].at = "none"
      /\ page.phase.kind = "ordered"
  BY TypesGive DEF Cancel, LInv, Layout, PhaseInv
<1> QED
  BY <1>1, AbandonClaims

LEMMA RetryResumeClaims ==
  ASSUME LInv, LInv', KInv, RetryResume
  PROVE  KInv'
<1>1. /\ page' = [page EXCEPT !.resume = "reading"] /\ page \in PageRec /\ task \in [Job -> TaskRec]
      /\ task' = [task EXCEPT !["resume"] = Ask(@, "read", page.order)]
      /\ UNCHANGED <<record, asked, left, loose, status, events>>
  BY DEF RetryResume, LInv, Types, server, history, counts
<1>2. /\ page'.phase = page.phase /\ page'.intent = page.intent /\ page'.attempt = page.attempt
      /\ task'["early"] = task["early"] /\ task'["flow"] = task["flow"]
  BY <1>1, JobsAre DEF PageRec
<1> QED
  BY <1>1, <1>2, CalmClaims

LEMMA ChangeClaims ==
  ASSUME LInv, LInv', KInv, Change
  PROVE  KInv'
<1>1. /\ UNCHANGED <<record, asked, left, loose, status, task>> /\ events \subseteq events'
      /\ page' = page \/ \E p \in Payment : page' = [page EXCEPT !.pay = p]
      /\ page \in PageRec
  BY DEF Change, Happens, LInv, Types, server, history
<1>2. page'.phase = page.phase /\ page'.intent = page.intent /\ page'.attempt = page.attempt
  BY <1>1 DEF PageRec
<1> QED
  BY <1>1, <1>2, CalmClaims

LEMMA TimePassesClaims ==
  ASSUME LInv, LInv', KInv, TimePasses
  PROVE  KInv'
<1>1. PICK o \in Order : Lapses(o)
  BY DEF TimePasses
<1>2. /\ UNCHANGED <<record, asked, left, loose, task, page>> /\ events \subseteq events'
      /\ status \in [Order -> Status]
  BY <1>1 DEF TimePasses, Lapses, Happens, LInv, Types, history
<1>3. \A p \in Order : status'[p] \in {"none", "charging"} => status'[p] = status[p]
  BY <1>1, <1>2 DEF Lapses
<1> QED
  BY <1>2, <1>3, CalmClaims

LEMMA HearAbandonClaims ==
  ASSUME LInv, LInv', KInv, NEW j \in {"flow", "code"}, HearAbandon(j), ~Finish(j)
  PROVE  KInv'
<1> DEFINE t == task[j]
<1>1. /\ t.at \in {"abandon", "look"} /\ page.intent = NoKey /\ page \in PageRec
      /\ t \in TaskRec /\ task \in [Job -> TaskRec] /\ j \in Job
      /\ UNCHANGED <<record, asked, left, loose, status, events>>
  BY JobsAre DEF HearAbandon, LInv, Layout, FlowInv, CodeInv, Types, server, history, counts
<1>2. /\ page'.intent = page.intent /\ page'.attempt = page.attempt
      /\ page'.phase = page.phase \/ page'.phase.kind = "none"
  <2>1. page' = page \/ page' = [page EXCEPT !.own = "idle", !.phase = NoPhase]
    BY DEF HearAbandon
  <2> QED
    BY <1>1, <2>1, PhaseFields DEF PageRec
<1>3. OnlyTask(j, task'[j]) /\ task'[j].at \in {"look", "none"}
  <2>1. CASE task' = [task EXCEPT ![j] = Ask(t, "look", t.order)]
    <3>1. TaskIs(Ask(t, "look", t.order), t.job, "look", t.order, NoKey, t.attempt, Unsaid)
      BY <1>1, AskIs, TaskFields DEF At
    <3> QED
      BY <1>1, <2>1, <3>1, OneTask DEF TaskIs, OnlyTask, LInv
  <2>2. CASE Ends(j)
    BY <1>1, <2>2, EndsIs DEF OnlyTask, TaskIs, LInv
  <2> QED
    BY <2>1, <2>2 DEF HearAbandon
<1>4. /\ task'["early"] = task["early"]
      /\ \/ task'["flow"] = task["flow"]
         \/ task["flow"].at \in {"abandon", "look"} /\ task'["flow"].at \in {"look", "none"}
  BY <1>1, <1>3, JobsAre DEF OnlyTask
<1> QED
  BY <1>1, <1>2, <1>4, CalmClaims

LEMMA HearCodeClaims ==
  ASSUME LInv, LInv', KInv, HearCode, ~Finish("code")
  PROVE  KInv'
<1> DEFINE t == task["code"]
<1>1. t.at = "confirm" /\ t \in TaskRec /\ t.order \in 0..MaxOrders /\ page.own = "check"
  BY JobsAre, TaskFields DEF HearCode, LInv, Layout, CodeInv
<1>2. task["flow"].at = "none" /\ page.phase.kind = "ordered" /\ page \in PageRec
  BY <1>1, ChallengeShown, TypesGive DEF LInv
<1>3. CASE /\ Ends("code") /\ page' = [page EXCEPT !.own = IF @ = "check" THEN "code" ELSE @]
           /\ UNCHANGED <<server, browser, left, loose, history, plain, counts>>
  <2>1. UNCHANGED <<record, asked, left, loose, status, events>>
    BY <1>3 DEF server, history, counts
  <2>2. page'.phase = page.phase /\ page'.intent = page.intent /\ page'.attempt = page.attempt
    BY <1>2, <1>3 DEF PageRec
  <2>3. task'["early"] = task["early"] /\ task'["flow"] = task["flow"]
    BY <1>3, JobsAre, EndsIs DEF OnlyTask, LInv
  <2> QED
    BY <2>1, <2>2, <2>3, CalmClaims
<1>4. CASE Abandon("code", t.order)
  BY <1>1, <1>2, <1>4, AbandonClaims
<1> QED
  BY <1>3, <1>4 DEF HearCode

LEMMA HearResumeClaims ==
  ASSUME LInv, LInv', KInv, HearResume, ~Finish("resume")
  PROVE  KInv'
<1> DEFINE t == task["resume"]
           what == Reply(t).is
<1>1. /\ t.at = "read" /\ t \in TaskRec /\ t.order \in 0..MaxOrders /\ Named
      /\ page.phase.kind = "none" /\ page.intent = NoKey /\ page \in PageRec
      /\ \A j \in Job \ {"resume"} : task[j].at = "none"
      /\ task \in [Job -> TaskRec]
      /\ UNCHANGED <<record, asked, left, loose, status, events>>
  BY JobsAre, TaskFields, ResumeUnderWay DEF HearResume, LInv, Layout, ResumeInv, Types, server,
     history, counts
<1>2. CASE /\ page' = [page EXCEPT !.own = "busy", !.resume = "no", !.intent = NoKey]
           /\ task' = [task EXCEPT !["resume"] = Rest(@.job), !["flow"] = Ask(@, "abandon", t.order)]
  <2>1. page'.phase = page.phase /\ page'.intent = page.intent /\ page'.attempt = page.attempt
    BY <1>1, <1>2 DEF PageRec
  <2>2. TaskIs(Ask(task["flow"], "abandon", t.order), "flow", "abandon", t.order, NoKey, NoKey,
               Unsaid)
    BY <1>1, AskIs, JobsAre DEF At, Named
  <2>3. task'["early"] = task["early"] /\ task'["flow"] = Ask(task["flow"], "abandon", t.order)
    BY <1>1, <1>2, JobsAre
  <2>4. task'["flow"].at = "abandon" /\ task["flow"].at = "none"
    BY <1>1, <2>2, <2>3, JobsAre DEF TaskIs
  <2> QED
    BY <1>1, <2>1, <2>3, <2>4, CalmClaims
<1>3. CASE /\ what \in {"challenge", "gone", "unknown"} /\ Ends("resume")
           /\ page' = CASE what = "challenge" ->
                             [page EXCEPT !.resume = "no", !.own = "code", !.order = t.order,
                                          !.phase = Phase("ordered", t.order, NoCart)]
                         [] what = "gone" -> [page EXCEPT !.resume = "no"]
                         [] OTHER -> [page EXCEPT !.resume = "failed"]
  <2>1. task'["early"] = task["early"] /\ task'["flow"] = task["flow"]
    BY <1>3, JobsAre, EndsIs DEF OnlyTask, LInv
  <2>2. /\ page'.intent = page.intent /\ page'.attempt = page.attempt
        /\ page'.phase = page.phase \/ page'.phase = Phase("ordered", t.order, NoCart)
    BY <1>1, <1>3 DEF PageRec
  <2> QED
    BY <1>1, <2>1, <2>2, PhaseFields, CalmClaims
<1> QED
  BY <1>2, <1>3 DEF HearResume

LEMMA OpenClaims ==
  ASSUME LInv, LInv', KInv, Open
  PROVE  KInv'
<1>1. /\ page = Blank /\ task = NoTasks /\ events \subseteq events'
      /\ UNCHANGED <<record, asked, left, loose, status>>
  BY DEF Open, Happens, LInv, Layout, Off, server, history
<1>2. /\ page'.phase = page.phase /\ page'.intent = page.intent /\ page'.attempt = page.attempt
  BY <1>1 DEF Open, Blank
<1>3. task'["early"] = task["early"] /\ task'["flow"] = task["flow"]
  BY <1>1, JobsAre, BlankIs DEF Open
<1> QED
  BY <1>1, <1>2, <1>3, CalmClaims

-----------------------------------------------------------------------------
(* The placement                                                           *)

(* A placement the servers work on is not answered.                        *)
LEMMA WaitsIsUnanswered ==
  ASSUME NEW t, NEW o, Waits(t, o)
  PROVE  Reply(t) = Unsaid /\ ~Answered(t) /\ t.at = "place"
BY SaidFields DEF Waits, Reply, Answered

(* The flow goes on to something else than a placement.                    *)
LEMMA BeforeOfFlow ==
  ASSUME LInv, Before, KeysStay, left' = left, loose' = loose, status' = status,
         "trouble" \in events => "trouble" \in events',
         task["flow"].at = "place" => Answered(task["flow"]),
         "trouble" \notin events' =>
           /\ task'["flow"].at # "place" /\ page'.attempt = NoKey
           /\ page'.phase.kind = "placing" => task'["flow"].at = "undo"
  PROVE  Before'
<1>1. \A o \in Order : ~Waits(task["flow"], o)
  BY WaitsIsUnanswered
<1>2. "trouble" \notin events' =>
           /\ \A t \in loose' : t \in loose \/ t.at = "drop"
           /\ \A t \in Placers' : t.at = "place" => \E u \in Placers : Like(t, u)
           /\ \A u \in Placers, o \in Order : Waits(u, o) => \E t \in Placers' : Like(t, u)
           /\ task'["flow"].at # "place" => page'.attempt = NoKey
           /\ \A t \in left' : t.at # "place" => t.attempt = NoKey
           /\ page'.phase.kind = "placing" => task'["flow"].at \in {"place", "undo"}
  BY <1>1 DEF Before, Placers, Like
<1> QED
  BY <1>2, BeforeStep

LEMMA FlowReservesClaims ==
  ASSUME LInv, LInv', KInv, NEW kept \in {page.intent, NoKey}, FlowReserves(kept),
         UNCHANGED <<status, lapsed, charge, browser, left, loose, plain, counts>>,
         task["flow"].at \in {"take", "drop"}, task["early"].at = "none",
         page.phase.kind \in {"none", "failed", "placing"}
  PROVE  KInv'
<1> USE DEF KInv
<1>0. /\ Types /\ Named /\ Takes(kept) /\ asked' = asked /\ kept \in 0..MaxKeys
      /\ events' = events /\ left' = left /\ loose' = loose /\ status' = status
  BY TypesGive, Basics DEF LInv, Layout, FlowReserves, history, counts
<1> DEFINE k == KeyFrom(kept)
<1>1. /\ PageIs(page', page.on, page.own, page.order, page.resume,
                IF page.phase.kind = "placing" THEN NoPhase ELSE page.phase, k, page.attempt)
      /\ TaskIs(task'["flow"], "flow", "reserve", NoOrder, k, NoKey, Unsaid)
      /\ OnlyTask("flow", task'["flow"])
  BY <1>0, FlowReservesIs
<1>2. page'.phase.kind \in {"none", "failed"} /\ task'["early"].at = "none"
  BY <1>1, PhaseFields, JobsAre DEF PageIs, OnlyTask
<1>3. KeysStay
  BY <1>0, KeysStayBy
<1>4. /\ k \in Key /\ k # NoKey
      /\ k = page.intent \/ (k \notin KeysInUse /\ \A o : ~Got(record', k, o))
      /\ page.intent \in KeysInUse /\ page.attempt \in KeysInUse
  BY <1>0, KeyIsMine
<1> HIDE DEF k
<1>5. KeysApart'
  <2>1. Mine' = {k, page.attempt} \ {NoKey} /\ \A i \in Mine' : i \in Mine \/ i \notin KeysInUse
    BY <1>1, <1>4 DEF Mine, PageIs
  <2>2. page'.intent # page'.attempt
    BY <1>1, <1>4 DEF PageIs, KeysApart
  <2> QED
    BY <1>0, <1>1, <1>2, <2>1, <2>2, KeysOfPage DEF KeysApart, PageIs, TaskIs
<1>6. Claims'
  <2>1. \A o \in Order : Owned(o)' => Owned(o)
    BY <1>1, <1>2, <1>3, <1>4, NothingIsGot DEF Owned, PageIs
  <2> QED
    BY <1>0, <1>1, <1>3, <2>1, JobsAre, ClaimsOfPage DEF TaskIs
<1>7. Placed'
  <2>1. ASSUME NEW o \in asked, Got(record', page'.intent, o)
        PROVE  "trouble" \in events'
    <3>1. Got(record, page.intent, o)
      BY <1>1, <1>3, <1>4, <2>1, NothingIsGot DEF PageIs
    <3>2. page.phase.kind = "placing"
      BY <3>1 DEF Placed
    <3> QED
      BY <1>0, <3>2 DEF Before
  <2>2. \A t \in left, o \in asked : t.at = "reserve" /\ t.job = "early" => ~Got(record', t.key, o)
    BY <1>3, NothingIsGot DEF Placed
  <2>3. task'["flow"].at = "reserve" /\ task'["flow"].answer.is # "unknown"
    BY <1>1, SaidFields DEF TaskIs
  <2> QED
    BY <1>0, <1>2, <2>1, <2>2, <2>3 DEF Placed
<1>8. Before'
  BY <1>0, <1>1, <1>2, <1>3, BeforeOfFlow DEF PageIs, TaskIs, Before
<1> QED
  BY <1>5, <1>6, <1>7, <1>8

LEMMA FlowPlacesClaims ==
  ASSUME LInv, LInv', KInv, NEW held \in PhaseRec, FlowPlaces(held), held.order # NoOrder,
         UNCHANGED <<status, lapsed, charge, browser, left, loose, plain, counts>>,
         task["flow"].at \in {"take", "reserve"}, task["early"].at = "none", Owned(held.order)
  PROVE  KInv'
<1> USE DEF KInv
<1>0. /\ Types /\ Named /\ Takes(page.attempt) /\ asked' = asked \cup {held.order}
      /\ page.attempt \in 0..MaxKeys /\ held.order \in Order
      /\ events' = events /\ left' = left /\ loose' = loose /\ status' = status
  BY TypesGive, Basics DEF LInv, Layout, FlowPlaces, counts, PhaseRec
<1> DEFINE k == KeyFrom(page.attempt)
<1>1. /\ PageIs(page', page.on, page.own, page.order, page.resume,
                [held EXCEPT !.kind = "placing"], page.intent, k)
      /\ TaskIs(task'["flow"], "flow", "place", held.order, k, NoKey, Unsaid)
      /\ OnlyTask("flow", task'["flow"])
  BY <1>0, FlowPlacesIs
<1>2. /\ page'.phase.kind = "placing" /\ page'.phase.order = held.order
      /\ task'["early"].at = "none"
  BY <1>1, PhaseFields, JobsAre DEF PageIs, OnlyTask
<1>3. KeysStay
  BY <1>0, KeysStayBy
<1>4. /\ k \in Key /\ k # NoKey
      /\ k = page.attempt \/ k \notin KeysInUse
      /\ page.attempt = NoKey => record'[k] = FreeKey
      /\ page.intent \in KeysInUse /\ page.attempt \in KeysInUse
  BY <1>0, KeyIsMine, KeyIsTaken
<1> HIDE DEF k
<1>5. KeysApart'
  <2>1. Mine' = {k, page.intent} \ {NoKey} /\ \A i \in Mine' : i \in Mine \/ i \notin KeysInUse
    BY <1>1, <1>4 DEF Mine, PageIs
  <2>2. page'.intent # page'.attempt
    BY <1>1, <1>4 DEF PageIs, KeysApart
  <2> QED
    BY <1>0, <1>1, <1>2, <2>1, <2>2, KeysOfPage DEF KeysApart, PageIs, TaskIs
<1>6. Claims'
  <2>1. \A o \in Order : Owned(o)' => Owned(o)
    BY <1>1, <1>2, <1>3, NothingIsGot DEF Owned, PageIs
  <2> QED
    BY <1>0, <1>1, <1>3, <2>1, JobsAre, ClaimsOfPage DEF TaskIs
<1>7. Placed'
  <2>1. ASSUME NEW t \in left, NEW o \in asked', t.at = "reserve", t.job = "early",
               Got(record', t.key, o)
        PROVE  FALSE
    <3>1. Got(record, t.key, o)
      BY <1>3, <2>1, NothingIsGot
    <3>2. o = held.order
      BY <1>0, <2>1, <3>1 DEF Placed
    <3> QED
      BY <1>0, <2>1, <3>1, <3>2 DEF Claims, OneOwner, Owns
  <2> QED
    BY <1>0, <1>2, <2>1 DEF Placed
<1>8. Before'
  <2>1. "trouble" \notin events' =>
           /\ \A t \in loose' : t \in loose \/ t.at = "drop"
           /\ \A t \in Placers' : t.at = "place" =>
                \/ \E u \in Placers : Like(t, u)
                \/ t.answer.is = "none" /\ record'[t.key] = FreeKey
           /\ \A u \in Placers, o \in Order : Waits(u, o) => \E t \in Placers' : Like(t, u)
           /\ task'["flow"].at # "place" => page'.attempt = NoKey
           /\ \A t \in left' : t.at # "place" => t.attempt = NoKey
           /\ page'.phase.kind = "placing" => task'["flow"].at \in {"place", "undo"}
    <3> SUFFICES ASSUME "trouble" \notin events
                 PROVE  /\ \A t \in Placers' : t.at = "place" =>
                             \/ \E u \in Placers : Like(t, u)
                             \/ t.answer.is = "none" /\ record'[t.key] = FreeKey
                        /\ \A u \in Placers, o \in Order : Waits(u, o) =>
                             \E t \in Placers' : Like(t, u)
      BY <1>0, <1>1 DEF Before, TaskIs
    <3>1. task'["flow"].answer.is = "none" /\ record'[task'["flow"].key] = FreeKey
      BY <1>1, <1>4, SaidFields DEF Before, TaskIs
    <3> QED
      BY <1>0, <3>1 DEF Placers, Like, Waits
  <2> QED
    BY <1>0, <1>3, <2>1, BeforeStep
<1> QED
  BY <1>5, <1>6, <1>7, <1>8

(* The flow hears its answer, and reserves and places nothing.             *)
LEMMA FlowMovesClaims ==
  ASSUME LInv, LInv', KInv, UNCHANGED <<record, status, left, loose, events>>,
         OnlyTask("flow", task'["flow"]), task["early"].at = "none",
         task'["flow"].at \notin {"reserve", "place"},
         task["flow"].at = "place" => Answered(task["flow"]),
         page'.intent \in {page.intent, NoKey}, page'.attempt \in {page.attempt, NoKey},
         "trouble" \notin events =>
           /\ page'.attempt = NoKey
           /\ page'.phase.kind = "placing" => task'["flow"].at = "undo",
         \A o \in Order : page'.phase.kind \in {"held", "placing"} /\ task'["flow"].at # "undo"
                            /\ page'.phase.order = o => Owned(o),
         \A o \in Order : task'["flow"].at \in {"drop", "undo"} /\ task'["flow"].order = o =>
           Owned(o) /\ page'.intent = NoKey /\ o \notin asked'
             /\ (page'.phase.kind = "none" \/ task'["flow"].at = "undo"),
         asked' \subseteq asked,
         page'.phase.kind = "held" => page'.phase.order \notin asked',
         \A o \in asked' : Got(record, page'.intent, o) =>
           page'.phase.kind \notin {"none", "failed", "reserving"}
  PROVE  KInv'
<1> USE DEF KInv
<1>1. /\ KeysStay /\ left' = left /\ loose' = loose /\ record' = record /\ events' = events
      /\ status' = status
  BY SameRecord
<1>2. task'["early"] = task["early"]
  BY JobsAre DEF OnlyTask
<1>3. \A o : Got(record', page'.intent, o) => Got(record, page.intent, o)
  BY <1>1, Basics DEF Got
<1>4. KeysApart'
  <2>1. \A i \in Mine' : i \in Mine
    BY DEF Mine
  <2> QED
    BY <1>1, <1>2, <2>1, KeysOfPage DEF KeysApart
<1>5. Claims'
  <2>1. \A o \in Order : Owned(o)' => Owned(o)
    BY <1>3 DEF Owned
  <2>2. \A o \in Order : task'["flow"].at \in {"drop", "undo"} /\ task'["flow"].order = o => ~Owned(o)'
    BY Basics DEF Owned, Got
  <2> QED
    BY <1>1, <2>1, <2>2, JobsAre, ClaimsOfPage
<1>6. Placed'
  BY <1>1 DEF Placed
<1>7. Before'
  BY <1>1, BeforeOfFlow
<1> QED
  BY <1>4, <1>5, <1>6, <1>7

LEMMA TakeClaims ==
  ASSUME LInv, LInv', KInv, Take
  PROVE  KInv'
<1> DEFINE t == task["flow"]
           held == page.phase
<1>1. /\ t.at = "take" /\ task["early"].at = "none" /\ Types /\ Named
      /\ UNCHANGED <<status, lapsed, charge, browser, left, loose, plain, counts>>
      /\ UNCHANGED <<status, left, loose, events>>
      /\ held \in PhaseRec /\ held.kind \in PhaseKind
      /\ held.kind \notin {"ordered", "reserving"}
      /\ held.kind \in {"held", "placing"} => held.order # NoOrder
  BY TypesGive DEF Take, LInv, Layout, EarlyInv, FlowInv, CodeInv, PhaseInv, Abandoning, PhaseRec,
     counts
<1>2. PICK old \in Over(held.order) :
        \/ held.kind \in {"held", "placing"} /\ FlowPlaces(held)
        \/ held.kind = "held" /\ FlowReleases("drop", held.order)
        \/ held.kind # "held" /\ FlowReserves(IntentFor(t.cart))
  BY DEF Take
<1>3. CASE held.kind \in {"held", "placing"} /\ FlowPlaces(held)
  <2>1. Owned(held.order)
    BY <1>1, <1>3 DEF Owned
  <2> QED
    BY <1>1, <1>3, <2>1, FlowPlacesClaims
<1>4. CASE held.kind # "held" /\ FlowReserves(IntentFor(t.cart))
  <2>1. held.kind \in {"none", "failed", "placing"} /\ IntentFor(t.cart) \in {page.intent, NoKey}
    BY <1>1, <1>4, IntentIs DEF PhaseKind
  <2> QED
    BY <1>1, <1>4, <2>1, FlowReservesClaims
<1>5. CASE held.kind = "held" /\ FlowReleases("drop", held.order)
  <2>1. record' = record /\ asked' = asked
    BY <1>5 DEF FlowReleases
  <2>2. /\ PageIs(page', page.on, page.own, page.order, page.resume, NoPhase, NoKey, page.attempt)
        /\ TaskIs(task'["flow"], "flow", "drop", held.order, NoKey, NoKey, Unsaid)
        /\ OnlyTask("flow", task'["flow"])
    BY <1>1, <1>5, TypesGive, FlowReleasesIs DEF At
  <2>3. page'.phase.kind = "none"
    BY <2>2, PhaseFields DEF PageIs
  <2>4. /\ "trouble" \notin events => page.attempt = NoKey
        /\ held.order \notin asked
        /\ \A o \in Order : held.order = o => Owned(o)
    BY <1>1, <1>5 DEF KInv, Before, Placed, Owned
  <2> QED
    BY <1>1, <2>1, <2>2, <2>3, <2>4, Basics, FlowMovesClaims DEF PageIs, TaskIs, Got
<1> QED
  BY <1>2, <1>3, <1>4, <1>5

LEMMA HearReserveClaims ==
  ASSUME LInv, LInv', KInv, HearReserve
  PROVE  KInv'
<1> DEFINE t == task["flow"]
           what == Reply(t)
<1>1. /\ t \in TaskRec /\ Answers(t, record) /\ t.cart \in Cart \cup {NoCart} /\ Types /\ Talk
      /\ UNCHANGED <<status, lapsed, charge, browser, left, loose, plain, counts>>
      /\ UNCHANGED <<status, left, loose, events>>
  BY JobsAre, TaskFields DEF HearReserve, LInv, Talk, counts
<1>2. t.at \in {"drop", "reserve"} =>
         task["early"].at = "none" /\ page.phase.kind \in {"none", "failed"}
  BY FlowUnderWay DEF LInv, Layout, FlowInv
<1>3. CASE t.at = "drop" /\ FlowReserves(IntentFor(t.cart))
  BY <1>1, <1>2, <1>3, IntentIs, FlowReservesClaims
<1>4. CASE t.at = "reserve" /\ what.is = "held" /\ FlowPlaces(Phase("held", what.order, t.cart))
  <2>1. /\ what.order # NoOrder /\ what.order \in 0..MaxOrders
        /\ t.key \in Key /\ Holds(record, t.key, what.order)
    BY <1>1, <1>4, HeldOrder, Basics
  <2>2. /\ Phase("held", what.order, t.cart) \in PhaseRec
        /\ Phase("held", what.order, t.cart).order = what.order
    BY <2>1, <1>1, PhaseFields DEF PhaseKind
  <2>3. Owned(what.order)
    BY <1>4, <2>1 DEF Owned, Got, KInv, KeysApart
  <2> HIDE DEF what
  <2> QED
    BY <1>1, <1>2, <1>4, <2>1, <2>2, <2>3, FlowPlacesClaims
<1>5. CASE /\ t.at = "reserve" /\ what.is # "held"
           /\ BackToIdle(NoPhase, SettledIntent(what.is), page.attempt)
           /\ UNCHANGED history
  <2>1. /\ record' = record /\ asked' = asked /\ what = t.answer
        /\ SettledIntent(what.is) = IF what.is = "unknown" THEN page.intent ELSE NoKey
        /\ SettledIntent(what.is) \in 0..MaxKeys
    BY <1>1, <1>5, SettledIs, RepliesNeverWait DEF BackToIdle, history
  <2>2. /\ PageIs(page', page.on, "idle", page.order, page.resume, NoPhase, SettledIntent(what.is),
                  page.attempt)
        /\ TaskIs(task'["flow"], "flow", "none", NoOrder, NoKey, NoKey, Unsaid)
        /\ OnlyTask("flow", task'["flow"])
    BY <1>1, <1>5, <2>1, BackToIdleIs, PhaseFields, TypesGive
  <2>3. page'.phase.kind = "none"
    BY <2>2, PhaseFields DEF PageIs
  <2>4. ASSUME NEW o \in asked, Got(record, page'.intent, o)
        PROVE  FALSE
    <3>1. what.is = "unknown" /\ Got(record, page.intent, o)
      BY <2>1, <2>2, <2>4, Basics DEF PageIs, Got
    <3> QED
      BY <1>2, <1>5, <2>1, <3>1 DEF KInv, Placed
  <2>5. "trouble" \notin events => page.attempt = NoKey
    BY <1>5 DEF KInv, Before
  <2>6. page'.intent \in {page.intent, NoKey} /\ page'.attempt = page.attempt
    BY <2>1, <2>2 DEF PageIs
  <2> QED
    BY <1>1, <1>2, <1>5, <2>1, <2>2, <2>3, <2>4, <2>5, <2>6, FlowMovesClaims DEF TaskIs
<1> QED
  BY <1>3, <1>4, <1>5 DEF HearReserve

(* Without trouble the outcome of a placement is known.                    *)
LEMMA NoTroubleIsKnown ==
  ASSUME LInv, Before, NEW t \in Placers, t.at = "place", Reply(t).is = "unknown"
  PROVE  "trouble" \in events
<1> SUFFICES ASSUME "trouble" \notin events
             PROVE  FALSE
  OBVIOUS
<1>1. t \in TaskRec /\ Answers(t, record)
  BY TypesGive, JobsAre DEF Placers, LInv, Talk
<1>2. t.key \in Key
  BY <1>1, Basics, TaskFields DEF Answers
<1>3. Asks(t) /\ record[t.key].answer.is # "unknown"
  BY <1>2 DEF Before, Placers
<1>4. record[t.key].state \in {"free", "busy", "done"}
  BY <1>2, TypesGive DEF LInv, RecordRec
<1>5. CASE t.answer.is # "wait"
  BY <1>3, <1>5 DEF Asks, Reply
<1>6. CASE t.answer.is = "wait"
  <2>1. Reply(t) = Unsaid \/ Reply(t) = record[t.key].answer
    BY <1>3, <1>4, <1>6 DEF Asks, Reply
  <2> QED
    BY <1>3, <2>1, SaidFields
<1> QED
  BY <1>5, <1>6

LEMMA PlacingFlow ==
  ASSUME LInv, KInv, task["flow"].at = "place"
  PROVE  /\ task["early"].at = "none" /\ page.phase.kind = "placing"
         /\ task["flow"].order = page.phase.order /\ task["flow"].order \in Order
         /\ \A o \in Order : task["flow"].order = o => Owned(o)
<1>1. /\ task["flow"] \in TaskRec /\ task["flow"].order # NoOrder
  BY JobsAre DEF LInv, Talk, Answers
<1>2. task["early"].at = "none" /\ page.phase.kind = "placing" /\ task["flow"].order = page.phase.order
  BY FlowUnderWay DEF LInv, Layout, FlowInv, KInv, KeysApart
<1> QED
  BY <1>1, <1>2, TaskFields, Basics DEF Owned

LEMMA HearRefusalClaims ==
  ASSUME LInv, LInv', KInv, HearRefusal
  PROVE  KInv'
<1> DEFINE t == task["flow"]
           what == Reply(t).is
           held == HeldBy(t, "held")
           phase == IF what = "method" THEN held ELSE [held EXCEPT !.with = t.pay]
<1>1. /\ t \in TaskRec /\ t.cart \in Cart \cup {NoCart} /\ t.pay \in Payment
      /\ t.order \in 0..MaxOrders /\ t.at = "place" /\ what \in {"cardless", "method"}
      /\ UNCHANGED <<record, status, left, loose, events>>
      /\ Ends("flow") /\ asked' = asked \ {t.order} /\ page \in PageRec
  BY JobsAre, TaskFields, TypesGive, DeniesIs DEF HearRefusal, LInv, server, counts
<1>2. /\ task["early"].at = "none" /\ t.order \in Order
      /\ \A o \in Order : t.order = o => Owned(o)
  BY <1>1, PlacingFlow
<1>3. phase.kind = "held" /\ phase.order = t.order
  <2>1. held \in PhaseRec /\ held.kind = "held" /\ held.order = t.order
    BY <1>1, HeldByIs DEF PhaseKind
  <2> HIDE DEF held
  <2> QED
    BY <1>1, <2>1, PhaseFields
<1>4. page'.phase = phase /\ page'.intent = page.intent /\ page'.attempt = NoKey
  <2>1. page' = [page EXCEPT !.own = "idle", !.attempt = NoKey,
                             !.pay = IF what = "method" THEN "card" ELSE @, !.phase = phase]
    BY DEF HearRefusal
  <2> HIDE DEF phase, what
  <2> QED
    BY <1>1, <2>1 DEF PageRec
<1>5. OnlyTask("flow", task'["flow"]) /\ task'["flow"].at = "none"
  BY <1>1, EndsIs, JobsAre DEF OnlyTask, TaskIs, LInv
<1>6. Answered(t)
  BY <1>1 DEF Answered
<1> HIDE DEF phase, what, t
<1> QED
  BY <1>1, <1>2, <1>3, <1>4, <1>5, <1>6, FlowMovesClaims DEF t

LEMMA HearFailureClaims ==
  ASSUME LInv, LInv', KInv, HearFailure
  PROVE  KInv'
<1> DEFINE t == task["flow"]
           what == Reply(t).is
<1>1. /\ t \in TaskRec /\ t.cart \in Cart \cup {NoCart} /\ t.order \in 0..MaxOrders
      /\ Named /\ Types /\ page \in PageRec
      /\ UNCHANGED <<status, left, loose, events>>
  BY JobsAre, TaskFields DEF HearFailure, LInv, Types, Layout, counts
<1>2. CASE /\ t.at = "place" /\ what = "error"
           /\ page' = [page EXCEPT !.intent = NoKey, !.attempt = SettledAttempt(what)]
           /\ task' = [task EXCEPT !["flow"] = Ask(@, "undo", t.order)]
           /\ asked' = asked \ {t.order} /\ UNCHANGED record
  <2>1. /\ task["early"].at = "none" /\ page.phase.kind = "placing"
        /\ \A o \in Order : t.order = o => Owned(o)
    BY <1>2, PlacingFlow
  <2>2. page'.phase = page.phase /\ page'.intent = NoKey /\ page'.attempt = NoKey
    BY <1>1, <1>2, SettledIs DEF PageRec
  <2>3. TaskIs(Ask(t, "undo", t.order), "flow", "undo", t.order, NoKey, NoKey, Unsaid)
    BY <1>1, AskIs, JobsAre DEF At, Named
  <2>4. /\ OnlyTask("flow", task'["flow"]) /\ task'["flow"].at = "undo"
        /\ task'["flow"].order = t.order
    BY <1>1, <1>2, <2>3, OneTask, JobsAre DEF TaskIs, OnlyTask
  <2>5. Answered(t)
    BY <1>2 DEF Answered
  <2> HIDE DEF what
  <2> QED
    BY <1>1, <1>2, <2>1, <2>2, <2>4, <2>5, FlowMovesClaims
<1>3. CASE /\ t.at = "place" /\ what = "unknown"
           /\ BackToIdle(HeldBy(t, "placing"), page.intent, SettledAttempt(what))
           /\ UNCHANGED asked
  <2>1. /\ task["early"].at = "none" /\ page.phase.kind = "placing"
        /\ \A o \in Order : t.order = o => Owned(o)
    BY <1>3, PlacingFlow
  <2>2. /\ HeldBy(t, "placing") \in PhaseRec
        /\ HeldBy(t, "placing").kind = "placing"
        /\ HeldBy(t, "placing").order = t.order
    BY <1>1, HeldByIs DEF PhaseKind
  <2>3. SettledAttempt(what) = page.attempt
    BY <1>1, <1>3, SettledIs
  <2>4. /\ PageIs(page', page.on, "idle", page.order, page.resume,
                  HeldBy(t, "placing"), page.intent, page.attempt)
        /\ TaskIs(task'["flow"], "flow", "none", NoOrder, NoKey, NoKey, Unsaid)
        /\ OnlyTask("flow", task'["flow"])
    BY <1>1, <1>3, <2>2, <2>3, TypesGive, BackToIdleIs
  <2>5. "trouble" \in events
    BY <1>3, NoTroubleIsKnown DEF Placers, KInv
  <2>6. record' = record
    BY <1>3 DEF BackToIdle
  <2>7. Answered(t)
    BY <1>3 DEF Answered
  <2> HIDE DEF what
  <2> QED
    BY <1>1, <1>3, <2>1, <2>2, <2>4, <2>5, <2>6, <2>7, FlowMovesClaims DEF PageIs, TaskIs
<1>4. CASE t.at = "undo" /\ BackToIdle(NoPhase, page.intent, page.attempt) /\ UNCHANGED asked
  <2>1. /\ PageIs(page', page.on, "idle", page.order, page.resume, NoPhase, page.intent, page.attempt)
        /\ TaskIs(task'["flow"], "flow", "none", NoOrder, NoKey, NoKey, Unsaid)
        /\ OnlyTask("flow", task'["flow"])
    BY <1>1, <1>4, TypesGive, PhaseFields, BackToIdleIs
  <2>2. page'.phase.kind = "none"
    BY <2>1, PhaseFields DEF PageIs
  <2>3. /\ task["early"].at = "none" /\ page.intent = NoKey
        /\ "trouble" \notin events => page.attempt = NoKey
    BY <1>4, FlowUnderWay DEF LInv, Layout, FlowInv, KInv, Before
  <2>4. record' = record
    BY <1>4 DEF BackToIdle
  <2> QED
    BY <1>1, <1>4, <2>1, <2>2, <2>3, <2>4, Basics, FlowMovesClaims DEF PageIs, TaskIs, Got
<1> QED
  BY <1>1, <1>2, <1>3, <1>4, DeniesIs DEF HearFailure

LEMMA HearChallengeClaims ==
  ASSUME LInv, LInv', KInv, HearChallenge
  PROVE  KInv'
<1> DEFINE t == task["flow"]
<1>1. /\ t.at = "place" /\ Ends("flow") /\ page \in PageRec /\ Reply(t).is = "challenge"
      /\ page' = [page EXCEPT !.own = "code", !.order = t.order, !.attempt = NoKey,
                              !.phase = Phase("ordered", t.order, NoCart)]
      /\ UNCHANGED <<record, asked, status, left, loose, events>>
  BY TypesGive DEF HearChallenge, LInv, server, history, counts
<1>2. task["early"].at = "none"
  BY <1>1, PlacingFlow
<1>3. page'.phase.kind = "ordered" /\ page'.intent = page.intent /\ page'.attempt = NoKey
  BY <1>1, PhaseFields DEF PageRec
<1>4. OnlyTask("flow", task'["flow"]) /\ task'["flow"].at = "none"
  BY <1>1, EndsIs, JobsAre DEF OnlyTask, TaskIs, LInv
<1>5. Answered(t)
  BY <1>1 DEF Answered
<1> QED
  BY <1>1, <1>2, <1>3, <1>4, <1>5, FlowMovesClaims

-----------------------------------------------------------------------------
(* The page is left: its claims go with its tasks                          *)

LEMMA OneRuns ==
  ASSUME LInv, task["flow"].at # "take"
  PROVE  /\ \E j \in Job : \A i \in Job : task[i].at \notin {"none", "read"} => i = j
         /\ task["flow"].at # "none" => \A i \in Job : i # "flow" => task[i].at = "none"
         /\ task["early"].at # "none" => task["flow"].at = "none"
<1>1. task["flow"].at # "none" => \A i \in Job : i # "flow" => task[i].at = "none"
  BY FlowUnderWay, JobsAre
<1>2. task["code"].at # "none" => task["flow"].at = "none" /\ task["early"].at = "none"
  BY CodeUnderWay
<1>3. task["resume"].at \in {"none", "read"}
  BY DEF LInv, Layout, ResumeInv
<1>4. CASE task["flow"].at # "none"
  BY <1>1, <1>4, JobsAre
<1>5. CASE task["flow"].at = "none" /\ task["code"].at # "none"
  BY <1>1, <1>2, <1>3, <1>5, JobsAre
<1>6. CASE task["flow"].at = "none" /\ task["code"].at = "none"
  BY <1>3, <1>6, JobsAre
<1> QED
  BY <1>1, <1>4, <1>5, <1>6, JobsAre

LEMMA OrphanClaims ==
  ASSUME LInv, KInv, task["flow"].at # "take", NEW j \in Job, task[j].at \notin {"none", "read"}
  PROVE  LET n == Orphan(task[j])
         IN  /\ TaskIs(n, j, task[j].at, task[j].order, task[j].key, page.attempt, task[j].answer)
             /\ KeysOf(n) \subseteq Mine
             /\ \A o \in Order : Owns(n, record, o) => Owned(o) /\ page.phase.kind # "held"
             /\ n.at = "place" => j = "flow" /\ Like(n, task["flow"])
             /\ n.at # "place" => task["flow"].at # "place"
             /\ \A o \in asked : n.at = "reserve" /\ n.job = "early" => ~Got(record, n.key, o)
<1> DEFINE n == Orphan(task[j])
<1>1. /\ task[j] \in TaskRec /\ task[j].job = j /\ Answers(task[j], record) /\ Types
  BY JobsAre DEF LInv, Layout, Named, Talk
<1>2. TaskIs(n, j, task[j].at, task[j].order, task[j].key, page.attempt, task[j].answer)
  BY <1>1, OrphanIs
<1> HIDE DEF n
<1>3. /\ n.at = task[j].at /\ n.order = task[j].order /\ n.key = task[j].key
      /\ n.attempt = page.attempt /\ n.answer = task[j].answer /\ n.job = j
  BY <1>2 DEF TaskIs
<1>4. /\ task[j].at = "place" => j = "flow"
      /\ task[j].at = "reserve" => j \in {"early", "flow"}
  BY JobsAre DEF LInv, Layout, EarlyInv, FlowInv, CodeInv, ResumeInv
<1>5. task[j].at \in {"reserve", "place"} <=> task[j].key # NoKey
  BY <1>1 DEF Answers
<1>6. KeysOf(n) \subseteq Mine
  BY <1>3, <1>4, <1>5 DEF KeysOf, Mine, KInv, KeysApart
<1>7. ASSUME NEW o \in Order, Owns(n, record, o)
      PROVE  Owned(o) /\ page.phase.kind # "held"
  <2>1. CASE task[j].at = "place"
    BY <1>3, <1>4, <1>7, <2>1, PlacingFlow DEF Owns
  <2>2. CASE task[j].at = "reserve"
    <3>1. Got(record, page.intent, o)
      BY <1>3, <1>4, <1>7, <2>2 DEF Owns, KInv, KeysApart
    <3>2. page.phase.kind # "held"
      BY <1>4, <2>2 DEF LInv, Layout, EarlyInv, FlowInv
    <3> QED
      BY <3>1, <3>2 DEF Owned
  <2> QED
    BY <1>3, <1>7, <2>1, <2>2 DEF Owns
<1>8. n.at = "place" => j = "flow" /\ Like(n, task["flow"])
  BY <1>3, <1>4 DEF Like
<1>9. n.at # "place" => task["flow"].at # "place"
  BY <1>3, OneRuns
<1>10. ASSUME NEW o \in asked, n.at = "reserve", j = "early", Got(record, n.key, o)
       PROVE  FALSE
  <2>1. n.key = page.intent /\ page.phase.kind = "reserving" /\ task["flow"].at = "none"
    BY <1>3, <1>10, OneRuns DEF KInv, KeysApart, LInv, Layout, EarlyInv
  <2> QED
    BY <1>10, <2>1 DEF KInv, Placed
<1> QED
  BY <1>2, <1>3, <1>6, <1>7, <1>8, <1>9, <1>10 DEF n

LEMMA UnmountClaims ==
  ASSUME LInv, LInv', KInv, NEW tasks, AtTheEnd(tasks), NEW others \in SUBSET left,
         Unmount(tasks, others), task["flow"].at # "take",
         UNCHANGED <<record, status, asked, events>>,
         \A t \in left : t \in others \/ Answered(t),
         tasks["flow"] = task["flow"] \/ task["flow"].at # "place" \/ Answered(task["flow"])
  PROVE  KInv'
<1> USE DEF KInv
<1> DEFINE orphans == OrphansOf(tasks)
           over == ReleasableOnLeave(page.phase)
<1>0. /\ KeysStay /\ record' = record /\ status' = status /\ asked' = asked /\ events' = events
      /\ Types /\ asked' \subseteq Order
  BY SameRecord DEF LInv, Types
<1>1. /\ page' = Blank /\ task' = NoTasks /\ left' = others \cup orphans
      /\ loose' = loose \cup {Drop(o) : o \in over}
  BY <1>0, OrphansAre DEF Unmount
<1>2. /\ page'.phase.kind = "none" /\ page'.intent = NoKey /\ page'.attempt = NoKey
      /\ \A j \in Job : task'[j].at = "none"
  BY <1>1, BlankIs, PhaseFields DEF PageIs, TaskIs
<1>3. PICK j \in Job : \A i \in Job : task[i].at \notin {"none", "read"} => i = j
  BY OneRuns
<1>4. \A i \in UnderWay(tasks) : i = j /\ tasks[i] = task[j] /\ task[j].at \notin {"none", "read"}
  BY <1>3, OrphansAreOfPage DEF LInv
<1> DEFINE n == Orphan(task[j])
<1>5. /\ \A t \in left' : t \in others \/ (t = n /\ task[j].at \notin {"none", "read"})
      /\ \A t \in left' : t \in left \/ (t = n /\ task[j].at \notin {"none", "read"})
  <2>1. \A t \in orphans : t = n /\ task[j].at \notin {"none", "read"}
    BY <1>4 DEF OrphansOf
  <2> HIDE DEF orphans, n
  <2> QED
    BY <1>1, <2>1
<1>6. task[j].at \notin {"none", "read"} =>
        /\ TaskIs(n, j, task[j].at, task[j].order, task[j].key, page.attempt, task[j].answer)
        /\ KeysOf(n) \subseteq Mine
        /\ \A o \in Order : Owns(n, record, o) => Owned(o) /\ page.phase.kind # "held"
        /\ n.at = "place" => j = "flow" /\ Like(n, task["flow"])
        /\ n.at # "place" => task["flow"].at # "place"
        /\ \A o \in asked : n.at = "reserve" /\ n.job = "early" => ~Got(record, n.key, o)
  BY OrphanClaims
<1>7. ASSUME NEW t \in loose'
      PROVE  t \in loose \/ (t.at = "drop" /\ t.order = page.phase.order /\ page.phase.kind = "held")
  <2>1. over = IF page.phase.kind = "held" THEN {page.phase.order} ELSE {}
    BY DEF ReleasableOnLeave
  <2>2. CASE page.phase.kind = "held"
    <3>1. Drop(page.phase.order).at = "drop" /\ Drop(page.phase.order).order = page.phase.order
      BY TypesGive, BlankIs DEF LInv, TaskIs
    <3> QED
      BY <1>1, <2>1, <2>2, <3>1
  <2> QED
    BY <1>1, <2>1, <2>2
<1> HIDE DEF n
<1>8. KeysApart'
  <2>1. Mine' = {}
    BY <1>2 DEF Mine
  <2> QED
    BY <1>2, <1>5, <1>6, <2>1, KeysStep, JobsAre DEF KeysApart
<1>9. Claims'
  <2>1. \A o \in Order : ~Owned(o)'
    BY <1>2, Basics DEF Owned, Got
  <2>2. n \in left' /\ n \notin left => \A o \in Order : Owns(n, record', o) => Owned(o)
    BY <1>0, <1>5, <1>6
  <2>3. ASSUME NEW o \in Order, o \in Releasing', o \notin Releasing
        PROVE  /\ o \notin asked' /\ \A t \in left' : ~Owns(t, record', o)
               /\ Owned(o)
    <3>1. PICK t \in Tasks' : t.at \in {"drop", "undo"} /\ t.order = o
      BY <2>3 DEF Releasing
    <3>2. t \in left' \/ t \in loose'
      BY <1>2, <3>1, TasksAreNext DEF LInv
    <3>3. page.phase.kind = "held" /\ page.phase.order = o
      <4>1. CASE t \in left'
        <5>1. t \notin left
          BY <2>3, <3>1, TaskIsAmong, Releases1
        <5>2. t.at = task[j].at /\ t.order = task[j].order
          BY <1>5, <1>6, <4>1, <5>1 DEF TaskIs
        <5> QED
          BY <2>3, <3>1, <5>2, TaskIsAmong, Releases1
      <4>2. CASE t \in loose'
        BY <1>7, <2>3, <3>1, <4>2, TaskIsAmong, Releases1
      <4> QED
        BY <3>2, <4>1, <4>2
    <3>4. Owned(o)
      <4>1. task["flow"].at # "undo"
        BY <3>3 DEF LInv, Layout, FlowInv
      <4> QED
        BY <3>3, <4>1 DEF Owned
    <3>5. \A u \in left' : ~Owns(u, record, o)
      BY <1>5, <1>6, <3>3, <3>4 DEF Claims, OneOwner
    <3> QED
      BY <1>0, <3>3, <3>4, <3>5 DEF Placed
  <2>4. \A k \in Key, o \in Order : Holds(record', k, o) => Holds(record, k, o)
    BY <1>0
  <2> QED
    BY <1>0, <1>5, <2>1, <2>2, <2>3, <2>4, ClaimsStep
<1>10. Placed'
  <2>1. \A o : ~Got(record', page'.intent, o)
    BY <1>2, Basics DEF Got
  <2>2. ASSUME NEW t \in left', NEW o \in asked, t.at = "reserve", t.job = "early"
        PROVE  ~Got(record, t.key, o)
    BY <1>5, <1>6, <2>2 DEF Placed
  <2> QED
    BY <1>0, <1>2, <2>1, <2>2 DEF Placed
<1>11. Before'
  <2>1. "trouble" \notin events' =>
           /\ \A t \in loose' : t \in loose \/ t.at = "drop"
           /\ \A t \in Placers' : t.at = "place" => \E u \in Placers : Like(t, u)
           /\ \A u \in Placers, o \in Order : Waits(u, o) => \E t \in Placers' : Like(t, u)
           /\ task'["flow"].at # "place" => page'.attempt = NoKey
           /\ \A t \in left' : t.at # "place" => t.attempt = NoKey
           /\ page'.phase.kind = "placing" => task'["flow"].at \in {"place", "undo"}
    <3> SUFFICES ASSUME "trouble" \notin events
                 PROVE  /\ \A t \in Placers' : t.at = "place" => \E u \in Placers : Like(t, u)
                        /\ \A u \in Placers, o \in Order : Waits(u, o) =>
                             \E t \in Placers' : Like(t, u)
                        /\ \A t \in left' : t.at # "place" => t.attempt = NoKey
      BY <1>0, <1>2, <1>7
    <3>1. ASSUME NEW t \in Placers', t.at = "place"
          PROVE  \E u \in Placers : Like(t, u)
      <4>1. t \in left'
        BY <1>2, <3>1, JobsAre DEF Placers
      <4> QED
        BY <1>5, <1>6, <3>1, <4>1 DEF Placers, Like
    <3>2. ASSUME NEW u \in Placers, NEW o \in Order, Waits(u, o)
          PROVE  \E t \in Placers' : Like(t, u)
      <4>1. u.at = "place" /\ ~Answered(u)
        BY <3>2, WaitsIsUnanswered
      <4>2. CASE u \in left
        <5>1. u \in left'
          BY <1>1, <4>1, <4>2
        <5> QED
          BY <5>1 DEF Placers, Like
      <4>3. CASE u = task["flow"]
        <5>1. tasks["flow"] = task["flow"] /\ "flow" \in UnderWay(tasks)
          BY <4>1, <4>3, JobsAre DEF UnderWay
        <5>2. Orphan(task["flow"]) \in left'
          BY <1>1, <5>1 DEF OrphansOf
        <5>3. TaskIs(Orphan(task["flow"]), "flow", "place", u.order, u.key, page.attempt, u.answer)
          BY <4>1, <4>3, OrphanClaims, JobsAre
        <5> QED
          BY <4>1, <5>2, <5>3 DEF Placers, Like, TaskIs
      <4> QED
        BY <4>2, <4>3 DEF Placers
    <3>3. ASSUME NEW t \in left', t.at # "place"
          PROVE  t.attempt = NoKey
      BY <1>5, <1>6, <3>3 DEF Before, TaskIs
    <3> QED
      BY <3>1, <3>2, <3>3
  <2> QED
    BY <1>0, <2>1, BeforeStep
<1> QED
  BY <1>8, <1>9, <1>10, <1>11

LEMMA FinishClaims ==
  ASSUME LInv, LInv', KInv, NEW j \in Job, Finish(j), task["flow"].at # "take",
         task[j].at = "place" => Answered(task[j])
  PROVE  KInv'
<1> DEFINE tasks == [task EXCEPT ![j] = Rest(j)]
<1>1. AtTheEnd(tasks)
  BY EndOfTask DEF LInv
<1>2. Unmount(tasks, left) /\ UNCHANGED <<record, status, asked, events>>
  BY DEF Finish, server, counts
<1>3. tasks["flow"] = task["flow"] \/ task["flow"].at # "place" \/ Answered(task["flow"])
  BY JobsAre DEF LInv, Types
<1> HIDE DEF tasks
<1> QED
  BY <1>1, <1>2, <1>3, UnmountClaims

LEMMA LeaveClaims ==
  ASSUME LInv, LInv', KInv, Leave
  PROVE  KInv'
<1>1. AtTheEnd(task)
  BY DEF AtTheEnd, Leave, LInv, Types
<1>2. /\ Unmount(task, left) /\ UNCHANGED <<record, status, asked, events>>
      /\ task["flow"].at # "take"
  BY DEF Leave, server, counts
<1> QED
  BY <1>1, <1>2, UnmountClaims

LEMMA HearPlacedClaims ==
  ASSUME LInv, LInv', KInv, HearPlaced
  PROVE  KInv'
<1>1. task["flow"].at = "place" /\ Answered(task["flow"]) /\ Finish("flow")
  BY DEF HearPlaced, Answered
<1> QED
  BY <1>1, JobsAre, FinishClaims

LEMMA ChallengeFinishes ==
  ASSUME LInv, LInv', KInv,
         \/ HearCode /\ Finish("code")
         \/ HearAbandon("flow") /\ Finish("flow")
         \/ HearAbandon("code") /\ Finish("code")
         \/ HearResume /\ Finish("resume")
  PROVE  KInv'
<1>1. \E j \in Job : task[j].at \in {"confirm", "abandon", "look", "read"} /\ Finish(j)
  BY JobsAre DEF HearCode, HearAbandon, HearResume
<1>2. PICK j \in Job : task[j].at \in {"confirm", "abandon", "look", "read"} /\ Finish(j)
  BY <1>1
<1>3. task["flow"].at # "take"
  BY <1>2, FlowUnderWay, JobsAre DEF LInv, Layout, EarlyInv
<1> QED
  BY <1>2, <1>3, FinishClaims

LEMMA ReloadClaims ==
  ASSUME LInv, LInv', KInv, Reload
  PROVE  KInv'
<1> USE DEF KInv
<1> DEFINE sent == Sent
           copies == {[task[j] EXCEPT !.job = "loose"] : j \in sent}
<1>1. /\ page' = Blank /\ task' = NoTasks
      /\ loose' \subseteq loose \cup copies
      /\ left' = left /\ record' = record /\ status' = status /\ asked' = asked
      /\ "trouble" \in events' /\ asked' \subseteq Order
  BY ReloadLeaves DEF Reload, Happens, server, LInv, Types
<1>2. /\ page'.phase.kind = "none" /\ page'.intent = NoKey /\ page'.attempt = NoKey
      /\ \A j \in Job : task'[j].at = "none"
  BY <1>1, BlankIs, PhaseFields DEF PageIs, TaskIs
<1>3. \A t \in copies : \E u \in Tasks : t.at = u.at /\ t.order = u.order
  <2> SUFFICES ASSUME NEW j \in sent
               PROVE  \E u \in Tasks : /\ [task[j] EXCEPT !.job = "loose"].at = u.at
                                       /\ [task[j] EXCEPT !.job = "loose"].order = u.order
    OBVIOUS
  <2>1. task[j] \in TaskRec /\ task[j] \in Tasks
    BY JobsAre, TaskIsAmong DEF LInv, Sent
  <2> QED
    BY <2>1, TaskUpdates DEF TaskIs
<1> HIDE DEF copies
<1>4. KeysApart'
  BY <1>1, <1>2, JobsAre DEF KeysApart, Mine
<1>5. Claims'
  <2>1. \A o \in Order : ~Owned(o)'
    BY <1>2, Basics DEF Owned, Got
  <2>2. ASSUME NEW o \in Releasing'
        PROVE  o \in Releasing
    <3>1. PICK t \in Tasks' : t.at \in {"drop", "undo"} /\ t.order = o
      BY <2>2 DEF Releasing
    <3>2. \E u \in Tasks : t.at = u.at /\ t.order = u.order
      BY <1>1, <1>2, <1>3, <3>1, TasksAre, TasksAreNext DEF LInv
    <3> QED
      BY <3>1, <3>2, Releases1
  <2> QED
    BY <1>1, <2>1, <2>2, ClaimsStep
<1>6. Placed'
  BY <1>1, <1>2, Basics DEF Placed, Got
<1>7. Before'
  BY <1>1 DEF Before
<1> QED
  BY <1>4, <1>5, <1>6, <1>7

-----------------------------------------------------------------------------
(* What is left of a page goes on                                          *)

LEMMA LeftStepClaims ==
  ASSUME LInv, LInv', KInv, UNCHANGED <<status, page, task, events>>, KeysStay,
         NEW t \in left, Answered(t), t \notin left', left \ {t} \subseteq left',
         NEW n, \A u \in left' : u \in left \/ u = n,
         n \in left' /\ n \notin left =>
           /\ \A k \in KeysOf(n) : k \in KeysOf(t) \/ k \notin KeysInUse
           /\ \A o \in Order : Owns(n, record', o) => Owns(t, record, o)
           /\ n.at \notin {"drop", "undo"}
           /\ n.at = "reserve" => \A o : ~Got(record', n.key, o)
           /\ "trouble" \notin events =>
                IF n.at = "place" THEN n.answer.is = "none" /\ record'[n.key] = FreeKey
                ELSE n.attempt = NoKey,
         \A u \in loose' : \/ u \in loose
                           \/ /\ left' \subseteq left /\ u.at = "drop"
                              /\ Owns(t, record, u.order) /\ u.order \notin asked',
         \A o \in Order : o \in asked' => o \in asked \/ Owns(t, record, o)
  PROVE  KInv'
<1> USE DEF KInv
<1>1. status' = status /\ page' = page /\ task' = task /\ events' = events /\ asked' \subseteq Order
  BY DEF LInv, Types
<1>2. Mine \subseteq KeysInUse /\ Mine' = Mine
  BY <1>1 DEF Mine, KeysInUse
<1>3. \A o \in Order : Owned(o)' => Owned(o)
  BY <1>1, NothingIsGot DEF Owned
<1>4. \A u \in left, o \in Order : Owns(u, record', o) => Owns(u, record, o)
  BY NothingIsGot DEF Owns
<1>5. \A o \in Order : Owns(t, record, o) =>
        /\ ~Owned(o) /\ o \notin Releasing
        /\ \A u \in left' : u \in left => ~Owns(u, record', o)
  BY <1>4 DEF Claims, OneOwner
<1>6. KeysApart'
  <2>1. n \in left' /\ n \notin left =>
           \A k \in KeysOf(n) : /\ k \notin Mine'
                                /\ \/ k \in Mine \/ k \notin KeysInUse
                                   \/ \E u \in left \ left' : k \in KeysOf(u)
    BY <1>2 DEF KeysApart
  <2> QED
    BY <1>1, <1>2, <2>1, KeysStep DEF KeysApart
<1>7. Claims'
  <2>1. n \in left' /\ n \notin left =>
           \A o \in Order : Owns(n, record', o) => \E u \in left \ left' : Owns(u, record, o)
    OBVIOUS
  <2>2. ASSUME NEW o \in Order, o \in Releasing', o \notin Releasing
        PROVE  /\ o \notin asked' /\ ~Owned(o)' /\ \A u \in left' : ~Owns(u, record', o)
               /\ Owns(t, record, o)
    <3>1. PICK u \in Tasks' : u.at \in {"drop", "undo"} /\ u.order = o
      BY <2>2 DEF Releasing
    <3>2. u \notin Tasks
      BY <2>2, <3>1, Releases1
    <3>3. u \in left' \/ u \in loose'
      BY <1>1, <3>1, <3>2 DEF Tasks
    <3>4. u \in loose' /\ u \notin loose
      BY <3>1, <3>2, <3>3, TaskIsAmong
    <3> QED
      BY <1>3, <1>5, <3>1, <3>4
  <2>3. \A k \in Key, o \in Order : Holds(record', k, o) => Holds(record, k, o)
    BY NothingIsGot DEF Got
  <2> QED
    BY <1>1, <1>3, <2>1, <2>2, <2>3, ClaimsStep
<1>8. Placed'
  <2>1. page.phase.kind = "held" => page.phase.order \notin asked'
    <3>1. page.phase.kind = "held" => Owned(page.phase.order)
      BY DEF Owned, LInv, Layout, FlowInv
    <3> QED
      BY <1>1, <1>5, <3>1 DEF Placed
  <2>2. ASSUME NEW o \in asked', Got(record', page.intent, o)
        PROVE  o \in asked /\ Got(record, page.intent, o)
    BY <1>1, <1>5, <2>2, NothingIsGot DEF Owned
  <2>3. ASSUME NEW u \in left', NEW o \in asked', u.at = "reserve", u.job = "early",
               Got(record', u.key, o)
        PROVE  FALSE
    <3>1. u \in left
      BY <2>3
    <3>2. Got(record, u.key, o) /\ Owns(u, record', o)
      BY <2>3, NothingIsGot DEF Owns
    <3> QED
      BY <1>1, <1>5, <2>3, <3>1, <3>2 DEF Placed
  <2> QED
    BY <1>1, <2>1, <2>2, <2>3 DEF Placed
<1>9. Before'
  <2>1. \A u \in Placers, o \in Order : Waits(u, o) => u \in Placers'
    <3> SUFFICES ASSUME NEW u \in Placers, NEW o \in Order, Waits(u, o)
                 PROVE  u \in Placers'
      OBVIOUS
    <3>1. u # t
      BY WaitsIsUnanswered
    <3> QED
      BY <1>1, <3>1 DEF Placers
  <2>2. "trouble" \notin events' =>
           /\ \A u \in loose' : u \in loose \/ u.at = "drop"
           /\ \A u \in Placers' : u.at = "place" =>
                \/ \E v \in Placers : Like(u, v)
                \/ u.answer.is = "none" /\ record'[u.key] = FreeKey
           /\ \A u \in Placers, o \in Order : Waits(u, o) => \E v \in Placers' : Like(v, u)
           /\ task'["flow"].at # "place" => page'.attempt = NoKey
           /\ \A u \in left' : u.at # "place" => u.attempt = NoKey
           /\ page'.phase.kind = "placing" => task'["flow"].at \in {"place", "undo"}
    BY <1>1, <2>1 DEF Before, Placers, Like
  <2> QED
    BY <1>1, <2>2, BeforeStep
<1> QED
  BY <1>6, <1>7, <1>8, <1>9

LEMMA LeftEndsClaims ==
  ASSUME LInv, LInv', KInv, UNCHANGED <<status, page, task, events, record, loose, asked>>,
         NEW t \in left, Answered(t), Goes(t, {})
  PROVE  KInv'
<1>1. left' = left \ {t} /\ KeysStay /\ loose' = loose /\ asked' = asked
  BY SameRecord DEF Goes
<1> QED
  BY <1>1, LeftStepClaims

LEMMA LeftAsksClaims ==
  ASSUME LInv, LInv', KInv, UNCHANGED <<status, page, task, events, record, loose, asked>>,
         NEW t \in left, Answered(t), t.at # "place", NEW at \in {"abandon", "look"},
         Goes(t, {Ask(t, at, t.order)})
  PROVE  KInv'
<1> DEFINE n == Ask(t, at, t.order)
<1>1. t \in TaskRec /\ t.order \in 0..MaxOrders /\ t.answer.is # "none"
  BY TypesGive, TaskFields, SaidFields DEF LInv, Answered, Reply
<1>2. TaskIs(n, t.job, at, t.order, NoKey, t.attempt, Unsaid)
  BY <1>1, AskIs DEF At
<1> HIDE DEF n
<1>3. left' = (left \ {t}) \cup {n} /\ KeysStay /\ loose' = loose /\ asked' = asked
  BY SameRecord DEF Goes, n
<1>4. n # t
  BY <1>1, <1>2, SaidFields DEF TaskIs
<1>5. /\ \A k \in KeysOf(n) : k \in KeysOf(t)
      /\ \A o \in Order : ~Owns(n, record', o)
      /\ n.at \notin {"drop", "undo", "reserve", "place"}
      /\ "trouble" \notin events => n.attempt = NoKey
  BY <1>2 DEF TaskIs, KeysOf, Owns, KInv, Before
<1> QED
  BY <1>3, <1>4, <1>5, LeftStepClaims

LEMMA LeftReleasesClaims ==
  ASSUME LInv, LInv', KInv, UNCHANGED <<status, page, task, events>>,
         NEW t \in left, Answered(t), NEW o \in Order, LeftReleases(t, o),
         Owns(t, record, o), IF t.at = "place" THEN o = t.order ELSE o \notin asked
  PROVE  KInv'
<1>1. /\ left' = left \ {t} /\ KeysStay /\ loose' = loose \cup {Drop(o)}
      /\ asked' = IF t.at = "place" THEN asked \ {o} ELSE asked
  BY SameRecord DEF LeftReleases, Goes, Denies
<1>2. Drop(o).at = "drop" /\ Drop(o).order = o
  BY BlankIs, Basics DEF TaskIs
<1> QED
  BY <1>1, <1>2, LeftStepClaims

LEMMA LeftReservesClaims ==
  ASSUME LInv, LInv', KInv, UNCHANGED <<status, page, task, events>>,
         NEW t \in left, Answered(t), t.at = "drop", LeftReserves(t)
  PROVE  KInv'
<1> DEFINE n == AskWith(t, "reserve", NoOrder, NewKey)
<1>1. /\ t \in TaskRec /\ t.answer.is # "none" /\ Types
      /\ Takes(NoKey) /\ UNCHANGED <<loose, asked>> /\ left' = (left \ {t}) \cup {n}
  BY TypesGive, TaskFields, SaidFields DEF LInv, Answered, Reply, LeftReserves, Goes
<1>2. /\ KeysStay /\ NewKey \in Key /\ NewKey \notin KeysInUse
      /\ \A o : ~Got(record', NewKey, o)
  BY <1>1, KeysStayBy, KeyIsMine, TheNewKey, Basics DEF KInv, KeyFrom
<1>3. TaskIs(n, t.job, "reserve", NoOrder, NewKey, t.attempt, Unsaid)
  BY <1>1, <1>2, AskIs, Basics DEF At
<1> HIDE DEF n
<1>4. n # t
  BY <1>1, <1>3, SaidFields DEF TaskIs
<1>5. /\ \A k \in KeysOf(n) : k \in KeysOf(t) \/ k \notin KeysInUse
      /\ \A o \in Order : ~Owns(n, record', o)
      /\ n.at = "reserve" /\ \A o : ~Got(record', n.key, o)
      /\ "trouble" \notin events => n.attempt = NoKey
  BY <1>2, <1>3 DEF TaskIs, KeysOf, Owns, KInv, Before
<1> QED
  BY <1>1, <1>2, <1>4, <1>5, LeftStepClaims

LEMMA LeftPlacesClaims ==
  ASSUME LInv, LInv', KInv, UNCHANGED <<status, page, task, events>>,
         NEW t \in left, Answered(t), t.at = "reserve", NEW o \in Order, Owns(t, record, o),
         LeftPlaces(t, o)
  PROVE  KInv'
<1> DEFINE k == KeyFrom(t.attempt)
           n == AskWith(t, "place", o, k)
<1>1. /\ t \in TaskRec /\ t.answer.is # "none" /\ Types /\ t.attempt \in 0..MaxKeys
      /\ Takes(t.attempt) /\ loose' = loose /\ left' = (left \ {t}) \cup {n}
      /\ asked' = asked \cup {o}
  BY TypesGive, TaskFields, SaidFields DEF LInv, Answered, Reply, LeftPlaces, Goes
<1>2. /\ KeysStay /\ k \in Key /\ k # NoKey
      /\ k = t.attempt \/ k \notin KeysInUse
      /\ t.attempt = NoKey => record'[k] = FreeKey
  BY <1>1, KeysStayBy, KeyIsTaken, Basics
<1> HIDE DEF k
<1>3. TaskIs(n, t.job, "place", o, k, t.attempt, Unsaid)
  BY <1>1, <1>2, AskIs, Basics DEF At
<1> HIDE DEF n
<1>4. n # t
  BY <1>1, <1>3, SaidFields DEF TaskIs
<1>5. /\ \A i \in KeysOf(n) : i \in KeysOf(t) \/ i \notin KeysInUse
      /\ \A p \in Order : Owns(n, record', p) => p = o
      /\ n.at = "place" /\ n.answer.is = "none"
      /\ "trouble" \notin events => record'[n.key] = FreeKey
  BY <1>2, <1>3, SaidFields DEF TaskIs, KeysOf, Owns, KInv, Before
<1> QED
  BY <1>1, <1>2, <1>4, <1>5, LeftStepClaims

LEMMA LeftGoesOnClaims ==
  ASSUME LInv, LInv', KInv, UNCHANGED <<status, page, task, events>>,
         NEW t \in left, Answered(t), LeftGoesOn(t, Reply(t).is, Reply(t).order)
  PROVE  KInv'
<1> DEFINE what == Reply(t).is
           o == Reply(t).order
<1>1. t \in TaskRec /\ Answers(t, record) /\ Types /\ Talk
  BY TypesGive DEF LInv, Talk
<1>2. t.at = "reserve" /\ what = "held" =>
        /\ o \in Order /\ Owns(t, record, o)
        /\ t.job = "early" => o \notin asked
  <2>1. t.at = "reserve" /\ what = "held" => o \in Order /\ Got(record, t.key, o)
    BY <1>1, HeldOrder DEF Got
  <2> QED
    BY <2>1 DEF Owns, KInv, Placed
<1>3. t.at = "place" => t.order \in Order /\ Owns(t, record, t.order)
  BY <1>1, Basics, TaskFields DEF Answers, Owns
<1>4. CASE t.at = "drop" /\ LeftReserves(t)
  BY <1>4, LeftReservesClaims
<1>5. CASE t.at = "reserve" /\ what = "held" /\ LeftPlaces(t, o)
  BY <1>2, <1>5, LeftPlacesClaims
<1>6. CASE t.at = "reserve" /\ what = "held" /\ t.job = "early" /\ LeftKeeps(t, o)
  BY <1>2, <1>6, LeftReleasesClaims DEF LeftKeeps
<1>7. CASE t.at = "place" /\ (LeftKeeps(t, t.order) \/ LeftReleases(t, t.order))
  BY <1>3, <1>7, LeftReleasesClaims DEF LeftKeeps
<1>8. CASE \E saved : LeftEnds(t, saved)
  BY <1>8, LeftEndsClaims DEF LeftEnds
<1>9. CASE t.at = "confirm" /\ LeftAbandons(t)
  BY <1>9, LeftAsksClaims DEF LeftAbandons
<1>10. CASE /\ t.at = "abandon" /\ Goes(t, {Ask(t, "look", t.order)})
            /\ UNCHANGED <<record, loose, pending, asked, denied>>
  BY <1>10, LeftAsksClaims
<1> QED
  BY <1>4, <1>5, <1>6, <1>7, <1>8, <1>9, <1>10 DEF LeftGoesOn

LEMMA HearLeftClaims ==
  ASSUME LInv, LInv', KInv, NEW t \in left, HearLeft(t)
  PROVE  KInv'
<1>1. Answered(t)
  BY DEF HearLeft
<1>2. CASE LeftFinishes(t)
  <2>1. UNCHANGED <<record, status, asked, events>>
    BY <1>2 DEF LeftFinishes, server, counts
  <2>2. CASE page.on
    <3>1. AtTheEnd(task) /\ Unmount(task, left \ {t}) /\ task["flow"].at # "take"
      BY <1>2, <2>2 DEF AtTheEnd, LeftFinishes, LInv, Types
    <3> QED
      BY <1>1, <2>1, <3>1, UnmountClaims
  <2>3. CASE ~page.on
    BY <1>1, <1>2, <2>1, <2>3, LeftEndsClaims DEF LeftFinishes
  <2> QED
    BY <2>2, <2>3
<1>3. CASE /\ LeftGoesOn(t, Reply(t).is, Reply(t).order)
           /\ UNCHANGED <<status, page, task, events>>
  BY <1>1, <1>3, LeftGoesOnClaims
<1> QED
  BY <1>2, <1>3 DEF HearLeft, counts

-----------------------------------------------------------------------------
(* The servers: what a request leaves of the orders and the keys           *)

(* A reservation is answered, and may have opened an order.                *)
LEMMA ReservesRecord ==
  ASSUME Types, Talk, NEW t \in TaskRec, t.at = "reserve", t.key # NoKey, NEW ans \in Answer,
         Reserves(t.key, t.cart, ans)
  PROVE  /\ t.key \in Key /\ \A k \in Key : k # t.key => record'[k] = record[k]
         /\ record'[t.key] # record[t.key] => record[t.key] = FreeKey
         /\ ans.is # "unknown"
         /\ record'[t.key].answer.is = "unknown" => record[t.key].answer.is = "unknown"
         /\ \A o \in Order : Holds(record', t.key, o) =>
              Holds(record, t.key, o) \/ (status[o] = "none" /\ status'[o] # "none")
         /\ \A o \in Order : status'[o] \in {"none", "charging"} => status'[o] = status[o]
<1> DEFINE k == t.key
<1>1. /\ k \in Key /\ t.cart \in Content /\ NoOrder \in 0..MaxOrders /\ Stored(record[k])
      /\ record[k].answer \in Answer /\ record[k].state \in {"free", "busy", "done"}
      /\ status \in [Order -> Status]
  BY Basics, TaskFields, TypesGive DEF Content, Talk, RecordRec, Types
<1>2. CASE Repeats(k, Body(NoOrder, t.cart), ans)
  <2>1. UNCHANGED server /\ record' = record /\ status' = status
    BY <1>2 DEF Repeats, server
  <2>2. ans.is # "unknown"
    <3>1. CASE record[k].body # Body(NoOrder, t.cart)
      BY <1>2, <3>1, SaidFields DEF Repeats
    <3>2. CASE record[k].body = Body(NoOrder, t.cart)
      <4>1. record[k].body.order = NoOrder /\ record[k] # FreeKey
        BY <1>2, <3>2, BodyFields DEF Repeats
      <4>2. record[k].state = "done" /\ ans = record[k].answer /\ ans.is \in {"held", "refused"}
        BY <1>1, <1>2, <3>2, <4>1 DEF Repeats, Stored
      <4> QED
        BY <4>2
    <3> QED
      BY <3>1, <3>2
  <2> QED
    BY <1>1, <2>1, <2>2 DEF Holds
<1>3. CASE /\ record[k] = FreeKey /\ Stores(k, Body(NoOrder, t.cart), ans)
           /\ UNCHANGED <<lapsed, charge>>
           /\ \/ \E o \in Order : Opened(o) /\ ans = Said("held", o)
              \/ UNCHANGED status /\ ans = Said("refused", NoOrder)
  <2>1. /\ record' \in [Key -> RecordRec] /\ \A i \in Key : i # k => record'[i] = record[i]
        /\ record'[k].answer = ans
    BY <1>1, <1>3, StoresIs
  <2>2. CASE UNCHANGED status /\ ans = Said("refused", NoOrder)
    BY <1>1, <1>3, <2>1, <2>2, SaidFields DEF Holds
  <2>3. ASSUME NEW o \in Order, Opened(o), ans = Said("held", o)
        PROVE  /\ ans.is # "unknown"
               /\ \A p \in Order : Holds(record', k, p) => p = o
               /\ status[o] = "none" /\ status'[o] # "none"
               /\ \A p \in Order : status'[p] \in {"none", "charging"} => status'[p] = status[p]
    BY <1>1, <2>1, <2>3, SaidFields DEF Holds, Opened
  <2> QED
    BY <1>1, <1>3, <2>1, <2>2, <2>3
<1> QED
  BY <1>2, <1>3 DEF Reserves

(* A placement with a new key is begun, or refused: it is in doubt only if *)
(* another one is under way.                                               *)
LEMMA PlacesRecord ==
  ASSUME Types, Talk, NEW t \in TaskRec, t.at = "place", t.key # NoKey, t.order # NoOrder,
         NEW ans \in Answer, Places(t.key, t.order, t.pay, ans), record[t.key] = FreeKey
  PROVE  /\ t.key \in Key /\ \A k \in Key : k # t.key => record'[k] = record[k]
         /\ ans.is = "unknown" \/ record'[t.key].answer.is = "unknown" => status[t.order] = "charging"
         /\ ans.is = "wait" => record'[t.key].state # "free"
         /\ ans.is # "none"
         /\ \A o \in Order : ~Holds(record', t.key, o)
         /\ \A o \in Order : status'[o] = "none" => status[o] = "none"
         /\ \A o \in Order : status'[o] = "charging" =>
              \/ status[o] = "charging"
              \/ /\ o = t.order /\ ans.is = "wait"
                 /\ record'[t.key].state = "busy" /\ record'[t.key].body.order = o
<1> DEFINE k == t.key
           o == t.order
<1>1. /\ k \in Key /\ t.pay \in Content /\ t.pay \in Payment /\ o \in Order /\ o \in 0..MaxOrders
      /\ status \in [Order -> Status]
  BY Basics, TaskFields, TypesGive DEF Content, Types
<1>2. CASE record[k] = FreeKey /\ UNCHANGED lapsed /\ Begins(k, o, t.pay) /\ ans = Said("wait", o)
  <2> DEFINE r == [FreeKey EXCEPT !.state = "busy", !.body = Body(o, t.pay)]
  <2>1. /\ r \in RecordRec /\ r.state = "busy" /\ r.body.order = o /\ r.answer.is = "none"
    BY <1>1, BodyFields DEF RecordRec
  <2>2. record' = [record EXCEPT ![k] = r] /\ status' = [status EXCEPT ![o] = "charging"]
    BY <1>2 DEF Begins
  <2> HIDE DEF r
  <2>3. /\ \A i \in Key : i # k => record'[i] = record[i]
        /\ record'[k] = r
    BY <1>1, <2>1, <2>2 DEF Types
  <2>4. \A p \in Order : ~Holds(record', k, p)
    BY <2>1, <2>3, SaidFields DEF Holds
  <2>5. ans.is = "wait" /\ record'[k].answer.is = "none" /\ record'[k].state = "busy"
        /\ record'[k].body.order = o
    BY <1>2, <2>1, <2>3, SaidFields
  <2>6. \A p \in Order : status'[p] = IF p = o THEN "charging" ELSE status[p]
    BY <1>1, <2>2
  <2> QED
    BY <1>1, <2>3, <2>4, <2>5, <2>6
<1>3. CASE /\ UNCHANGED <<status, lapsed, charge>>
           /\ ans.order = o /\ ans.is \in Refusals(o, t.pay)
           /\ Stores(k, Body(o, t.pay), ans)
  <2>1. /\ record' \in [Key -> RecordRec] /\ \A i \in Key : i # k => record'[i] = record[i]
        /\ record'[k].state = "done" /\ record'[k].answer = ans
    BY <1>1, <1>3, StoresIs
  <2>2. ans.is \in {"error", "unknown"} /\ (ans.is = "unknown" => status[o] = "charging")
    BY <1>3 DEF Refusals
  <2>3. \A p \in Order : ~Holds(record', k, p)
    BY <2>1, <2>2, SaidFields DEF Holds
  <2> QED
    BY <1>1, <1>3, <2>1, <2>2, <2>3
<1> QED
  BY <1>2, <1>3 DEF Places, Repeats

(* The other requests are about no key.                                    *)
LEMMA OthersRecord ==
  ASSUME Types, NEW t \in TaskRec, t.at \notin {"reserve", "place"}, NEW ans, Handles(t, ans)
  PROVE  /\ record' = record
         /\ \A o \in Order : status'[o] \in {"none", "charging"} => status'[o] = status[o]
<1>1. status \in [Order -> Status]
  BY DEF Types
<1>2. CASE t.at = "confirm"
  BY <1>1, <1>2 DEF Handles, Confirms
<1>3. CASE t.at \in {"drop", "undo", "abandon"}
  BY <1>1, <1>3 DEF Handles, Releases
<1>4. CASE t.at \in {"look", "read"}
  BY <1>1, <1>4 DEF Handles, Shows, server
<1> QED
  BY <1>2, <1>3, <1>4 DEF Handles

LEMMA RepeatsRecord ==
  ASSUME NEW k, NEW o, NEW pay, NEW ans, Places(k, o, pay, ans), record[k] # FreeKey
  PROVE  record' = record /\ status' = status
BY DEF Places, Repeats, server

(* A request that is answered, or that is lost, is the same request.       *)
Same(t, u) ==
  t.job = u.job /\ t.at = u.at /\ t.order = u.order /\ t.key = u.key /\ t.attempt = u.attempt

(* What the servers do gives an order that is new to the one who has the   *)
(* key of its reservation.                                                 *)
LEMMA ServerClaims ==
  ASSUME LInv, LInv', KInv, UNCHANGED <<page, asked>>, "trouble" \in events => "trouble" \in events',
         NEW x, NEW y, \A u \in left' : (u \in left /\ u # x) \/ u = y,
         y \in left' => y \in left \/ (x \in left /\ Same(y, x)),
         x = y \/ x \notin left \/ Same(y, x),
         \A j \in Job : Same(task'[j], task[j]),
         "trouble" \in events /\ task["flow"].at = "reserve" /\ task["flow"].answer.is # "unknown" =>
           task'["flow"].answer.is # "unknown",
         \A t \in loose' : t \in loose \/ \E u \in Tasks : t.at = u.at /\ t.order = u.order,
         \A o \in Order : status'[o] = "none" => status[o] = "none",
         NEW k, \A i \in Key, o \in Order : Holds(record', i, o) =>
           Holds(record, i, o) \/ (i = k /\ status[o] = "none" /\ status'[o] # "none")
  PROVE  KeysApart' /\ Claims' /\ Placed'
<1> USE DEF KInv
<1>0. page' = page /\ asked' = asked /\ Mine' = Mine
  BY DEF Mine
<1>1. ASSUME NEW u \in left'
      PROVE  \E v \in left : Same(u, v) /\ (v = u \/ (u = y /\ v = x))
  BY <1>1 DEF Same
<1>2. \A u, v : Same(u, v) => KeysOf(u) = KeysOf(v)
  BY DEF Same, KeysOf
<1>3. ASSUME NEW u \in left', NEW v \in left', u # v
      PROVE  KeysOf(u) \cap KeysOf(v) = {}
  <2>1. ASSUME NEW a \in left', NEW b \in left', a # b, a = y, b # y
        PROVE  KeysOf(a) \cap KeysOf(b) = {}
    <3>1. b \in left /\ b # x
      BY <2>1
    <3>2. CASE a \in left
      BY <2>1, <3>1, <3>2 DEF KeysApart
    <3>3. CASE a \notin left
      <4>1. x \in left /\ KeysOf(a) = KeysOf(x)
        BY <1>2, <2>1, <3>3
      <4> QED
        BY <3>1, <4>1 DEF KeysApart
    <3> QED
      BY <3>2, <3>3
  <2>2. CASE u # y /\ v # y
    BY <1>3, <2>2 DEF KeysApart
  <2> QED
    BY <1>3, <2>1, <2>2
<1>4. KeysApart'
  <2>1. \A t \in left' : KeysOf(t) \cap Mine' = {}
    BY <1>0, <1>1, <1>2 DEF KeysApart
  <2> QED
    BY <1>0, <1>3, <2>1, JobsAre DEF KeysApart, Same
<1>5. ASSUME NEW i, NEW o \in Order, Got(record', i, o)
      PROVE  Got(record, i, o) \/ (i = k /\ i # NoKey /\ status[o] = "none" /\ status'[o] # "none")
  BY <1>5, Basics DEF Got
<1>6. ASSUME NEW o \in Order, o \in Releasing'
      PROVE  o \in Releasing
  <2>1. PICK t \in Tasks' : t.at \in {"drop", "undo"} /\ t.order = o
    BY <1>6 DEF Releasing
  <2>2. \E u \in Tasks : t.at = u.at /\ t.order = u.order
    <3>1. CASE t \in left'
      BY <1>1, <3>1, TaskIsAmong DEF Same
    <3>2. CASE \E j \in Job : t = task'[j]
      BY <3>2, TaskIsAmong DEF Same
    <3>3. CASE t \in loose'
      BY <3>3, TaskIsAmong
    <3> QED
      BY <2>1, <3>1, <3>2, <3>3 DEF Tasks
  <2> QED
    BY <2>1, <2>2, Releases1
<1>7. ASSUME NEW o \in Order, status[o] # "none" \/ status'[o] = "none"
      PROVE  /\ Owned(o)' => Owned(o)
             /\ \A u \in left' : Owns(u, record', o) =>
                  \E v \in left : Owns(v, record, o) /\ Same(u, v) /\ (v = u \/ (u = y /\ v = x))
  <2>1. Owned(o)' => Owned(o)
    BY <1>0, <1>5, <1>7, JobsAre DEF Owned, Same
  <2>2. ASSUME NEW u \in left', Owns(u, record', o)
        PROVE  \E v \in left : Owns(v, record, o) /\ Same(u, v) /\ (v = u \/ (u = y /\ v = x))
    BY <1>1, <1>5, <1>7, <2>2 DEF Owns, Same
  <2> QED
    BY <2>1, <2>2
<1>8. ASSUME NEW o \in Order, status[o] = "none"
      PROVE  /\ o \notin asked \cup Releasing'
             /\ Owned(o)' => page.intent = k /\ k # NoKey
             /\ \A u \in left' : Owns(u, record', o) => k \in KeysOf(u)
  <2>1. /\ o \notin asked \cup Releasing /\ ~Owned(o) /\ \A t \in left : ~Owns(t, record, o)
    BY <1>8 DEF Claims, Fresh
  <2>2. Owned(o)' => page.intent = k /\ k # NoKey
    BY <1>0, <1>5, <2>1, JobsAre DEF Owned, Same
  <2>3. ASSUME NEW u \in left', Owns(u, record', o)
        PROVE  k \in KeysOf(u)
    BY <1>1, <1>5, <2>1, <2>3 DEF Owns, Same, KeysOf
  <2> QED
    BY <1>6, <2>1, <2>2, <2>3
<1>9. ASSUME NEW o \in Order
      PROVE  /\ Owned(o)' => o \notin Releasing'
             /\ \A t \in left' : Owns(t, record', o) => ~Owned(o)' /\ o \notin Releasing'
             /\ \A t, u \in left' : Owns(t, record', o) /\ Owns(u, record', o) => t = u
             /\ o \notin Releasing' \cap asked'
  <2>1. CASE status[o] = "none"
    <3>1. page.intent = k /\ k # NoKey => k \in Mine'
      BY <1>0 DEF Mine
    <3> QED
      BY <1>0, <1>3, <1>4, <1>8, <2>1, <3>1 DEF KeysApart
  <2>2. CASE status[o] # "none"
    <3>1. \A t, u \in left' : Owns(t, record', o) /\ Owns(u, record', o) => t = u
      <4> SUFFICES ASSUME NEW t \in left', NEW u \in left', Owns(t, record', o), Owns(u, record', o)
                   PROVE  t = u
        OBVIOUS
      <4>1. PICK v \in left : Owns(v, record, o) /\ (v = t \/ (t = y /\ v = x))
        BY <1>7, <2>2
      <4>2. PICK w \in left : Owns(w, record, o) /\ (w = u \/ (u = y /\ w = x))
        BY <1>7, <2>2
      <4>3. v = w
        BY <4>1, <4>2 DEF Claims, OneOwner
      <4> QED
        BY <4>1, <4>2, <4>3
    <3> QED
      BY <1>0, <1>6, <1>7, <2>2, <3>1 DEF Claims, OneOwner, Unreleased
  <2> QED
    BY <2>1, <2>2
<1>10. Claims'
  <2>1. OneOwner'
    BY <1>9 DEF OneOwner
  <2>2. Unreleased'
    BY <1>9 DEF Unreleased, LInv, Types
  <2>3. ASSUME NEW o \in Order, status'[o] = "none"
        PROVE  /\ o \notin asked' \cup Releasing'
               /\ ~Owned(o)' /\ \A t \in left' : ~Owns(t, record', o)
               /\ \A i \in Key : ~Holds(record', i, o)
    <3>1. /\ o \notin asked /\ ~Owned(o) /\ \A t \in left : ~Owns(t, record, o)
          /\ o \notin Releasing /\ \A i \in Key : ~Holds(record, i, o)
      BY <2>3 DEF Claims, Fresh
    <3>2. o \notin asked' \cup Releasing'
      BY <1>0, <1>6, <3>1
    <3>3. ~Owned(o)' /\ \A t \in left' : ~Owns(t, record', o)
      BY <1>7, <2>3, <3>1
    <3>4. \A i \in Key : ~Holds(record', i, o)
      BY <2>3, <3>1
    <3> QED
      BY <3>2, <3>3, <3>4
  <2>4. Fresh'
    BY <2>3 DEF Fresh
  <2> QED
    BY <2>1, <2>2, <2>4 DEF Claims
<1>11. Placed'
  <2>1. ASSUME NEW o \in asked, NEW i, Got(record', i, o)
        PROVE  Got(record, i, o) /\ status[o] # "none"
    <3>1. status[o] # "none" /\ o \in Order
      BY DEF Claims, Fresh, LInv, Types
    <3> QED
      BY <1>5, <2>1, <3>1
  <2>2. ASSUME NEW o \in asked, Got(record', page.intent, o)
        PROVE  \/ page.phase.kind \notin {"none", "failed", "reserving"}
               \/ /\ task'["flow"].at = "reserve" /\ "trouble" \in events'
                  /\ task'["flow"].answer.is # "unknown"
    <3>1. Got(record, page.intent, o)
      BY <2>1, <2>2
    <3> QED
      BY <3>1, JobsAre DEF Placed, Same
  <2>3. ASSUME NEW u \in left', NEW o \in asked, u.at = "reserve", u.job = "early"
        PROVE  ~Got(record', u.key, o)
    BY <1>1, <2>1, <2>3 DEF Placed, Same
  <2> QED
    BY <1>0, <2>2, <2>3 DEF Placed
<1> QED
  BY <1>4, <1>10, <1>11

LEMMA PlacersAre ==
  ASSUME LInv, NEW t \in Placers
  PROVE  t \in TaskRec /\ Answers(t, record) /\ (t.at = "place" => t.key \in Key /\ t.order \in Order)
<1>1. t \in TaskRec /\ Answers(t, record)
  BY JobsAre DEF Placers, LInv, Types, Talk
<1> QED
  BY <1>1, Basics, TaskFields DEF Answers

(* An order is placed by one at a time, ...                                *)
LEMMA OnePlacer ==
  ASSUME LInv, KInv, NEW t \in Placers, NEW u \in Placers, t.at = "place", u.at = "place",
         t.order = u.order
  PROVE  t = u
<1>1. t.order \in Order
  BY PlacersAre
<1>2. task["flow"].at = "place" => Owned(task["flow"].order)
  BY DEF KInv, KeysApart, Owned, LInv, Layout, FlowInv
<1> QED
  BY <1>1, <1>2 DEF Placers, Owns, KInv, Claims, OneOwner

(* ... and each has a key of its own.                                      *)
Requester(t) == t \in Placers \/ t.at \notin {"reserve", "place"} \/ (t = task["early"] /\ t.at = "reserve")

LEMMA OwnKeys ==
  ASSUME LInv, KInv, NEW t, Requester(t), t.at \in {"reserve", "place"},
         NEW u \in Placers, u.at = "place", u # t
  PROVE  u.key # t.key
<1>1. u.key # NoKey
  BY PlacersAre, Basics
<1>2. CASE t \in left
  <2>1. CASE u \in left
    BY <1>1, <1>2, <2>1 DEF KInv, KeysApart, KeysOf
  <2>2. CASE u = task["flow"]
    BY <1>1, <1>2, <2>2 DEF KInv, KeysApart, KeysOf, Mine
  <2> QED
    BY <2>1, <2>2 DEF Placers
<1>3. CASE t \notin left
  <2>1. t.key = page.intent \/ t.key = page.attempt
    BY <1>3 DEF Requester, Placers, KInv, KeysApart
  <2>2. CASE u \in left
    BY <1>1, <2>1, <2>2 DEF KInv, KeysApart, KeysOf, Mine
  <2>3. CASE u = task["flow"]
    BY <1>1, <1>3, <2>3 DEF Requester, Placers, KInv, KeysApart
  <2> QED
    BY <2>2, <2>3 DEF Placers
<1> QED
  BY <1>2, <1>3

(* What a request leaves of the keys of the others.                        *)
LEMMA HandlesRecord ==
  ASSUME Types, Talk, NEW t \in TaskRec, Answers(t, record), NEW ans \in AnswersTo(t),
         Handles(t, ans)
  PROVE  /\ t.at \notin {"reserve", "place"} => record' = record
         /\ \A k \in Key : k # t.key => record'[k] = record[k]
         /\ \A k \in Key, o \in Order : Holds(record', k, o) =>
              Holds(record, k, o) \/ (k = t.key /\ status[o] = "none" /\ status'[o] # "none")
         /\ \A o \in Order : status'[o] = "none" => status[o] = "none"
         /\ t.at = "reserve" => ans.is # "unknown"
<1>1. ans \in Answer
  BY SaidFields, TaskFields DEF AnswersTo
<1>2. CASE t.at = "reserve"
  <2>1. t.key # NoKey /\ Reserves(t.key, t.cart, ans)
    BY <1>2 DEF Answers, Handles
  <2>2. /\ t.key \in Key /\ \A k \in Key : k # t.key => record'[k] = record[k]
        /\ ans.is # "unknown"
        /\ \A o \in Order : Holds(record', t.key, o) =>
             Holds(record, t.key, o) \/ (status[o] = "none" /\ status'[o] # "none")
        /\ \A o \in Order : status'[o] \in {"none", "charging"} => status'[o] = status[o]
    BY <1>1, <1>2, <2>1, ReservesRecord
  <2> QED
    BY <1>2, <2>2 DEF Holds
<1>3. CASE t.at = "place"
  <2>1. t.key # NoKey /\ t.order # NoOrder /\ Places(t.key, t.order, t.pay, ans)
    BY <1>3 DEF Answers, Handles
  <2>2. CASE record[t.key] # FreeKey
    BY <1>3, <2>1, <2>2, RepeatsRecord DEF Holds
  <2>3. CASE record[t.key] = FreeKey
    <3>1. /\ t.key \in Key /\ \A k \in Key : k # t.key => record'[k] = record[k]
          /\ \A o \in Order : ~Holds(record', t.key, o)
          /\ \A o \in Order : status'[o] = "none" => status[o] = "none"
      BY <1>1, <1>3, <2>1, <2>3, PlacesRecord
    <3> QED
      BY <1>3, <3>1 DEF Holds
  <2> QED
    BY <2>2, <2>3
<1>4. CASE t.at \notin {"reserve", "place"}
  BY <1>4, OthersRecord DEF Holds
<1> QED
  BY <1>2, <1>3, <1>4

(* A charging order has its placement to wait for.                         *)
Begun(t, ans, o) ==
  /\ t.at = "place" /\ t.order = o /\ ans.is = "wait" /\ t.key \in Key
  /\ record'[t.key].state = "busy" /\ record'[t.key].body.order = o

LEMMA HandlesBefore ==
  ASSUME LInv, KInv, "trouble" \notin events, NEW t \in TaskRec, t.answer = Unsaid, Requester(t),
         Answers(t, record), NEW ans \in AnswersTo(t), Handles(t, ans)
  PROVE  /\ \A v \in Placers : v.at = "place" /\ v # t => record'[v.key] = record[v.key]
         /\ t.at = "place" => /\ ans.is \notin {"unknown", "none"}
                              /\ ans.is = "wait" => record'[t.key].state # "free"
         /\ \A k \in Key : record'[k].answer.is # "unknown"
         /\ \A o \in Order : status'[o] = "charging" =>
              \/ Begun(t, ans, o)
              \/ \E w \in Placers : Waits(w, o) /\ w # t /\ record'[w.key] = record[w.key]
<1>0. /\ Types /\ Talk /\ \A v \in Placers : Asks(v)
      /\ \A k \in Key : record[k].answer.is # "unknown"
      /\ \A o \in Order : status[o] = "charging" => \E w \in Placers : Waits(w, o)
  BY DEF LInv, KInv, Before, Placers
<1>1. ans \in Answer
  BY SaidFields, TaskFields DEF AnswersTo
<1>2. \A w, o : Waits(w, o) => w # t
  BY SaidFields DEF Waits
<1>3. \A v \in Placers : v.at = "place" /\ v # t => record'[v.key] = record[v.key]
  <2>1. SUFFICES ASSUME NEW v \in Placers, v.at = "place", v # t
                 PROVE  record'[v.key] = record[v.key]
    OBVIOUS
  <2>2. v.key \in Key
    BY <2>1, PlacersAre
  <2>3. CASE t.at \in {"reserve", "place"}
    BY <1>0, <2>1, <2>2, <2>3, OwnKeys, HandlesRecord
  <2>4. CASE t.at \notin {"reserve", "place"}
    BY <1>0, <2>4, HandlesRecord
  <2> QED
    BY <2>3, <2>4
<1>4. ASSUME NEW o \in Order, status[o] = "charging"
      PROVE  \E w \in Placers : Waits(w, o) /\ w # t /\ record'[w.key] = record[w.key]
  <2>1. PICK w \in Placers : Waits(w, o)
    BY <1>0, <1>4
  <2> QED
    BY <1>2, <1>3, <2>1 DEF Waits
<1>5. CASE t.at = "reserve"
  <2>1. t.key # NoKey /\ Reserves(t.key, t.cart, ans)
    BY <1>5 DEF Answers, Handles
  <2>2. /\ t.key \in Key /\ \A k \in Key : k # t.key => record'[k] = record[k]
        /\ record'[t.key].answer.is = "unknown" => record[t.key].answer.is = "unknown"
        /\ \A o \in Order : status'[o] \in {"none", "charging"} => status'[o] = status[o]
    BY <1>0, <1>1, <1>5, <2>1, ReservesRecord
  <2> QED
    BY <1>0, <1>3, <1>4, <1>5, <2>2
<1>6. CASE t.at = "place"
  <2>1. t.key # NoKey /\ t.order # NoOrder /\ Places(t.key, t.order, t.pay, ans)
    BY <1>6 DEF Answers, Handles
  <2>2. t \in Placers /\ record[t.key] = FreeKey
    BY <1>0, <1>6, SaidFields DEF Requester, Asks
  <2>3. /\ t.key \in Key /\ \A k \in Key : k # t.key => record'[k] = record[k]
        /\ ans.is = "unknown" \/ record'[t.key].answer.is = "unknown" => status[t.order] = "charging"
        /\ ans.is = "wait" => record'[t.key].state # "free"
        /\ ans.is # "none"
    BY <1>0, <1>1, <1>6, <2>1, <2>2, PlacesRecord
  <2>4. \A o \in Order : status'[o] = "charging" =>
          \/ status[o] = "charging"
          \/ /\ o = t.order /\ ans.is = "wait"
             /\ record'[t.key].state = "busy" /\ record'[t.key].body.order = o
    BY <1>0, <1>1, <1>6, <2>1, <2>2, PlacesRecord
  <2>5. status[t.order] # "charging"
    <3>1. ASSUME status[t.order] = "charging"
          PROVE  FALSE
      <4>1. t.order \in Order
        BY <1>6, <2>2, PlacersAre
      <4>2. PICK w \in Placers : Waits(w, t.order) /\ w # t
        BY <1>4, <3>1, <4>1
      <4> QED
        BY <1>6, <2>2, <4>2, OnePlacer DEF Waits
    <3> QED
      BY <3>1
  <2>6. \A k \in Key : record'[k].answer.is # "unknown"
    BY <1>0, <2>3, <2>5
  <2>7. \A o \in Order : status'[o] = "charging" =>
          \/ Begun(t, ans, o)
          \/ \E w \in Placers : Waits(w, o) /\ w # t /\ record'[w.key] = record[w.key]
    BY <1>4, <1>6, <2>3, <2>4 DEF Begun
  <2> QED
    BY <1>3, <2>3, <2>5, <2>6, <2>7
<1>7. CASE t.at \notin {"reserve", "place"}
  <2>1. record' = record /\ \A o \in Order : status'[o] = "charging" => status[o] = "charging"
    BY <1>0, <1>7, OthersRecord
  <2> QED
    BY <1>0, <1>3, <1>4, <1>7, <2>1
<1> QED
  BY <1>5, <1>6, <1>7

(* What is left of Before when a request is answered.                      *)
LEMMA AnsweredBefore ==
  ASSUME LInv, KInv, "trouble" \notin events, page' = page,
         \A v \in loose' : v \in loose,
         NEW t, NEW u, \A v \in Placers' : v \in Placers \/ v = u,
         \A v \in Placers : v # t => v \in Placers',
         \/ u \in Placers
         \/ u \notin Placers'
         \/ t \in Placers /\ Same(u, t)
              /\ (t.at = "place" => /\ u.answer.is \notin {"unknown", "none"}
                                    /\ u.answer.is = "wait" => record'[t.key].state # "free"),
         Same(task'["flow"], task["flow"]),
         \A v \in left' : v \in left \/ v = u,
         \A v \in Placers : v.at = "place" /\ v \in Placers' => record'[v.key] = record[v.key],
         \A k \in Key : record'[k].answer.is # "unknown",
         \A o \in Order : status'[o] = "charging" =>
              \/ u \in Placers' /\ Same(u, t) /\ Begun(t, u.answer, o)
              \/ \E w \in Placers : Waits(w, o) /\ w # t /\ record'[w.key] = record[w.key]
  PROVE  Before'
<1>1. /\ \A v \in loose : v.at = "drop"
      /\ \A v \in Placers : Asks(v)
      /\ task["flow"].at # "place" => page.attempt = NoKey
      /\ \A v \in left : v.at # "place" => v.attempt = NoKey
      /\ page.phase.kind = "placing" => task["flow"].at \in {"place", "undo"}
  BY DEF KInv, Before, Placers
<1>2. ASSUME NEW v \in Placers'
      PROVE  Asks(v)'
  <2>1. CASE v \in Placers
    BY <1>1, <1>2, <2>1 DEF Asks
  <2>2. CASE v = u /\ u \notin Placers
    BY <1>2, <2>2 DEF Asks, Same
  <2> QED
    BY <1>2, <2>1, <2>2
<1>3. ASSUME NEW o \in Order, status'[o] = "charging"
      PROVE  \E w \in Placers' : Waits(w, o)'
  <2>1. CASE u \in Placers' /\ Same(u, t) /\ Begun(t, u.answer, o)
    <3>1. Waits(u, o)'
      BY <2>1 DEF Begun, Waits, Same
    <3> QED
      BY <2>1, <3>1
  <2>2. ASSUME NEW w \in Placers, Waits(w, o), w # t, record'[w.key] = record[w.key]
        PROVE  w \in Placers' /\ Waits(w, o)'
    BY <2>2 DEF Waits
  <2> QED
    BY <1>3, <2>1, <2>2
<1>4. \A v \in left' : v.at # "place" => v.attempt = NoKey
  <2>1. ASSUME NEW v \in left', v \notin left
        PROVE  v.at # "place" => v.attempt = NoKey
    <3>0. CASE u \in Placers
      BY <1>1, <2>1, <3>0, JobsAre DEF Placers, LInv, Layout, Named
    <3>1. v = u /\ v \in Placers'
      BY <2>1 DEF Placers
    <3>2. CASE t \in left /\ Same(u, t)
      BY <1>1, <3>1, <3>2 DEF Same
    <3>3. CASE t = task["flow"] /\ Same(u, t)
      BY <3>1, <3>3, JobsAre DEF Same, LInv, Layout, Named
    <3> QED
      BY <3>0, <3>1, <3>2, <3>3 DEF Placers
  <2> QED
    BY <1>1, <2>1
<1> QED
  BY <1>1, <1>2, <1>3, <1>4 DEF Before, Placers, Same

(* The request a task waits for is answered: only its answer is new.       *)
LEMMA ServeTaskClaims ==
  ASSUME LInv, LInv', KInv, NEW j \in Job, task[j].at # "none", task[j].answer = Unsaid,
         NEW ans \in AnswersTo(task[j]), Handles(task[j], ans),
         task' = [task EXCEPT ![j].answer = ans],
         UNCHANGED <<page, asked, left, loose, events>>
  PROVE  KInv'
<1> DEFINE t == task[j]
           u == [t EXCEPT !.answer = ans]
<1>0. /\ t \in TaskRec /\ Answers(t, record) /\ Types /\ Talk
      /\ TaskIs(u, t.job, t.at, t.order, t.key, t.attempt, ans)
  <2>1. t \in TaskRec /\ Answers(t, record) /\ Types /\ Talk
    BY JobsAre DEF LInv, Talk
  <2>2. Fits(t, ans)
    BY <2>1, HandlesIs
  <2> QED
    BY <2>1, <2>2, AnswerIsHeard
<1>1. /\ t.at \notin {"reserve", "place"} => record' = record
      /\ \A k \in Key, o \in Order : Holds(record', k, o) =>
           Holds(record, k, o) \/ (k = t.key /\ status[o] = "none" /\ status'[o] # "none")
      /\ \A o \in Order : status'[o] = "none" => status[o] = "none"
      /\ t.at = "reserve" => ans.is # "unknown"
  BY <1>0, HandlesRecord
<1>2. task' = [task EXCEPT ![j] = u]
  OBVIOUS
<1>3. Requester(t)
  BY JobsAre DEF Requester, Placers, LInv, Layout, EarlyInv, CodeInv, ResumeInv
<1>4. t.answer = Unsaid
  OBVIOUS
<1> HIDE DEF u
<1>5. OnlyTask(j, u)
  BY <1>0, <1>2, OneTask DEF TaskIs
<1>6. \A i \in Job : Same(task'[i], task[i])
  BY <1>0, <1>5 DEF OnlyTask, TaskIs, Same
<1>7. "trouble" \in events /\ task["flow"].at = "reserve" /\ task["flow"].answer.is # "unknown" =>
        task'["flow"].answer.is # "unknown"
  BY <1>0, <1>1, <1>5, JobsAre DEF OnlyTask, TaskIs
<1>8. KeysApart' /\ Claims' /\ Placed'
  BY <1>1, <1>6, <1>7, ServerClaims
<1>9. Before'
  <2> SUFFICES ASSUME "trouble" \notin events PROVE Before'
    BY DEF Before
  <2>1. /\ \A v \in Placers : v.at = "place" /\ v # t => record'[v.key] = record[v.key]
        /\ t.at = "place" => /\ ans.is \notin {"unknown", "none"}
                             /\ ans.is = "wait" => record'[t.key].state # "free"
        /\ \A k \in Key : record'[k].answer.is # "unknown"
        /\ \A o \in Order : status'[o] = "charging" =>
             \/ Begun(t, ans, o)
             \/ \E w \in Placers : Waits(w, o) /\ w # t /\ record'[w.key] = record[w.key]
    BY <1>0, <1>3, <1>4, HandlesBefore
  <2>2. CASE j = "flow"
    <3>1. u # t \/ t.at # "place"
      BY <1>0, <1>4, <2>1, SaidFields DEF TaskIs
    <3>2. t.at = "place" => t \notin left
      BY <1>0, <2>2, Basics DEF KInv, KeysApart, KeysOf, Mine, Answers
    <3>3. /\ \A v \in Placers' : v \in Placers \/ v = u
          /\ \A v \in Placers : v # t => v \in Placers'
          /\ \A v \in left' : v \in left \/ v = u
          /\ t \in Placers /\ u \in Placers' /\ task'["flow"] = u
      BY <1>5, <2>2, JobsAre DEF Placers, OnlyTask
    <3>4. \A v \in Placers : v.at = "place" /\ v \in Placers' => record'[v.key] = record[v.key]
      BY <2>1, <2>2, <3>1, <3>2, <3>3 DEF Placers
    <3>5. u.answer = ans /\ Same(u, t)
      BY <1>0 DEF TaskIs, Same
    <3> HIDE DEF t
    <3> QED
      BY <1>6, <2>1, <3>3, <3>4, <3>5, JobsAre, AnsweredBefore
  <2>3. CASE j # "flow"
    <3>1. Placers' = Placers /\ t.at # "place"
      BY <1>5, <2>3, JobsAre DEF Placers, OnlyTask, LInv, Layout, EarlyInv, CodeInv, ResumeInv
    <3>2. \A v \in Placers : v.at = "place" => record'[v.key] = record[v.key]
      BY <2>1, <3>1
    <3>3. \A o \in Order : status'[o] = "charging" =>
            \E w \in Placers : Waits(w, o) /\ w # t /\ record'[w.key] = record[w.key]
      BY <2>1, <3>1 DEF Begun
    <3> HIDE DEF t
    <3> QED
      BY <1>6, <2>1, <3>1, <3>2, <3>3, JobsAre, AnsweredBefore
  <2> QED
    BY <2>2, <2>3
<1> QED
  BY <1>8, <1>9 DEF KInv

(* The same for a request of a page that was left.                         *)
LEMMA ServeLeftClaims ==
  ASSUME LInv, LInv', KInv, NEW t \in left, t.answer = Unsaid,
         NEW ans \in AnswersTo(t), Handles(t, ans), left' = WithAnswer(left, t, ans),
         UNCHANGED <<page, asked, task, loose, events>>
  PROVE  KInv'
<1> DEFINE u == [t EXCEPT !.answer = ans]
<1>0. /\ t \in TaskRec /\ Answers(t, record) /\ Types /\ Talk
      /\ TaskIs(u, t.job, t.at, t.order, t.key, t.attempt, ans) /\ left' = (left \ {t}) \cup {u}
  <2>1. t \in TaskRec /\ Answers(t, record) /\ Types /\ Talk
    BY DEF LInv, Talk, Types
  <2>2. Fits(t, ans)
    BY <2>1, HandlesIs
  <2> QED
    BY <2>1, <2>2, AnswerIsHeard DEF WithAnswer
<1>1. /\ \A k \in Key, o \in Order : Holds(record', k, o) =>
           Holds(record, k, o) \/ (k = t.key /\ status[o] = "none" /\ status'[o] # "none")
      /\ \A o \in Order : status'[o] = "none" => status[o] = "none"
  BY <1>0, HandlesRecord
<1> HIDE DEF u
<1>2. Same(u, t) /\ u.answer = ans
  BY <1>0 DEF TaskIs, Same
<1>3. t \in Placers /\ Requester(t)
  BY DEF Placers, Requester
<1>4. KeysApart' /\ Claims' /\ Placed'
  BY <1>0, <1>1, <1>2, ServerClaims DEF Same
<1>5. Before'
  <2> SUFFICES ASSUME "trouble" \notin events PROVE Before'
    BY DEF Before
  <2>1. /\ \A v \in Placers : v.at = "place" /\ v # t => record'[v.key] = record[v.key]
        /\ t.at = "place" => /\ ans.is \notin {"unknown", "none"}
                             /\ ans.is = "wait" => record'[t.key].state # "free"
        /\ \A k \in Key : record'[k].answer.is # "unknown"
        /\ \A o \in Order : status'[o] = "charging" =>
             \/ Begun(t, ans, o)
             \/ \E w \in Placers : Waits(w, o) /\ w # t /\ record'[w.key] = record[w.key]
    BY <1>0, <1>3, HandlesBefore
  <2>2. u # t \/ t.at # "place"
    BY <1>2, <2>1, SaidFields
  <2>3. t.at = "place" => t # task["flow"]
    BY <1>0, Basics DEF KInv, KeysApart, KeysOf, Mine, Answers
  <2>4. /\ \A v \in Placers' : v \in Placers \/ v = u
        /\ \A v \in Placers : v # t => v \in Placers'
        /\ \A v \in left' : v \in left \/ v = u
        /\ u \in Placers' /\ Same(task'["flow"], task["flow"])
    BY <1>0 DEF Placers, Same
  <2>5. \A v \in Placers : v.at = "place" /\ v \in Placers' => record'[v.key] = record[v.key]
    BY <1>0, <2>1, <2>2, <2>3 DEF Placers
  <2> QED
    BY <1>2, <1>3, <2>1, <2>4, <2>5, AnsweredBefore
<1> QED
  BY <1>4, <1>5 DEF KInv

(* A request nobody waits for is a release, as long as there is no trouble. *)
LEMMA ServeLooseClaims ==
  ASSUME LInv, LInv', KInv, NEW t \in loose, NEW ans \in AnswersTo(t), Handles(t, ans),
         loose' = loose \ {t}, UNCHANGED <<page, asked, task, left, events>>
  PROVE  KInv'
<1>0. t \in TaskRec /\ Answers(t, record) /\ Types /\ Talk /\ t.answer = Unsaid
  BY DEF LInv, Talk, Types, OnItsWay
<1>1. /\ \A k \in Key, o \in Order : Holds(record', k, o) =>
           Holds(record, k, o) \/ (k = t.key /\ status[o] = "none" /\ status'[o] # "none")
      /\ \A o \in Order : status'[o] = "none" => status[o] = "none"
  BY <1>0, HandlesRecord
<1>2. KeysApart' /\ Claims' /\ Placed'
  BY <1>1, ServerClaims DEF Same
<1>3. Before'
  <2> SUFFICES ASSUME "trouble" \notin events PROVE Before'
    BY DEF Before
  <2>1. t.at = "drop" /\ Requester(t)
    BY DEF KInv, Before, Requester
  <2>2. /\ \A v \in Placers : v.at = "place" => record'[v.key] = record[v.key]
        /\ \A k \in Key : record'[k].answer.is # "unknown"
        /\ \A o \in Order : status'[o] = "charging" =>
             \E w \in Placers : Waits(w, o) /\ w # t /\ record'[w.key] = record[w.key]
    BY <1>0, <2>1, HandlesBefore DEF Begun
  <2>3. Placers' = Placers
    BY DEF Placers
  <2>4. Same(task'["flow"], task["flow"]) /\ \A v \in loose' : v \in loose
    BY DEF Same
  <2>5. PICK u \in Placers : TRUE
    BY DEF Placers
  <2> QED
    BY <2>2, <2>3, <2>4, <2>5, AnsweredBefore
<1> QED
  BY <1>2, <1>3 DEF KInv

LEMMA ServeClaims ==
  ASSUME LInv, LInv', KInv, Serve
  PROVE  KInv'
<1>1. UNCHANGED <<page, asked, events>>
  BY ServeLeavesPage DEF LInv, Serve, history, counts
<1>2. page.stale = {}
  BY NoStale DEF LInv, Types
<1> QED
  BY <1>1, <1>2, ServeTaskClaims, ServeLeftClaims, ServeLooseClaims DEF Serve

(* A decided order is not charging, and its answer is one.                 *)
LEMMA DecidesRecord ==
  ASSUME Types, Talk, NEW o \in Order, Decides(o)
  PROVE  /\ \A p \in Order : status'[p] \in {"none", "charging"} => p # o /\ status'[p] = status[p]
         /\ \A k \in Key : \/ record'[k] = record[k]
                           \/ /\ record[k].state = "busy" /\ record[k].body.order = o
                              /\ record'[k].state = "done"
                              /\ record'[k].answer.is \notin {"unknown", "held"}
<1>1. PICK what \in Outcomes(o) :
        /\ status' = [status EXCEPT ![o] = IF @ = "closed" THEN @ ELSE After(what)]
        /\ IF Awaited(o) THEN Stores(charge[o].key, Body(o, charge[o].payment), Said(what, o))
                         ELSE UNCHANGED record
  BY DEF Decides
<1>2. what \in {"paid", "review", "error", "challenge", "cardless", "method"}
  BY DEF Outcomes
<1>3. After(what) \notin {"none", "charging"}
  BY <1>2 DEF After
<1>4. \A p \in Order : status'[p] \in {"none", "charging"} => p # o /\ status'[p] = status[p]
  BY <1>1, <1>3 DEF Types
<1>5. CASE Awaited(o)
  <2> DEFINE k == charge[o].key
             ans == Said(what, o)
  <2>1. k \in Key /\ record[k].state = "busy" /\ record[k].body.order = o
    BY <1>5, AwaitedKey
  <2>2. o \in 0..MaxOrders /\ charge[o].payment \in Content /\ ans \in Answer /\ ans.is = what
    BY <1>2, Basics, SaidFields DEF Content, Types, ChargeRec, Kind
  <2>3. Stores(k, Body(o, charge[o].payment), ans)
    BY <1>1, <1>5
  <2> HIDE DEF k, ans
  <2>4. /\ \A i \in Key : i # k => record'[i] = record[i]
        /\ record'[k].state = "done" /\ record'[k].answer = ans
    BY <2>1, <2>2, <2>3, StoresIs
  <2> QED
    BY <1>2, <1>4, <2>1, <2>2, <2>4
<1> QED
  BY <1>1, <1>4, <1>5

LEMMA ServerDecidesClaims ==
  ASSUME LInv, LInv', KInv, ServerDecides
  PROVE  KInv'
<1>0. UNCHANGED <<page, task, left, loose, asked, events>>
  BY DEF ServerDecides, history, counts
<1>1. PICK o \in Order : Decides(o)
  BY DEF ServerDecides
<1>2. /\ \A p \in Order : status'[p] \in {"none", "charging"} => p # o /\ status'[p] = status[p]
      /\ \A k \in Key : \/ record'[k] = record[k]
                        \/ /\ record[k].state = "busy" /\ record[k].body.order = o
                           /\ record'[k].state = "done"
                           /\ record'[k].answer.is \notin {"unknown", "held"}
  BY <1>1, DecidesRecord DEF LInv
<1>3. \A k \in Key, p \in Order : Holds(record', k, p) => Holds(record, k, p)
  BY <1>2, SaidFields DEF Holds
<1>4. KeysApart' /\ Claims' /\ Placed'
  BY <1>0, <1>2, <1>3, ServerClaims DEF Same
<1>5. Before'
  <2> SUFFICES ASSUME "trouble" \notin events PROVE Before'
    BY <1>0 DEF Before
  <2>1. /\ \A t \in loose : t.at = "drop"
        /\ \A t \in Placers : Asks(t)
        /\ \A k \in Key : record[k].answer.is # "unknown"
        /\ \A p \in Order : status[p] = "charging" => \E t \in Placers : Waits(t, p)
        /\ task["flow"].at # "place" => page.attempt = NoKey
        /\ \A t \in left : t.at # "place" => t.attempt = NoKey
        /\ page.phase.kind = "placing" => task["flow"].at \in {"place", "undo"}
    BY DEF KInv, Before, Placers
  <2>2. \A k \in Key : record'[k].answer.is # "unknown"
    BY <1>2, <2>1
  <2>3. ASSUME NEW t \in Placers
        PROVE  Asks(t)'
    <3>1. t.at = "place" => t.key \in Key
      BY PlacersAre
    <3>2. FreeKey.state = "free"
      BY BodyFields
    <3> QED
      BY <1>2, <2>1, <3>1, <3>2 DEF Asks
  <2>4. ASSUME NEW p \in Order, status'[p] = "charging"
        PROVE  \E t \in Placers : Waits(t, p)'
    <3>1. p # o /\ status[p] = "charging"
      BY <1>2, <2>4
    <3>2. PICK t \in Placers : Waits(t, p)
      BY <2>1, <3>1
    <3>3. record'[t.key] = record[t.key]
      BY <1>2, <3>1, <3>2 DEF Waits
    <3> QED
      BY <3>2, <3>3 DEF Waits
  <2> QED
    BY <1>0, <2>1, <2>2, <2>3, <2>4 DEF Before, Placers
<1> QED
  BY <1>4, <1>5 DEF KInv

(* A trouble: answers are lost, keys are freed.                            *)
LEMMA LoseClaims ==
  ASSUME LInv, LInv', KInv, Lose
  PROVE  KInv'
<1>1. PICK j \in Job : LostTask(j)
  BY LoseIs DEF LInv, Layout
<1>0. /\ UNCHANGED <<page, left, asked, status, record>>
      /\ "trouble" \notin events /\ "trouble" \in events'
  BY <1>1 DEF Lose, Happens, history, server, LostTask
<1> DEFINE t == task[j]
           u == [t EXCEPT !.answer = Said("unknown", t.order)]
           c == [t EXCEPT !.job = "loose"]
<1>2. t \in TaskRec /\ Types
  BY JobsAre DEF LInv
<1>3. Said("unknown", t.order) \in Answer
  BY <1>2, Basics, TaskFields DEF Kind
<1>4. /\ TaskIs(u, t.job, t.at, t.order, t.key, t.attempt, Said("unknown", t.order))
      /\ TaskIs(c, "loose", t.at, t.order, t.key, t.attempt, t.answer)
  BY <1>2, <1>3, TaskUpdates
<1>5. task' = [task EXCEPT ![j] = u] /\ \A v \in loose' : v \in loose \/ v = c
  BY <1>1 DEF LostTask
<1> HIDE DEF u, c
<1>6. OnlyTask(j, u)
  BY <1>2, <1>4, <1>5, OneTask DEF TaskIs
<1>7. \A i \in Job : Same(task'[i], task[i])
  BY <1>4, <1>6 DEF OnlyTask, TaskIs, Same
<1>8. \A v \in loose' : v \in loose \/ \E w \in Tasks : v.at = w.at /\ v.order = w.order
  BY <1>4, <1>5, TaskIsAmong DEF TaskIs
<1> QED
  BY <1>0, <1>7, <1>8, ServerClaims DEF KInv, Before, Same

LEMMA ServerFailsClaims ==
  ASSUME LInv, LInv', KInv, ServerFails
  PROVE  KInv'
<1>0. /\ UNCHANGED <<page, left, loose, asked>> /\ Types /\ Talk
      /\ "trouble" \notin events /\ "trouble" \in events'
  BY DEF ServerFails, Happens, history, LInv
<1>1. ASSUME NEW o \in Order, ChargeLost(o) \/ Cuts(o), task' = task
      PROVE  KInv'
  <2>1. \A p \in Order : status'[p] = "none" => status[p] = "none"
    BY <1>0, <1>1 DEF ChargeLost, Cuts, Types
  <2>2. \A k \in Key : record'[k] = record[k] \/ record'[k] = FreeKey
    BY <1>0, <1>1, BodyFields DEF ChargeLost, Cuts, Types
  <2>3. \A k \in Key, p \in Order : Holds(record', k, p) => Holds(record, k, p)
    BY <2>2, FreeKeyIsStored, SaidFields DEF Holds
  <2> QED
    BY <1>0, <1>1, <2>1, <2>3, ServerClaims DEF KInv, Before, Same
<1>2. ASSUME task["code"].at = "confirm", ConfirmLost(task["code"].order),
             task' = [task EXCEPT !["code"].answer = Said("unknown", task["code"].order)]
      PROVE  KInv'
  <2>1. record' = record /\ \A p \in Order : status'[p] = "none" => status[p] = "none"
    BY <1>0, <1>2 DEF ConfirmLost, Types
  <2>2. HoldsStay
    BY <1>0, <2>1, RecordStays
  <2>3. task["code"] \in TaskRec /\ Said("unknown", task["code"].order) \in Answer
    BY <1>0, JobsAre, Basics, TaskFields DEF Kind
  <2> DEFINE u == [task["code"] EXCEPT !.answer = Said("unknown", task["code"].order)]
  <2>4. TaskIs(u, task["code"].job, task["code"].at, task["code"].order, task["code"].key,
               task["code"].attempt, Said("unknown", task["code"].order))
    BY <2>3, TaskUpdates
  <2>5. task' = [task EXCEPT !["code"] = u]
    BY <1>2
  <2> HIDE DEF u
  <2>6. OnlyTask("code", u)
    BY <1>0, <2>4, <2>5, JobsAre, OneTask DEF TaskIs
  <2>7. \A i \in Job : Same(task'[i], task[i])
    BY <2>4, <2>6 DEF OnlyTask, TaskIs, Same
  <2> QED
    BY <1>0, <2>1, <2>7, ServerClaims DEF KInv, Before, Same
<1> QED
  BY <1>1, <1>2 DEF ServerFails

-----------------------------------------------------------------------------
(* The second invariant                                                    *)

LEMMA KInvInit == Init => KInv
<1> SUFFICES ASSUME Init PROVE KInv
  OBVIOUS
<1>1. LInv
  BY LInvInit
<1>2. /\ task = NoTasks /\ left = {} /\ loose = {} /\ asked = {}
      /\ record = [k \in Key |-> FreeKey] /\ status = [o \in Order |-> "none"]
  BY DEF Init, ServerInit
<1>3. page.intent = NoKey /\ page.attempt = NoKey /\ page.phase.kind = "none"
  <2>1. PICK p \in Payment : page = [Blank EXCEPT !.on = TRUE, !.pay = p]
    BY DEF Init
  <2> QED
    BY <2>1, BlankIs, PhaseFields DEF PageIs, PageRec
<1>4. \A j \in Job : task[j].at = "none"
  BY <1>2, BlankIs DEF TaskIs
<1>5. \A k \in Key : record[k].answer.is = "none" /\ \A o : ~Holds(record, k, o)
  BY <1>2, BodyFields, SaidFields DEF Holds
<1>6. \A o : ~Owned(o)
  BY <1>3, <1>5 DEF Owned, Got
<1>7. KeysApart
  BY <1>2, <1>3, <1>4, JobsAre DEF KeysApart
<1>8. Claims
  <2>1. Releasing = {}
    BY <1>1, <1>2, <1>4, TasksAre DEF Releasing, LInv
  <2> QED
    BY <1>2, <1>5, <1>6, <2>1 DEF Claims, OneOwner, Fresh, Unreleased
<1>9. Placed
  BY <1>2, <1>3 DEF Placed
<1>10. Before
  BY <1>2, <1>3, <1>4, <1>5, JobsAre DEF Before, Asks
<1> QED
  BY <1>7, <1>8, <1>9, <1>10 DEF KInv

LEMMA KInvStutters ==
  ASSUME KInv, UNCHANGED vars
  PROVE  KInv'
<1>1. UNCHANGED <<page, task, left, loose, record, status, asked, events>>
  BY DEF vars, server, browser, history, counts
<1>2. Mine' = Mine /\ Releasing' = Releasing /\ \A o : Owned(o)' = Owned(o)
  BY <1>1 DEF Mine, Releasing, Tasks, Owned
<1>3. KeysApart'
  BY <1>1, <1>2 DEF KInv, KeysApart
<1>4. Claims'
  BY <1>1, <1>2 DEF KInv, Claims, OneOwner, Fresh, Unreleased
<1>5. Placed'
  BY <1>1 DEF KInv, Placed
<1>6. Before'
  BY <1>1 DEF KInv, Before, Asks, Waits
<1> QED
  BY <1>3, <1>4, <1>5, <1>6 DEF KInv

LEMMA KInvStep ==
  ASSUME LInv, LInv', KInv, crossed' = 0, [Next]_vars
  PROVE  KInv'
<1>1. CASE Next
  <2>1. CASE \/ StartEarly \/ (\E t \in EarlyRuns : HearEarly(t)) \/ RetryEarly \/ Open
             \/ Leave \/ Reload \/ Change
    BY <2>1, StartEarlyClaims, HearEarlyClaims, RetryEarlyClaims, OpenClaims, LeaveClaims,
       ReloadClaims, ChangeClaims
  <2>2. CASE \/ Press \/ Take \/ HearReserve \/ HearRefusal \/ HearFailure \/ HearPlaced
             \/ HearChallenge
    BY <2>2, PressClaims, TakeClaims, HearReserveClaims, HearRefusalClaims, HearFailureClaims,
       HearPlacedClaims, HearChallengeClaims
  <2>3. CASE \/ Submit \/ Cancel \/ HearCode \/ HearAbandon("flow") \/ HearAbandon("code")
             \/ HearResume \/ RetryResume
    BY <2>3, SubmitClaims, CancelClaims, HearCodeClaims, HearAbandonClaims, HearResumeClaims,
       RetryResumeClaims, ChallengeFinishes
  <2>4. CASE \E t \in left : HearLeft(t)
    BY <2>4, HearLeftClaims
  <2>5. CASE Serve \/ ServerDecides \/ Lose \/ ServerFails \/ TimePasses
    BY <2>5, ServeClaims, ServerDecidesClaims, LoseClaims, ServerFailsClaims, TimePassesClaims
  <2> QED
    BY <1>1, <2>1, <2>2, <2>3, <2>4, <2>5 DEF Next
<1>2. CASE UNCHANGED vars
  BY <1>2, KInvStutters
<1> QED
  BY <1>1, <1>2

-----------------------------------------------------------------------------
(* What a user who only presses the button and enters codes can have       *)
(* bought.  An order at its payment or past it is the one of the phase,    *)
(* which the page gives up only when the order is closed.                  *)

Committed == {o \in Order : status[o] \in {"charging", "awaiting", "unsure", "paid", "review"}}
Alone == \A o, p \in Committed : o = p

(* Nothing of another visit, and no cart but the one that was reserved.    *)
Quiet ==
  /\ left = {} /\ lapsed = {} /\ page.resume = "no" /\ task["resume"].at = "none"
  /\ task["early"].at # "drop" /\ task["flow"].at \notin {"drop", "abandon", "look"}
  /\ task["code"].at = "confirm" => task["code"].answer.is # "unknown"
  /\ \A t \in loose : t.at # "confirm"
  /\ ~page.on => cart = NoCart
SameCart ==
  page.on =>
    /\ cart # NoCart
    /\ page.phase.kind \in {"held", "placing"} =>
         page.phase.cart = cart /\ page.phase.with \in {"any", page.pay} \ {"cash"}
    /\ task["early"].at = "reserve" => task["early"].cart = cart
    /\ task["flow"].at # "none" => task["flow"].cart = cart /\ task["flow"].pay = page.pay
    /\ task["flow"].at = "place" => task["flow"].with = page.phase.with

(* The order at its payment is the one of the phase, ...                   *)
OfPhase ==
  page.on => \A o \in Committed :
    /\ page.phase.kind \in {"held", "placing", "ordered"} /\ page.phase.order = o
    /\ task["flow"].at # "undo" /\ task["code"].at \notin {"abandon", "look"}
    /\ page.phase.kind = "held" => status[o] = "awaiting"
    /\ page.phase.kind = "ordered" => status[o] \in {"awaiting", "paid"}
    /\ page.phase.kind \in {"held", "placing"} => charge[o].payment = page.pay
Placing == page.phase.kind = "placing" /\ task["flow"].at # "undo"
OfAttempt ==
  /\ page.attempt # NoKey <=> Placing
  /\ Placing =>
       IF record[page.attempt] = FreeKey
       THEN \A o \in Committed : status[o] \in {"awaiting", "unsure"}
       ELSE record[page.attempt].body = Body(page.phase.order, page.pay)

(* A placement the gateway waits for asks for what its key was used for.    *)
OfCharge ==
  \A o \in Order :
    /\ Running(o) => status[o] \in {"charging", "closed"}
    /\ Awaited(o) => record[charge[o].key].body = Body(o, charge[o].payment)

(* ... and what the page is told of it is so.                              *)
Hears(what) ==
  Placing /\ (record[page.attempt].answer.is = what
              \/ (task["flow"].at = "place" /\ task["flow"].answer.is = what))
ToldSo ==
  /\ Hears("error") \/ Hears("method") => Committed = {}
  /\ Hears("challenge") \/ Hears("cardless") => \A o \in Committed : status[o] = "awaiting"
  /\ Hears("cardless") => page.pay = "card"
  /\ task["code"].at = "confirm" =>
       /\ task["code"].order = page.phase.order
       /\ task["code"].answer.is = "error" => Committed = {}
  /\ page.own \in {"code", "check"} => page.order = page.phase.order

(* A lost placement comes with the key of the attempt, or repeats.         *)
Repeated(t) == record[t.key] # FreeKey
OfLoose ==
  /\ \A t \in loose : t.at = "reserve" => t.key # page.attempt
  /\ \A t \in loose : t.at = "place" =>
       \/ Repeated(t)
       \/ page.on /\ Placing /\ t.key = page.attempt /\ t.order = page.phase.order /\ t.pay = page.pay
  /\ (\E t \in loose : t.at = "place") /\ task["flow"].at = "place"
        /\ task["flow"].answer.is \notin {"none", "unknown"} => Repeated(task["flow"])

Single == Quiet /\ SameCart /\ Alone /\ OfPhase /\ OfAttempt /\ OfCharge /\ ToldSo /\ OfLoose
PInv == plain => Single /\ denied = {}

LEMMA LoosePlaces ==
  ASSUME LInv, NEW t \in loose
  PROVE  /\ t \in TaskRec /\ t \in Tasks /\ t.key \in 0..MaxKeys
         /\ t.at \in {"place", "reserve"} => t.key \in Key
BY TaskIsAmong, TaskFields, Basics DEF LInv, Types, Talk, Answers

LEMMA StaysRepeated ==
  ASSUME LInv, KeysStay, NEW t \in loose, t.at = "place", Repeated(t)
  PROVE  Repeated(t)'
BY LoosePlaces, UsedKeys DEF KeysStay, Repeated

(* Before the page drops an attempt it has heard of it, and so the lost    *)
(* placements with its key repeat.                                         *)
LEMMA AllRepeated ==
  ASSUME LInv, KInv, Single,
         ~Placing \/ (task["flow"].at = "place" /\ Reply(task["flow"]).is \notin {"none", "unknown"})
  PROVE  \A t \in loose : t.at = "place" => Repeated(t)
<1> SUFFICES ASSUME NEW t \in loose, t.at = "place" PROVE Repeated(t)
  OBVIOUS
<1>1. CASE ~Placing
  BY <1>1 DEF Single, OfLoose
<1>2. CASE task["flow"].at = "place" /\ Reply(task["flow"]).is \notin {"none", "unknown"}
  <2>1. task["flow"].answer.is \notin {"none", "unknown"}
    BY <1>2 DEF Reply
  <2>2. Repeated(task["flow"]) /\ task["flow"].key = page.attempt
    BY <1>2, <2>1 DEF Single, OfLoose, KInv, KeysApart
  <2> QED
    BY <2>2 DEF Single, OfLoose, Repeated
<1> QED
  BY <1>1, <1>2

Unserved ==
  /\ UNCHANGED <<status, lapsed, charge, cart, left, loose>> /\ KeysStay
  /\ page.on /\ page'.on

LEMMA ChargesKept ==
  ASSUME LInv, OfCharge, UNCHANGED <<status, charge>>, KeysStay
  PROVE  OfCharge'
<1> SUFFICES ASSUME NEW o \in Order
             PROVE  /\ Running(o)' => status'[o] \in {"charging", "closed"}
                    /\ Awaited(o)' => record'[charge'[o].key].body = Body(o, charge'[o].payment)
  BY DEF OfCharge
<1>1. Running(o)' <=> Running(o)
  BY DEF Running
<1>2. Running(o) => charge[o].key \in Key /\ charge[o].key \in KeysInUse
  BY Basics DEF Running, LInv, Types, ChargeRec, KeysInUse
<1>3. Running(o) => record'[charge[o].key] = record[charge[o].key]
  BY <1>2 DEF KeysStay
<1> QED
  BY <1>1, <1>3 DEF OfCharge, Awaited

(* A step of the page that leaves it without an attempt.                   *)
LEMMA NotPlacing ==
  ASSUME LInv, LInv', Single, Unserved, Quiet', SameCart', OfPhase',
         \A t \in loose : t.at = "place" => Repeated(t),
         page'.phase.kind # "placing" \/ task'["flow"].at = "undo", page'.attempt = NoKey,
         task'["code"].at = "confirm" =>
           /\ task'["code"].order = page'.phase.order
           /\ task'["code"].answer.is = "error" => Committed = {},
         page'.own \in {"code", "check"} => page'.order = page'.phase.order
  PROVE  Single'
<1>1. Committed' = Committed /\ ~Placing'
  BY DEF Unserved, Committed, Placing
<1>2. task'["flow"].at # "place"
  BY <1>1 DEF LInv, Layout, FlowInv, Placing
<1>3. Alone'
  BY <1>1 DEF Single, Alone
<1>4. OfAttempt'
  BY <1>1 DEF OfAttempt
<1>5. ToldSo'
  BY <1>1 DEF ToldSo, Hears
<1>7. OfCharge'
  BY ChargesKept DEF Single, Unserved
<1>6. OfLoose'
  <2>1. \A t \in loose : t.at = "place" => Repeated(t)'
    BY StaysRepeated DEF Unserved
  <2>2. \A t \in loose : t.at = "reserve" => t.key # NoKey
    BY LoosePlaces, Basics
  <2> QED
    BY <1>2, <2>1, <2>2 DEF OfLoose, Unserved
<1> QED
  BY <1>3, <1>4, <1>5, <1>6, <1>7 DEF Single

(* One that goes on with its attempt.                                      *)
LEMMA StillPlacing ==
  ASSUME LInv, LInv', Single, Unserved, Quiet', SameCart', Placing, Placing',
         page'.attempt = page.attempt, page'.phase.order = page.phase.order, page'.pay = page.pay,
         task'["flow"].at = "place" => task'["flow"].answer = Unsaid
  PROVE  Single'
<1>1. Committed' = Committed /\ status' = status /\ charge' = charge
  BY DEF Unserved, Committed
<1>2. /\ page.attempt # NoKey /\ page.attempt \in Key
      /\ record'[page.attempt] = record[page.attempt]
  BY Basics, TypesGive DEF Single, OfAttempt, Unserved, KeysStay, KeysInUse, LInv
<1>3. /\ task'["code"].at \notin {"confirm", "abandon", "look"}
      /\ page'.own \notin {"code", "check"}
      /\ page.phase.kind = "placing" /\ page'.phase.kind = "placing" /\ task'["flow"].at # "undo"
  BY DEF LInv, Layout, CodeInv, PhaseInv, Abandoning, Placing
<1>4. Alone'
  BY <1>1 DEF Single, Alone
<1>5. OfPhase'
  BY <1>1, <1>3 DEF Single, OfPhase, Unserved
<1>6. OfAttempt'
  BY <1>1, <1>2 DEF Single, OfAttempt
<1>7. ToldSo'
  BY <1>1, <1>2, <1>3, SaidFields DEF Single, ToldSo, Hears
<1>9. OfCharge'
  BY ChargesKept DEF Single, Unserved
<1>8. OfLoose'
  <2>1. \A t \in loose : t.at = "place" /\ Repeated(t) => Repeated(t)'
    BY StaysRepeated DEF Unserved
  <2> QED
    BY <2>1, SaidFields DEF Single, OfLoose, Unserved
<1> QED
  BY <1>4, <1>5, <1>6, <1>7, <1>8, <1>9 DEF Single

(* One that begins an attempt.                                             *)
LEMMA NewPlacing ==
  ASSUME LInv, LInv', KInv, Single, Unserved, Quiet', SameCart', ~Placing, Placing',
         \/ page.phase.kind \in {"none", "failed", "reserving"}
         \/ page.phase.kind = "held" /\ page'.phase.order = page.phase.order,
         page'.attempt \in Key, page'.attempt \notin KeysInUse, record'[page'.attempt] = FreeKey,
         page'.pay = page.pay, task'["flow"].at = "place" => task'["flow"].answer = Unsaid
  PROVE  Single'
<1>1. Committed' = Committed /\ status' = status /\ charge' = charge
  BY DEF Unserved, Committed
<1>2. \A o \in Committed : /\ status[o] = "awaiting" /\ page'.phase.order = o
                           /\ charge[o].payment = page.pay
  BY DEF Single, OfPhase, Unserved
<1>3. /\ task'["code"].at \notin {"confirm", "abandon", "look"}
      /\ page'.own \notin {"code", "check"}
      /\ page'.phase.kind = "placing" /\ task'["flow"].at # "undo"
  BY DEF LInv, Layout, CodeInv, PhaseInv, Abandoning, Placing
<1>4. Alone'
  BY <1>1 DEF Single, Alone
<1>5. OfPhase'
  BY <1>1, <1>2, <1>3 DEF OfPhase
<1>6. OfAttempt'
  BY <1>1, <1>2, Basics DEF OfAttempt
<1>7. ToldSo'
  BY <1>3, SaidFields, FreeKeyIsStored DEF ToldSo, Hears
<1>9. OfCharge'
  BY ChargesKept DEF Single, Unserved
<1>8. OfLoose'
  <2>1. \A t \in loose : t.at = "place" => Repeated(t)'
    BY StaysRepeated, AllRepeated DEF Unserved
  <2>2. \A t \in loose : t.at = "reserve" => t.key # page'.attempt
    BY LoosePlaces, UsedKeys
  <2> QED
    BY <2>1, <2>2, SaidFields DEF OfLoose, Unserved
<1> QED
  BY <1>4, <1>5, <1>6, <1>7, <1>8, <1>9 DEF Single

-----------------------------------------------------------------------------
(* Each step of the page keeps this.                                       *)

LEMMA NothingCommitted ==
  ASSUME Single, page.on,
         \/ page.phase.kind \notin {"held", "placing", "ordered"} \/ task["flow"].at = "undo"
         \/ task["code"].at \in {"abandon", "look"}
  PROVE  Committed = {}
BY DEF Single, OfPhase

LEMMA NoneIsOfPhase ==
  ASSUME Committed = {}, status' = status
  PROVE  Committed' = {} /\ OfPhase'
BY DEF Committed, OfPhase

LEMMA AskCart ==
  ASSUME NEW t \in TaskRec, NEW at \in At, NEW o \in 0..MaxOrders, NEW k
  PROVE  /\ Ask(t, at, o).cart = t.cart /\ Ask(t, at, o).pay = t.pay
         /\ AskWith(t, at, o, k).cart = t.cart /\ AskWith(t, at, o, k).pay = t.pay
         /\ AskWith(t, at, o, k).with = t.with
<1>1. Ask(t, at, o).cart = t.cart /\ Ask(t, at, o).pay = t.pay /\ Ask(t, at, o).with = t.with
  BY DEF Ask, TaskRec
<1>2. Ask(t, at, o) \in TaskRec
  BY AskIs DEF TaskIs
<1> QED
  BY <1>1, <1>2 DEF AskWith, TaskRec

LEMMA StartEarlySingle ==
  ASSUME LInv, LInv', KInv, Single, StartEarly, crossed' = 0
  PROVE  Single'
<1> DEFINE r == Rest("early")
<1>1. /\ page.on /\ page.own = "idle" /\ page.resume = "no" /\ task["early"].at = "none"
      /\ UNCHANGED <<status, lapsed, charge, browser, left, loose, plain, counts>>
      /\ page \in PageRec /\ page.phase \in PhaseRec /\ page.phase.kind \in PhaseKind
      /\ r \in TaskRec /\ r.job = "early" /\ r.attempt = NoKey
  BY TypesGive, StartEarlyIs DEF LInv, PhaseRec
<1>2. PICK old \in Over(page.phase.order) :
        \/ EarlyStep(old) = "release" /\ EarlyReleases(NoCart)
        \/ EarlyStep(old) = "replace" /\ EarlyReleases(cart)
        \/ EarlyStep(old) = "renew" /\ EarlyReserves(Rest("early"), NoKey)
        \/ EarlyStep(old) = "reserve" /\ EarlyReserves(Rest("early"), IntentFor(cart))
  BY DEF StartEarly
<1>3. EarlyReserves(r, IntentFor(cart)) /\ page.phase.kind \in {"none", "failed"}
  <2>1. /\ cart # NoCart
        /\ page.phase.kind = "held" => page.phase.cart = cart
        /\ page.phase.kind # "ordered" /\ lapsed = {}
    BY <1>1 DEF Single, Quiet, SameCart, LInv, Layout, PhaseInv, FlowInv, CodeInv, Abandoning
  <2>2. EarlyStep(old) \notin {"release", "replace"}
    BY <2>1 DEF EarlyStep
  <2>3. EarlyStep(old) # "renew"
    BY <1>2, <2>1 DEF EarlyStep, Over
  <2>4. EarlyStep(old) = "reserve"
    BY <1>2, <2>2, <2>3
  <2>5. page.phase.kind # "held"
    BY <2>1, <2>4 DEF EarlyStep
  <2> QED
    BY <1>1, <1>2, <2>1, <2>4, <2>5 DEF EarlyStep, PhaseKind
<1> HIDE DEF r
<1>4. /\ PageIs(page', page.on, page.own, page.order, page.resume,
                Phase("reserving", NoOrder, cart), KeyFrom(IntentFor(cart)), page.attempt)
      /\ TaskIs(task'["early"], "early", "reserve", NoOrder, KeyFrom(IntentFor(cart)), NoKey, Unsaid)
      /\ OnlyTask("early", task'["early"])
      /\ page' = [page EXCEPT !.phase = Phase("reserving", NoOrder, cart),
                              !.intent = KeyFrom(IntentFor(cart)), !.of = cart]
      /\ task'["early"] = AskWith([r EXCEPT !.cart = cart], "reserve", NoOrder,
                                  KeyFrom(IntentFor(cart)))
  BY <1>1, <1>3, IntentIs, EarlyReservesIs DEF LInv
<1>13. KeysStay
  BY <1>3, IntentIs, KeysStayBy DEF LInv, EarlyReserves
<1>5. task'["early"].cart = cart /\ page'.pay = page.pay
  <2> DEFINE c == [r EXCEPT !.cart = cart]
  <2>1. cart \in Cart \cup {NoCart}
    BY TypesGive DEF LInv
  <2>2. c \in TaskRec /\ c.cart = cart
    BY <1>1, <2>1 DEF TaskRec
  <2>3. task'["early"] = AskWith(c, "reserve", NoOrder, KeyFrom(IntentFor(cart)))
    BY <1>4
  <2> HIDE DEF c
  <2> QED
    BY <1>1, <1>4, <2>2, <2>3, AskCart, Basics DEF At, PageRec
<1>6. /\ task'["flow"] = task["flow"] /\ task'["code"] = task["code"] /\ task'["resume"] = task["resume"]
      /\ page'.phase.kind = "reserving"
  BY <1>4, JobsAre, PhaseFields DEF OnlyTask, PageIs
<1>12. task'["flow"].at # "place"
  BY <1>1, <1>6 DEF LInv, Layout, FlowInv
<1>7. Quiet' /\ SameCart'
  BY <1>1, <1>4, <1>5, <1>6, <1>12 DEF Single, Quiet, SameCart, browser, PageIs, TaskIs
<1>8. Committed = {} /\ OfPhase'
  BY <1>1, <1>3, NothingCommitted, NoneIsOfPhase
<1>9. ~Placing /\ page'.attempt = NoKey
  BY <1>3, <1>4 DEF Placing, PageIs, Single, OfAttempt
<1>10. task'["code"].at # "confirm" /\ page'.own \notin {"code", "check"}
  BY <1>1, <1>4, <1>6 DEF PageIs, LInv, Layout, CodeInv
<1>11. Unserved
  BY <1>1, <1>4, <1>13 DEF Unserved, browser, PageIs
<1> QED
  BY <1>6, <1>7, <1>8, <1>9, <1>10, <1>11, AllRepeated, NotPlacing

LEMMA HearEarlySingle ==
  ASSUME LInv, LInv', KInv, Single, NEW run \in EarlyRuns, HearEarly(run)
  PROVE  Single'
<1> DEFINE t == task["early"]
           what == Reply(t)
<1>1. /\ UNCHANGED <<status, lapsed, charge, browser, left, loose, plain, counts>>
      /\ page \in PageRec /\ page.phase \in PhaseRec
      /\ t \in TaskRec /\ t.cart \in Cart \cup {NoCart}
  BY TypesGive, JobsAre, TaskFields, HearEarlyIs DEF LInv
<1>2. /\ t.at = "reserve" /\ Ends("early") /\ record' = record
      /\ \E phase \in {Phase("held", what.order, t.cart), Phase("failed", NoOrder, t.cart)},
            intent \in {page.intent, SettledIntent(what.is)} :
           page' = [page EXCEPT !.phase = phase, !.intent = intent]
  <2>1. t.at = "reserve"
    BY HearEarlyIs DEF Single, Quiet
  <2>2. CASE page' = [page EXCEPT !.phase = Phase("held", what.order, t.cart)]
             /\ Ends("early") /\ record' = record
    <3>1. page' = [page EXCEPT !.phase = Phase("held", what.order, t.cart), !.intent = page.intent]
      BY <1>1, <2>2 DEF PageRec
    <3> QED
      BY <2>1, <2>2, <3>1
  <2> QED
    BY <2>1, <2>2, HearEarlyIs
<1>3. /\ page.on /\ page.phase.kind = "reserving" /\ page.resume = "no"
      /\ page.own = "idle" \/ task["flow"].at = "take"
      /\ t.cart = cart /\ task["code"].at # "confirm" /\ page.own \notin {"code", "check"}
  <2>1. page.on
    BY <1>2, JobsAre, BlankIs DEF LInv, Layout, Off, TaskIs
  <2> QED
    BY <1>2, <2>1 DEF LInv, Layout, EarlyInv, FlowInv, CodeInv, Single, SameCart
<1>4. PICK phase \in {Phase("held", what.order, t.cart), Phase("failed", NoOrder, t.cart)},
           intent \in {page.intent, SettledIntent(what.is)} :
        page' = [page EXCEPT !.phase = phase, !.intent = intent]
  BY <1>2
<1>5. /\ page'.phase = phase /\ page'.on = page.on /\ page'.own = page.own
      /\ page'.resume = page.resume /\ page'.pay = page.pay /\ page'.attempt = page.attempt
  BY <1>1, <1>4 DEF PageRec
<1>6. phase.kind \in {"held", "failed"} /\ phase.cart = cart /\ phase.with = "any"
  BY <1>3, <1>4 DEF Phase
<1>7. /\ OnlyTask("early", Rest("early"))
      /\ TaskIs(Rest("early"), "early", "none", NoOrder, NoKey, NoKey, Unsaid)
  BY <1>2, EndsIs, JobsAre DEF LInv
<1>8. /\ task'["flow"] = task["flow"] /\ task'["code"] = task["code"] /\ task'["resume"] = task["resume"]
      /\ task'["early"].at = "none"
  BY <1>7, JobsAre DEF OnlyTask, TaskIs
<1>13. task'["flow"].at # "place"
  BY <1>3, <1>8 DEF LInv, Layout, FlowInv
<1>9. Quiet' /\ SameCart'
  BY <1>1, <1>3, <1>5, <1>6, <1>8, <1>13 DEF Single, Quiet, SameCart, browser
<1>10. Committed = {} /\ OfPhase'
  BY <1>1, <1>3, NothingCommitted, NoneIsOfPhase
<1>11. ~Placing /\ page'.attempt = NoKey
  BY <1>3, <1>5 DEF Placing, Single, OfAttempt
<1>12. Unserved
  BY <1>1, <1>2, <1>3, <1>5 DEF Unserved, browser, KeysStay
<1> QED
  BY <1>3, <1>5, <1>6, <1>8, <1>9, <1>10, <1>11, <1>12, AllRepeated, NotPlacing

LEMMA RetryEarlySingle ==
  ASSUME LInv, LInv', KInv, Single, RetryEarly
  PROVE  Single'
<1>1. /\ UNCHANGED <<server, browser, task, left, loose, history, plain, counts>>
      /\ page \in PageRec /\ page' = [page EXCEPT !.phase = NoPhase]
      /\ page.on /\ page.own = "idle" /\ page.phase.kind = "failed"
  BY TypesGive DEF RetryEarly, Idle, LInv
<1>2. /\ page'.phase = NoPhase /\ page'.on = page.on /\ page'.own = page.own
      /\ page'.resume = page.resume /\ page'.pay = page.pay /\ page'.attempt = page.attempt
  BY <1>1 DEF PageRec
<1>3. page'.phase.kind = "none"
  BY <1>2, PhaseFields
<1>8. task["flow"].at # "place"
  BY <1>1 DEF LInv, Layout, FlowInv
<1>4. Quiet' /\ SameCart'
  BY <1>1, <1>2, <1>3, <1>8 DEF Single, Quiet, SameCart, browser, server
<1>5. Committed = {} /\ OfPhase'
  BY <1>1, NothingCommitted, NoneIsOfPhase DEF server
<1>6. ~Placing /\ page'.attempt = NoKey /\ task["code"].at # "confirm"
  BY <1>1, <1>2 DEF Placing, Single, OfAttempt, LInv, Layout, CodeInv
<1>7. Unserved
  BY <1>1, <1>2 DEF Unserved, browser, server, KeysStay
<1> QED
  BY <1>1, <1>2, <1>3, <1>4, <1>5, <1>6, <1>7, AllRepeated, NotPlacing

LEMMA PressSingle ==
  ASSUME LInv, LInv', KInv, Single, Press
  PROVE  Single'
<1> DEFINE t == [task["flow"] EXCEPT !.at = "take", !.cart = cart, !.pay = page.pay]
<1>1. /\ page.on /\ page.own = "idle" /\ page.resume = "no" /\ task["flow"].at = "none"
      /\ page' = [page EXCEPT !.own = "busy"] /\ task' = [task EXCEPT !["flow"] = t]
      /\ UNCHANGED <<server, browser, left, loose, history, plain, counts>>
      /\ page \in PageRec /\ page.pay \in Payment /\ cart \in Cart \cup {NoCart}
      /\ task["flow"] \in TaskRec
  BY TypesGive, JobsAre DEF Press, Idle, LInv
<1>2. /\ page'.phase = page.phase /\ page'.on = page.on /\ page'.own = "busy"
      /\ page'.resume = page.resume /\ page'.pay = page.pay /\ page'.attempt = page.attempt
  BY <1>1 DEF PageRec
<1>3. t \in TaskRec /\ t.at = "take" /\ t.cart = cart /\ t.pay = page.pay
  BY <1>1 DEF TaskRec, At
<1>4. OnlyTask("flow", t)
  <2> HIDE DEF t
  <2> QED
    BY <1>1, <1>3, OneTask, JobsAre DEF LInv
<1> HIDE DEF t
<1>5. /\ task'["flow"] = t /\ task'["early"] = task["early"] /\ task'["code"] = task["code"]
      /\ task'["resume"] = task["resume"]
  BY <1>4, JobsAre DEF OnlyTask
<1>6. Quiet' /\ SameCart'
  BY <1>1, <1>2, <1>3, <1>5 DEF Single, Quiet, SameCart, browser, server
<1>7. Unserved
  BY <1>1, <1>2 DEF Unserved, browser, server, KeysStay
<1>8. Placing' <=> Placing
  BY <1>1, <1>2, <1>3, <1>5 DEF Placing
<1>9. CASE Placing
  BY <1>2, <1>3, <1>5, <1>6, <1>7, <1>8, <1>9, StillPlacing
<1>10. CASE ~Placing
  <2>1. page'.phase.kind # "placing" /\ page'.attempt = NoKey
    BY <1>1, <1>2, <1>10 DEF Placing, Single, OfAttempt
  <2>2. OfPhase'
    BY <1>1, <1>2, <1>3, <1>5 DEF Single, OfPhase, Committed, server
  <2>3. task'["code"].at # "confirm"
    BY <1>1, <1>5 DEF LInv, Layout, CodeInv
  <2> QED
    BY <1>2, <1>6, <1>7, <1>10, <2>1, <2>2, <2>3, AllRepeated, NotPlacing
<1> QED
  BY <1>9, <1>10

LEMMA FlowPlacesSingle ==
  ASSUME LInv, LInv', KInv, Single, NEW held \in PhaseRec, FlowPlaces(held),
         UNCHANGED <<status, lapsed, charge, browser, left, loose, plain, counts>>,
         task["flow"].at \in {"take", "reserve"}, task["early"].at = "none",
         held.cart = cart, held.with \in {"any", page.pay} \ {"cash"},
         \/ page.phase.kind \in {"none", "failed"}
         \/ page.phase.kind \in {"held", "placing"} /\ held = page.phase
  PROVE  Single'
<1>1. /\ page.on /\ page.own = "busy" /\ page.resume = "no"
      /\ task["code"].at = "none" /\ task["resume"].at = "none" /\ Named
      /\ Takes(page.attempt) /\ page.attempt \in 0..MaxKeys
      /\ page \in PageRec /\ task["flow"] \in TaskRec /\ page.phase \in PhaseRec
  BY FlowUnderWay, TypesGive, JobsAre DEF LInv, Layout, FlowPlaces
<1>2. /\ PageIs(page', page.on, page.own, page.order, page.resume,
                [held EXCEPT !.kind = "placing"], page.intent, KeyFrom(page.attempt))
      /\ TaskIs(task'["flow"], "flow", "place", held.order, KeyFrom(page.attempt), NoKey, Unsaid)
      /\ OnlyTask("flow", task'["flow"]) /\ KeysStay
  BY <1>1, FlowPlacesIs, KeysStayBy DEF LInv
<1>3. page'.pay = page.pay
  BY <1>1 DEF FlowPlaces, PageRec
<1>4. /\ task'["flow"].cart = cart /\ task'["flow"].pay = page.pay
      /\ task'["flow"].with = held.with
  <2> DEFINE t == [task["flow"] EXCEPT !.with = held.with]
  <2>1. task'["flow"] = AskWith(t, "place", held.order, KeyFrom(page.attempt))
    BY JobsAre DEF FlowPlaces, LInv, Types
  <2>4. /\ t \in TaskRec /\ t.cart = task["flow"].cart /\ t.pay = task["flow"].pay
        /\ t.with = held.with
    BY <1>1 DEF TaskRec, PhaseRec
  <2> HIDE DEF t
  <2>2. held.order \in 0..MaxOrders
    BY DEF PhaseRec
  <2>3. task["flow"].cart = cart /\ task["flow"].pay = page.pay
    BY <1>1 DEF Single, SameCart
  <2> QED
    BY <2>1, <2>2, <2>3, <2>4, AskCart DEF At
<1>5. /\ task'["early"] = task["early"] /\ task'["code"] = task["code"]
      /\ task'["resume"] = task["resume"]
  BY <1>2, JobsAre DEF OnlyTask
<1>6. /\ page'.phase.kind = "placing" /\ page'.phase.order = held.order
      /\ page'.phase.cart = cart /\ page'.phase.with = held.with
  <2>1. page'.phase = [held EXCEPT !.kind = "placing"]
    BY <1>2 DEF PageIs
  <2> QED
    BY <2>1 DEF PhaseRec
<1>7. Quiet' /\ SameCart'
  BY <1>1, <1>2, <1>3, <1>4, <1>5, <1>6 DEF Single, Quiet, SameCart, browser, PageIs, TaskIs
<1>8. Unserved /\ Placing'
  BY <1>1, <1>2, <1>6 DEF Unserved, browser, PageIs, Placing, TaskIs
<1>9. task'["flow"].answer = Unsaid /\ page'.attempt = KeyFrom(page.attempt)
  BY <1>2 DEF TaskIs, PageIs
<1>10. CASE page.phase.kind = "placing"
  <2>1. Placing /\ held = page.phase
    BY <1>10 DEF Placing
  <2>2. page'.attempt = page.attempt
    BY <1>9, <2>1 DEF Single, OfAttempt, KeyFrom
  <2> QED
    BY <1>3, <1>6, <1>7, <1>8, <1>9, <2>1, <2>2, StillPlacing
<1>11. CASE page.phase.kind # "placing"
  <2>1. ~Placing /\ page.attempt = NoKey
    BY <1>11 DEF Placing, Single, OfAttempt
  <2>2. /\ page'.attempt \in Key /\ page'.attempt \notin KeysInUse
        /\ record'[page'.attempt] = FreeKey
    <3>1. page.attempt \in KeysInUse
      BY DEF KeysInUse
    <3>2. KeyFrom(page.attempt) \in Key /\ KeyFrom(page.attempt) \notin KeysInUse
          /\ record'[KeyFrom(page.attempt)] = FreeKey
      BY <1>1, <2>1, KeyIsTaken, Basics DEF LInv
    <3> QED
      BY <1>9, <3>2
  <2> QED
    BY <1>3, <1>6, <1>7, <1>8, <1>9, <1>11, <2>1, <2>2, NewPlacing
<1> QED
  BY <1>10, <1>11

LEMMA TakeSingle ==
  ASSUME LInv, LInv', KInv, Single, Take
  PROVE  Single'
<1> DEFINE t == task["flow"]
           held == page.phase
<1>1. /\ t.at = "take" /\ task["early"].at = "none"
      /\ UNCHANGED <<status, lapsed, charge, browser, left, loose, plain, counts>>
      /\ held \in PhaseRec /\ held.kind \in PhaseKind /\ t \in TaskRec /\ page \in PageRec
      /\ held.kind \notin {"ordered", "reserving"}
      /\ page.on /\ page.own = "busy" /\ page.resume = "no"
      /\ task["code"].at = "none" /\ task["resume"].at = "none"
  BY FlowUnderWay, TypesGive, JobsAre
     DEF Take, LInv, Layout, EarlyInv, FlowInv, CodeInv, PhaseInv, Abandoning, PhaseRec
<1>2. /\ t.cart = cart /\ t.pay = page.pay /\ lapsed = {}
      /\ held.kind \in {"held", "placing"} => held.cart = cart /\ held.with \in {"any", page.pay} \ {"cash"}
  BY <1>1 DEF Single, Quiet, SameCart
<1>3. PICK old \in Over(held.order) :
         \/ held.kind \in {"held", "placing"} /\ Usable(held, t, old) /\ FlowPlaces(held)
         \/ held.kind = "held" /\ ~Usable(held, t, old)
         \/ /\ FlowReserves(IntentFor(t.cart))
            /\ ~(held.kind \in {"held", "placing"} /\ Usable(held, t, old))
  BY DEF Take
<1>4. held.kind \in {"held", "placing"} => Usable(held, t, old)
  BY <1>2 DEF Over, Usable
<1>5. CASE held.kind \in {"held", "placing"} /\ FlowPlaces(held)
  BY <1>1, <1>2, <1>5, FlowPlacesSingle
<1>6. CASE FlowReserves(IntentFor(t.cart)) /\ held.kind \notin {"held", "placing"}
  <2>1. /\ PageIs(page', page.on, page.own, page.order, page.resume,
                  IF page.phase.kind = "placing" THEN NoPhase ELSE page.phase,
                  KeyFrom(IntentFor(t.cart)), page.attempt)
        /\ TaskIs(task'["flow"], "flow", "reserve", NoOrder, KeyFrom(IntentFor(t.cart)), NoKey, Unsaid)
        /\ OnlyTask("flow", task'["flow"]) /\ KeysStay
    BY <1>6, FlowReservesIs, KeysStayBy, IntentIs DEF LInv, Layout, FlowReserves
  <2>2. page'.pay = page.pay /\ page'.phase = page.phase
    BY <1>1, <1>6, <2>1 DEF FlowReserves, PageRec, PageIs
  <2>3. task'["flow"].cart = cart /\ task'["flow"].pay = page.pay
    <3>1. task'["flow"] = AskWith(task["flow"], "reserve", NoOrder, KeyFrom(IntentFor(t.cart)))
      BY <1>6, JobsAre DEF FlowReserves, LInv, Types
    <3> QED
      BY <1>1, <1>2, <3>1, AskCart, Basics DEF At
  <2>4. /\ task'["early"] = task["early"] /\ task'["code"] = task["code"]
        /\ task'["resume"] = task["resume"]
    BY <2>1, JobsAre DEF OnlyTask
  <2>5. Quiet' /\ SameCart'
    BY <1>1, <1>2, <1>6, <2>1, <2>2, <2>3, <2>4 DEF Single, Quiet, SameCart, browser, PageIs, TaskIs
  <2>6. Committed = {} /\ OfPhase'
    BY <1>1, <1>6, NothingCommitted, NoneIsOfPhase
  <2>7. ~Placing /\ page'.attempt = NoKey /\ Unserved
    BY <1>1, <1>6, <2>1 DEF Placing, Single, OfAttempt, PageIs, Unserved, browser
  <2>8. task'["code"].at # "confirm" /\ page'.own \notin {"code", "check"} /\ page'.phase.kind # "placing"
    BY <1>1, <1>6, <2>1, <2>2, <2>4 DEF PageIs
  <2> QED
    BY <2>5, <2>6, <2>7, <2>8, AllRepeated, NotPlacing
<1> QED
  BY <1>3, <1>4, <1>5, <1>6

LEMMA HearReserveSingle ==
  ASSUME LInv, LInv', KInv, Single, HearReserve
  PROVE  Single'
<1> DEFINE t == task["flow"]
           what == Reply(t)
<1>1. /\ t.at = "reserve" /\ t \in TaskRec /\ Answers(t, record)
      /\ UNCHANGED <<status, lapsed, charge, browser, left, loose, plain, counts>>
      /\ page.on /\ page.own = "busy" /\ page.resume = "no" /\ page \in PageRec
      /\ task["code"].at = "none" /\ task["resume"].at = "none" /\ task["early"].at = "none"
      /\ page.phase.kind \in {"none", "failed"} /\ t.cart \in Cart \cup {NoCart}
  <2>1. t.at = "reserve"
    BY DEF HearReserve, Single, Quiet
  <2> QED
    BY <2>1, FlowUnderWay, TypesGive, JobsAre, TaskFields DEF HearReserve, LInv, Layout, FlowInv, Talk
<1>2. CASE what.is = "held" /\ FlowPlaces(Phase("held", what.order, t.cart))
  <2>1. what.order \in 0..MaxOrders
    BY <1>1, RepliesNeverWait, TaskFields, SaidFields
  <2>2. /\ Phase("held", what.order, t.cart) \in PhaseRec
        /\ Phase("held", what.order, t.cart).cart = t.cart
        /\ Phase("held", what.order, t.cart).with = "any"
    BY <1>1, <2>1, PhaseFields DEF PhaseKind, Phase
  <2>3. t.cart = cart
    BY <1>1 DEF Single, SameCart
  <2> QED
    BY <1>1, <1>2, <2>2, <2>3, FlowPlacesSingle
<1>3. CASE BackToIdle(NoPhase, SettledIntent(what.is), page.attempt)
  <2>1. /\ PageIs(page', page.on, "idle", page.order, page.resume, NoPhase, SettledIntent(what.is), page.attempt)
        /\ TaskIs(task'["flow"], "flow", "none", NoOrder, NoKey, NoKey, Unsaid)
        /\ OnlyTask("flow", task'["flow"]) /\ record' = record
    BY <1>3, BackToIdleIs, PhaseFields, SettledIs, TypesGive DEF LInv, BackToIdle
  <2>2. page'.pay = page.pay
    BY <1>1, <1>3 DEF BackToIdle, PageRec
  <2>3. /\ task'["early"] = task["early"] /\ task'["code"] = task["code"]
        /\ task'["resume"] = task["resume"] /\ page'.phase.kind = "none"
    BY <2>1, JobsAre, PhaseFields DEF OnlyTask, PageIs
  <2>4. Quiet' /\ SameCart'
    BY <1>1, <2>1, <2>2, <2>3 DEF Single, Quiet, SameCart, browser, PageIs, TaskIs
  <2>5. Committed = {} /\ OfPhase'
    BY <1>1, NothingCommitted, NoneIsOfPhase
  <2>6. ~Placing /\ page'.attempt = NoKey /\ Unserved
    BY <1>1, <2>1 DEF Placing, Single, OfAttempt, PageIs, Unserved, browser, KeysStay
  <2>7. task'["code"].at # "confirm" /\ page'.own \notin {"code", "check"}
    BY <1>1, <2>1, <2>3 DEF PageIs
  <2> QED
    BY <2>3, <2>4, <2>5, <2>6, <2>7, AllRepeated, NotPlacing
<1> QED
  BY <1>1, <1>2, <1>3 DEF HearReserve

LEMMA HearsIt ==
  ASSUME LInv, KInv, Single, task["flow"].at = "place", NEW what, what \notin {"none", "wait", "unknown"},
         Reply(task["flow"]).is = what
  PROVE  Hears(what)
<1> DEFINE t == task["flow"]
<1>1. Placing /\ t.key = page.attempt
  BY DEF LInv, Layout, FlowInv, Placing, KInv, KeysApart
<1>2. CASE t.answer.is # "wait"
  BY <1>1, <1>2 DEF Reply, Hears
<1>3. CASE t.answer.is = "wait"
  <2>1. Reply(t).is = "none" \/ Reply(t).is = "unknown" \/ Reply(t) = record[t.key].answer
    BY <1>3, SaidFields DEF Reply
  <2> QED
    BY <1>1, <2>1 DEF Hears
<1> QED
  BY <1>2, <1>3

LEMMA HearRefusalSingle ==
  ASSUME LInv, LInv', KInv, Single, HearRefusal
  PROVE  Single'
<1> DEFINE t == task["flow"]
           what == Reply(t).is
           held == HeldBy(t, "held")
           phase == IF what = "method" THEN held ELSE [held EXCEPT !.with = t.pay]
<1>1. /\ t \in TaskRec /\ t.at = "place" /\ what \in {"cardless", "method"}
      /\ UNCHANGED <<server, browser, left, loose, plain, counts>> /\ Ends("flow")
      /\ page.on /\ page.own = "busy" /\ page.resume = "no"
      /\ task["code"].at = "none" /\ task["resume"].at = "none" /\ task["early"].at = "none"
      /\ page \in PageRec /\ Placing /\ Hears(what) /\ t.order = page.phase.order
      /\ t.cart = cart /\ t.pay = page.pay /\ t.pay \in Payment
      /\ t.with \in {"any", "card"}
  <2>1. t.at = "place" /\ what \in {"cardless", "method"}
    BY DEF HearRefusal
  <2>2. Hears(what)
    BY <2>1, HearsIt
  <2> QED
    BY <2>1, <2>2, FlowUnderWay, JobsAre, TaskFields, TypesGive, PlacingFlow
       DEF HearRefusal, LInv, Single, SameCart, Hears, Placing, Payment
<1>2. page' = [page EXCEPT !.own = "idle", !.attempt = NoKey,
                           !.pay = IF what = "method" THEN "card" ELSE @, !.phase = phase]
  BY DEF HearRefusal
<1>3. phase.kind = "held" /\ phase.order = t.order /\ phase.cart = t.cart
      /\ phase.with = IF what = "method" THEN t.with ELSE t.pay
  BY <1>1 DEF HeldBy, Phase
<1>4. /\ OnlyTask("flow", Rest("flow"))
      /\ TaskIs(Rest("flow"), "flow", "none", NoOrder, NoKey, NoKey, Unsaid)
  BY <1>1, EndsIs, JobsAre DEF LInv
<1> HIDE DEF phase, held, what
<1>5. /\ page'.phase = phase /\ page'.on = page.on /\ page'.own = "idle"
      /\ page'.resume = page.resume /\ page'.attempt = NoKey
      /\ page'.pay = IF what = "method" THEN "card" ELSE page.pay
  BY <1>1, <1>2 DEF PageRec
<1>6. /\ task'["early"] = task["early"] /\ task'["code"] = task["code"]
      /\ task'["resume"] = task["resume"] /\ task'["flow"].at = "none"
  BY <1>4, JobsAre DEF OnlyTask, TaskIs
<1>11. what = "cardless" => page.pay = "card"
  BY <1>1 DEF Single, ToldSo
<1>7. Quiet' /\ SameCart'
  BY <1>1, <1>3, <1>5, <1>6, <1>11 DEF Single, Quiet, SameCart, browser, server
<1>8. OfPhase'
  <2>1. CASE what = "method"
    BY <1>1, <2>1, NoneIsOfPhase DEF Single, ToldSo, server
  <2>2. CASE what = "cardless"
    <3>1. \A o \in Committed : status[o] = "awaiting" /\ page.phase.order = o /\ charge[o].payment = page.pay
      BY <1>1, <2>2 DEF Single, ToldSo, OfPhase, Placing
    <3>2. Committed' = Committed /\ status' = status /\ charge' = charge
      BY <1>1 DEF Committed, server
    <3> QED
      BY <1>1, <1>3, <1>5, <1>6, <2>2, <3>1, <3>2 DEF OfPhase
  <2> QED
    BY <1>1, <2>1, <2>2
<1>9. Unserved
  BY <1>1, <1>5 DEF Unserved, browser, server, KeysStay
<1>10. \A u \in loose : u.at = "place" => Repeated(u)
  BY <1>1, AllRepeated DEF what
<1> QED
  BY <1>1, <1>3, <1>5, <1>6, <1>7, <1>8, <1>9, <1>10, NotPlacing

LEMMA HearFailureSingle ==
  ASSUME LInv, LInv', KInv, Single, HearFailure
  PROVE  Single'
<1> DEFINE t == task["flow"]
           what == Reply(t).is
<1>1. /\ t \in TaskRec /\ t.at \in {"place", "undo"} /\ t.order \in 0..MaxOrders
      /\ t.cart \in Cart \cup {NoCart}
      /\ UNCHANGED <<status, lapsed, charge, browser, left, loose, owed, plain, counts>>
      /\ record' = record
      /\ page.on /\ page.own = "busy" /\ page.resume = "no" /\ Named
      /\ task["code"].at = "none" /\ task["resume"].at = "none" /\ task["early"].at = "none"
      /\ page \in PageRec /\ page.phase.kind = "placing" /\ t.cart = cart /\ t.pay = page.pay
      /\ page.phase.cart = cart /\ page.phase.with \in {"any", page.pay} \ {"cash"}
      /\ t.at = "place" => t.with = page.phase.with
  <2>1. t.at \in {"place", "undo"}
    BY DEF HearFailure
  <2>2. page.on /\ page.phase.kind = "placing"
    BY <2>1, FlowUnderWay DEF LInv, Layout, FlowInv
  <2> QED
    BY <2>1, <2>2, FlowUnderWay, JobsAre, TaskFields, TypesGive
       DEF HearFailure, BackToIdle, LInv, Layout, FlowInv, Single, SameCart
<1>2. CASE /\ t.at = "place" /\ what = "error"
           /\ page' = [page EXCEPT !.intent = NoKey, !.attempt = SettledAttempt(what)]
           /\ task' = [task EXCEPT !["flow"] = Ask(@, "undo", t.order)]
  <2>1. /\ page'.phase = page.phase /\ page'.on = page.on /\ page'.own = page.own
        /\ page'.resume = page.resume /\ page'.pay = page.pay /\ page'.attempt = NoKey
    BY <1>1, <1>2, SettledIs DEF PageRec, LInv
  <2>2. TaskIs(Ask(t, "undo", t.order), "flow", "undo", t.order, NoKey, NoKey, Unsaid)
    BY <1>1, AskIs, JobsAre DEF At, Named
  <2>3. Ask(t, "undo", t.order).cart = cart /\ Ask(t, "undo", t.order).pay = page.pay
    BY <1>1, AskCart DEF At
  <2>4. OnlyTask("flow", Ask(t, "undo", t.order))
    BY <1>2, <2>2, OneTask, JobsAre DEF TaskIs, LInv
  <2>5. /\ task'["early"] = task["early"] /\ task'["code"] = task["code"]
        /\ task'["resume"] = task["resume"] /\ task'["flow"] = Ask(t, "undo", t.order)
        /\ task'["flow"].at = "undo"
    BY <2>2, <2>4, JobsAre DEF OnlyTask, TaskIs
  <2>6. Quiet' /\ SameCart'
    BY <1>1, <2>1, <2>3, <2>5 DEF Single, Quiet, SameCart, browser
  <2>7. Committed = {} /\ OfPhase'
    <3>1. Hears("error")
      BY <1>2, HearsIt
    <3> QED
      BY <1>1, <3>1, NoneIsOfPhase DEF Single, ToldSo
  <2>8. Unserved
    BY <1>1, <2>1 DEF Unserved, browser, KeysStay
  <2>9. \A u \in loose : u.at = "place" => Repeated(u)
    BY <1>2, AllRepeated
  <2> QED
    BY <1>1, <2>1, <2>5, <2>6, <2>7, <2>8, <2>9, NotPlacing
<1>3. CASE /\ t.at = "place" /\ what = "unknown"
           /\ BackToIdle(HeldBy(t, "placing"), page.intent, SettledAttempt(what))
  <2>1. /\ HeldBy(t, "placing") \in PhaseRec
        /\ HeldBy(t, "placing").kind = "placing"
        /\ HeldBy(t, "placing").order = t.order
        /\ HeldBy(t, "placing").cart = t.cart
        /\ HeldBy(t, "placing").with = t.with
    BY <1>1, HeldByIs DEF PhaseKind, HeldBy, Phase
  <2>2. /\ PageIs(page', page.on, "idle", page.order, page.resume, HeldBy(t, "placing"),
                  page.intent, page.attempt)
        /\ TaskIs(task'["flow"], "flow", "none", NoOrder, NoKey, NoKey, Unsaid)
        /\ OnlyTask("flow", task'["flow"])
    BY <1>3, <2>1, BackToIdleIs, SettledIs, TypesGive DEF LInv
  <2>3. page'.pay = page.pay
    BY <1>1, <1>3 DEF BackToIdle, PageRec
  <2>4. /\ task'["early"] = task["early"] /\ task'["code"] = task["code"]
        /\ task'["resume"] = task["resume"]
    BY <2>2, JobsAre DEF OnlyTask
  <2>5. Quiet' /\ SameCart'
    BY <1>1, <1>3, <2>1, <2>2, <2>3, <2>4 DEF Single, Quiet, SameCart, browser, PageIs, TaskIs
  <2>6. Unserved
    BY <1>1, <2>2 DEF Unserved, browser, KeysStay, PageIs
  <2>7. Placing /\ Placing' /\ page'.attempt = page.attempt
    BY <1>1, <1>3, <2>1, <2>2 DEF Placing, PageIs, TaskIs
  <2>8. page'.phase.order = page.phase.order
    BY <1>3, <2>1, <2>2, PlacingFlow DEF PageIs
  <2>9. task'["flow"].at # "place"
    BY <2>2 DEF TaskIs
  <2> QED
    BY <2>3, <2>5, <2>6, <2>7, <2>8, <2>9, StillPlacing
<1>4. CASE t.at = "undo" /\ BackToIdle(NoPhase, page.intent, page.attempt)
  <2>1. /\ PageIs(page', page.on, "idle", page.order, page.resume, NoPhase, page.intent, page.attempt)
        /\ TaskIs(task'["flow"], "flow", "none", NoOrder, NoKey, NoKey, Unsaid)
        /\ OnlyTask("flow", task'["flow"])
    BY <1>4, BackToIdleIs, PhaseFields, TypesGive DEF LInv
  <2>2. page'.pay = page.pay
    BY <1>1, <1>4 DEF BackToIdle, PageRec
  <2>3. /\ task'["early"] = task["early"] /\ task'["code"] = task["code"]
        /\ task'["resume"] = task["resume"] /\ page'.phase.kind = "none"
    BY <2>1, JobsAre, PhaseFields DEF OnlyTask, PageIs
  <2>4. Quiet' /\ SameCart'
    BY <1>1, <2>1, <2>2, <2>3 DEF Single, Quiet, SameCart, browser, PageIs, TaskIs
  <2>5. Committed = {} /\ OfPhase'
    BY <1>1, <1>4, NothingCommitted, NoneIsOfPhase
  <2>6. ~Placing /\ page'.attempt = NoKey /\ Unserved
    BY <1>1, <1>4, <2>1 DEF Placing, Single, OfAttempt, PageIs, Unserved, browser, KeysStay
  <2>7. task'["code"].at # "confirm" /\ page'.own \notin {"code", "check"}
    BY <1>1, <2>1, <2>3 DEF PageIs
  <2> QED
    BY <2>3, <2>4, <2>5, <2>6, <2>7, AllRepeated, NotPlacing
<1> QED
  BY <1>2, <1>3, <1>4 DEF HearFailure

LEMMA HearChallengeSingle ==
  ASSUME LInv, LInv', KInv, Single, HearChallenge
  PROVE  Single'
<1> DEFINE t == task["flow"]
<1>1. /\ t \in TaskRec /\ t.order \in 0..MaxOrders /\ t.at = "place" /\ Ends("flow")
      /\ page' = [page EXCEPT !.own = "code", !.order = t.order, !.attempt = NoKey,
                              !.phase = Phase("ordered", t.order, NoCart)]
      /\ UNCHANGED <<server, cart, left, loose, history, plain, counts>>
      /\ page.on /\ page.own = "busy" /\ page.resume = "no" /\ page \in PageRec
      /\ task["code"].at = "none" /\ task["resume"].at = "none" /\ task["early"].at = "none"
      /\ page.phase.kind = "placing" /\ t.order = page.phase.order /\ Reply(t).is = "challenge"
  <2>1. t.at = "place"
    BY DEF HearChallenge
  <2> QED
    BY <2>1, FlowUnderWay, JobsAre, TaskFields, TypesGive, PlacingFlow DEF HearChallenge, LInv
<1>2. /\ page'.phase = Phase("ordered", t.order, NoCart) /\ page'.on = page.on /\ page'.own = "code"
      /\ page'.resume = page.resume /\ page'.pay = page.pay /\ page'.attempt = NoKey
      /\ page'.order = t.order
  BY <1>1 DEF PageRec
<1>3. page'.phase.kind = "ordered" /\ page'.phase.order = t.order
  BY <1>2, PhaseFields
<1>4. /\ OnlyTask("flow", Rest("flow"))
      /\ TaskIs(Rest("flow"), "flow", "none", NoOrder, NoKey, NoKey, Unsaid)
  BY <1>1, EndsIs, JobsAre DEF LInv
<1>5. /\ task'["early"] = task["early"] /\ task'["code"] = task["code"]
      /\ task'["resume"] = task["resume"] /\ task'["flow"].at = "none"
  BY <1>4, JobsAre DEF OnlyTask, TaskIs
<1>6. Quiet' /\ SameCart'
  BY <1>1, <1>2, <1>3, <1>5 DEF Single, Quiet, SameCart, server
<1>7. OfPhase'
  <2>1. Hears("challenge") /\ Placing
    BY <1>1, HearsIt DEF Hears
  <2>2. \A o \in Committed : status[o] = "awaiting" /\ page.phase.order = o
    BY <1>1, <2>1 DEF Single, ToldSo, OfPhase
  <2>3. Committed' = Committed /\ status' = status
    BY <1>1 DEF Committed, server
  <2> QED
    BY <1>1, <1>3, <1>5, <2>2, <2>3 DEF OfPhase
<1>8. Unserved
  BY <1>1, <1>2 DEF Unserved, server, KeysStay
<1>9. \A u \in loose : u.at = "place" => Repeated(u)
  BY <1>1, AllRepeated
<1> QED
  BY <1>1, <1>2, <1>3, <1>5, <1>6, <1>7, <1>8, <1>9, NotPlacing

LEMMA SubmitSingle ==
  ASSUME LInv, LInv', KInv, Single, Submit
  PROVE  Single'
<1> DEFINE t == Ask(task["code"], "confirm", page.order)
<1>1. /\ page.own = "code" /\ task["code"].at = "none" /\ Named
      /\ page' = [page EXCEPT !.own = "check"] /\ task' = [task EXCEPT !["code"] = t]
      /\ UNCHANGED <<server, browser, left, loose, history, plain, counts>>
      /\ page \in PageRec /\ page.on /\ page.phase.kind = "ordered" /\ page.order = page.phase.order
  BY ChallengeShown, TypesGive DEF Submit, LInv, Layout, Single, ToldSo
<1>2. /\ page'.phase = page.phase /\ page'.on = page.on /\ page'.own = "check"
      /\ page'.resume = page.resume /\ page'.pay = page.pay /\ page'.attempt = page.attempt
      /\ page'.order = page.order
  BY <1>1 DEF PageRec
<1>3. TaskIs(t, "code", "confirm", page.order, NoKey, NoKey, Unsaid)
  BY <1>1, AskIs, JobsAre, TypesGive DEF At, Named, LInv
<1>4. OnlyTask("code", t)
  BY <1>1, <1>3, OneTask, JobsAre DEF TaskIs, LInv
<1> HIDE DEF t
<1>5. /\ task'["flow"] = task["flow"] /\ task'["early"] = task["early"]
      /\ task'["resume"] = task["resume"]
      /\ task'["code"].at = "confirm" /\ task'["code"].order = page.order
      /\ task'["code"].answer.is = "none"
  BY <1>3, <1>4, JobsAre, SaidFields DEF OnlyTask, TaskIs
<1>6. Quiet' /\ SameCart'
  BY <1>1, <1>2, <1>5 DEF Single, Quiet, SameCart, browser, server
<1>7. Unserved
  BY <1>1, <1>2 DEF Unserved, browser, server, KeysStay
<1>8. ~Placing /\ page'.attempt = NoKey
  BY <1>1, <1>2 DEF Placing, Single, OfAttempt
<1>9. OfPhase'
  <2>1. Committed' = Committed /\ status' = status /\ charge' = charge
    BY <1>1 DEF Committed, server
  <2> QED
    BY <1>1, <1>2, <1>5, <2>1 DEF Single, OfPhase
<1> QED
  BY <1>1, <1>2, <1>5, <1>6, <1>7, <1>8, <1>9, AllRepeated, NotPlacing

(* The user is taken to the confirmation; nothing of the page is left.     *)
LEMMA FinishSingle ==
  ASSUME LInv, LInv', Single, NEW j \in {"flow", "code"}, Finish(j), task[j].at # "none",
         task["flow"].at # "take", \A t \in loose : t.at = "place" => Repeated(t)
  PROVE  Single'
<1> DEFINE tasks == [task EXCEPT ![j] = Rest(j)]
           over == ReleasableOnLeave(page.phase)
<1>1. /\ page' = Blank /\ task' = NoTasks /\ loose' = loose \cup {Drop(o) : o \in over}
      /\ left' = left \cup OrphansOf(tasks) /\ UNCHANGED server /\ cart' = NoCart
  <2> DEFINE running == {tasks[i] : i \in Job} \cup page.stale
  <2>1. {Orphan(t) : t \in {u \in running : u.at \notin {"none", "read"}}} = OrphansOf(tasks)
    BY OrphansAre DEF LInv
  <2> QED
    BY <2>1 DEF Finish, Unmount
<1>2. UnderWay(tasks) = {}
  <2> SUFFICES ASSUME NEW i \in Job, tasks[i].at \notin {"none", "read"}
               PROVE  FALSE
    BY DEF UnderWay
  <2>1. tasks[j] = Rest(j) /\ Rest(j).at = "none" /\ \A k \in Job : k # j => tasks[k] = task[k]
    BY JobsAre, BlankIs DEF LInv, Types, TaskIs
  <2>2. j = "flow" \/ (j = "code" /\ task["flow"].at = "none" /\ task["early"].at = "none")
    BY CodeUnderWay
  <2>3. task["resume"].at \in {"none", "read"}
    BY DEF LInv, Layout, ResumeInv
  <2> HIDE DEF tasks
  <2>4. i # j /\ task[i].at \notin {"none", "read"}
    BY <2>1
  <2> QED
    BY <2>2, <2>3, <2>4, OneRuns, JobsAre
<1> HIDE DEF tasks
<1>3. left' = {}
  BY <1>1, <1>2 DEF Single, Quiet, OrphansOf
<1>4. PageIs(page', FALSE, "idle", NoOrder, "no", NoPhase, NoKey, NoKey) /\ page'.phase.kind = "none"
  BY <1>1, BlankIs, PhaseFields DEF PageIs
<1>5. \A i \in Job : task'[i].at = "none"
  BY <1>1, BlankIs DEF TaskIs
<1>6. \A t \in loose' : t \in loose \/ t.at = "drop"
  <2>1. \A o \in over : o \in 0..MaxOrders
    BY TypesGive DEF ReleasableOnLeave, LInv
  <2> QED
    BY <1>1, <2>1, BlankIs DEF TaskIs
<1> HIDE DEF over
<1>7. Quiet'
  BY <1>1, <1>3, <1>4, <1>5, <1>6, JobsAre DEF Single, Quiet, PageIs, server
<1>8. SameCart' /\ OfPhase'
  BY <1>4 DEF SameCart, OfPhase, PageIs
<1>9. Alone' /\ OfCharge'
  BY <1>1 DEF Single, Alone, Committed, OfCharge, Running, Awaited, server
<1>10. ~Placing' /\ OfAttempt'
  BY <1>4 DEF Placing, OfAttempt, PageIs
<1>11. ToldSo'
  BY <1>4, <1>5, <1>10, JobsAre DEF ToldSo, Hears, PageIs
<1>12. OfLoose'
  <2>1. \A t \in loose : t.at = "reserve" => t.key # page'.attempt
    BY <1>4, LoosePlaces, Basics DEF PageIs
  <2> QED
    BY <1>1, <1>5, <1>6, <2>1, JobsAre DEF OfLoose, Repeated, server
<1> QED
  BY <1>7, <1>8, <1>9, <1>10, <1>11, <1>12 DEF Single

LEMMA HearPlacedSingle ==
  ASSUME LInv, LInv', KInv, Single, HearPlaced
  PROVE  Single'
<1>1. /\ task["flow"].at = "place" /\ Reply(task["flow"]).is \in {"paid", "review"} /\ Finish("flow")
  BY DEF HearPlaced
<1>2. \A t \in loose : t.at = "place" => Repeated(t)
  BY <1>1, AllRepeated
<1> QED
  BY <1>1, <1>2, FinishSingle

LEMMA HearCodeSingle ==
  ASSUME LInv, LInv', KInv, Single, HearCode
  PROVE  Single'
<1> DEFINE t == task["code"]
           what == Reply(t).is
<1>1. /\ t.at = "confirm" /\ t \in TaskRec /\ t.order \in 0..MaxOrders /\ Named
      /\ page.on /\ page.own = "check" /\ page.resume = "no" /\ page \in PageRec
      /\ task["flow"].at = "none" /\ task["resume"].at = "none" /\ task["early"].at = "none"
      /\ page.phase.kind = "ordered" /\ page.order = page.phase.order
      /\ ~Placing /\ page.attempt = NoKey
      /\ \A u \in loose : u.at = "place" => Repeated(u)
      /\ what = t.answer.is /\ what # "unknown"
  <2>1. t.at = "confirm"
    BY DEF HearCode
  <2>2. page.on /\ page.own = "check" /\ page.resume = "no" /\ page.phase.kind = "ordered"
    BY <2>1, CodeUnderWay, ChallengeShown DEF LInv, Layout, CodeInv
  <2>3. ~Placing /\ page.attempt = NoKey /\ page.order = page.phase.order
    BY <2>2 DEF Placing, Single, OfAttempt, ToldSo
  <2>4. what = t.answer.is /\ what # "unknown"
    BY <2>1, JobsAre, RepliesNeverWait DEF LInv, Talk, Single, Quiet
  <2> QED
    BY <2>1, <2>2, <2>3, <2>4, AllRepeated, JobsAre, TaskFields, CodeUnderWay, TypesGive
       DEF LInv, Layout
<1>2. CASE what = "paid" /\ Finish("code")
  BY <1>1, <1>2, FinishSingle
<1>3. CASE what = "error" /\ Abandon("code", t.order)
  <2>1. /\ PageIs(page', page.on, "busy", page.order, "no", page.phase, NoKey, page.attempt)
        /\ TaskIs(task'["code"], "code", "abandon", t.order, NoKey, NoKey, Unsaid)
        /\ OnlyTask("code", task'["code"])
        /\ UNCHANGED <<server, browser, left, loose>>
    BY <1>1, <1>3, AbandonIs, JobsAre DEF LInv, Abandon
  <2>2. page'.pay = page.pay
    BY <1>1, <1>3 DEF Abandon, PageRec
  <2>3. /\ task'["flow"] = task["flow"] /\ task'["early"] = task["early"]
        /\ task'["resume"] = task["resume"] /\ task'["code"].at = "abandon"
    BY <2>1, JobsAre DEF OnlyTask, TaskIs
  <2>4. Quiet' /\ SameCart'
    BY <1>1, <2>1, <2>2, <2>3 DEF Single, Quiet, SameCart, browser, server, PageIs
  <2>5. Committed = {} /\ OfPhase'
    <3>1. Committed = {}
      BY <1>1, <1>3 DEF Single, ToldSo
    <3> QED
      BY <2>1, <3>1, NoneIsOfPhase DEF server
  <2>6. Unserved
    BY <1>1, <2>1 DEF Unserved, browser, server, KeysStay, PageIs
  <2>7. page'.phase.kind = "ordered" /\ page'.attempt = NoKey /\ page'.own = "busy"
    BY <1>1, <2>1 DEF PageIs
  <2> QED
    BY <1>1, <2>3, <2>4, <2>5, <2>6, <2>7, NotPlacing
<1>4. CASE /\ what = "wrong" /\ Ends("code")
           /\ page' = [page EXCEPT !.own = IF @ = "check" THEN "code" ELSE @]
           /\ UNCHANGED <<server, browser, left, loose, history, plain, counts>>
  <2>1. /\ page'.phase = page.phase /\ page'.on = page.on /\ page'.own = "code"
        /\ page'.resume = page.resume /\ page'.pay = page.pay /\ page'.attempt = page.attempt
        /\ page'.order = page.order
    BY <1>1, <1>4 DEF PageRec
  <2>2. /\ OnlyTask("code", Rest("code"))
        /\ TaskIs(Rest("code"), "code", "none", NoOrder, NoKey, NoKey, Unsaid)
    BY <1>4, EndsIs, JobsAre DEF LInv
  <2>3. /\ task'["flow"] = task["flow"] /\ task'["early"] = task["early"]
        /\ task'["resume"] = task["resume"] /\ task'["code"].at = "none"
    BY <2>2, JobsAre DEF OnlyTask, TaskIs
  <2>4. Quiet' /\ SameCart'
    BY <1>1, <1>4, <2>1, <2>3 DEF Single, Quiet, SameCart, browser, server
  <2>5. OfPhase'
    <3>1. Committed' = Committed /\ status' = status /\ charge' = charge
      BY <1>4 DEF Committed, server
    <3> QED
      BY <1>1, <2>1, <2>3, <3>1 DEF Single, OfPhase
  <2>6. Unserved
    BY <1>1, <1>4, <2>1 DEF Unserved, browser, server, KeysStay
  <2> QED
    BY <1>1, <2>1, <2>3, <2>4, <2>5, <2>6, NotPlacing
<1> QED
  BY <1>1, <1>2, <1>3, <1>4 DEF HearCode

LEMMA HearAbandonSingle ==
  ASSUME LInv, LInv', KInv, Single, HearAbandon("code")
  PROVE  Single'
<1> DEFINE t == task["code"]
           what == Reply(t).is
<1>1. /\ t.at \in {"abandon", "look"} /\ t \in TaskRec /\ t.order \in 0..MaxOrders /\ Named
      /\ page.on /\ page.own = "busy" /\ page.resume = "no" /\ page \in PageRec
      /\ task["flow"].at = "none" /\ task["resume"].at = "none" /\ task["early"].at = "none"
      /\ page.phase.kind \in {"none", "ordered"}
      /\ ~Placing /\ page.attempt = NoKey /\ Committed = {}
      /\ \A u \in loose : u.at = "place" => Repeated(u)
  <2>1. t.at \in {"abandon", "look"}
    BY DEF HearAbandon
  <2>2. page.on /\ page.own = "busy" /\ page.resume = "no" /\ page.phase.kind \in {"none", "ordered"}
    BY <2>1, CodeUnderWay DEF LInv, Layout, CodeInv, PhaseInv, Abandoning
  <2>3. ~Placing /\ page.attempt = NoKey /\ Committed = {}
    BY <2>1, <2>2, NothingCommitted DEF Placing, Single, OfAttempt
  <2> QED
    BY <2>1, <2>2, <2>3, AllRepeated, JobsAre, TaskFields, CodeUnderWay, TypesGive DEF LInv, Layout
<1>2. CASE Finish("code")
  BY <1>1, <1>2, FinishSingle
<1>3. CASE /\ task' = [task EXCEPT !["code"] = Ask(t, "look", t.order)]
           /\ UNCHANGED <<server, browser, page, left, loose, history, plain, counts>>
  <2>1. TaskIs(Ask(t, "look", t.order), "code", "look", t.order, NoKey, NoKey, Unsaid)
    BY <1>1, AskIs DEF At, Named, Job
  <2>2. OnlyTask("code", Ask(t, "look", t.order))
    BY <1>1, <1>3, <2>1, OneTask, JobsAre DEF TaskIs, LInv
  <2>3. /\ task'["flow"] = task["flow"] /\ task'["early"] = task["early"]
        /\ task'["resume"] = task["resume"] /\ task'["code"].at = "look"
    BY <2>1, <2>2, JobsAre DEF OnlyTask, TaskIs
  <2>4. Quiet' /\ SameCart'
    BY <1>1, <1>3, <2>3 DEF Single, Quiet, SameCart, browser, server
  <2>5. OfPhase'
    BY <1>1, <1>3, NoneIsOfPhase DEF server
  <2>6. Unserved
    BY <1>1, <1>3 DEF Unserved, browser, server, KeysStay
  <2> QED
    BY <1>1, <1>3, <2>3, <2>4, <2>5, <2>6, NotPlacing
<1>4. CASE /\ Ends("code") /\ page' = [page EXCEPT !.own = "idle", !.phase = NoPhase]
           /\ UNCHANGED <<server, cart, left, loose, history, plain, counts>>
  <2>1. /\ page'.phase = NoPhase /\ page'.on = page.on /\ page'.own = "idle"
        /\ page'.resume = page.resume /\ page'.pay = page.pay /\ page'.attempt = page.attempt
        /\ page'.phase.kind = "none"
    BY <1>1, <1>4, PhaseFields DEF PageRec
  <2>2. /\ OnlyTask("code", Rest("code"))
        /\ TaskIs(Rest("code"), "code", "none", NoOrder, NoKey, NoKey, Unsaid)
    BY <1>4, EndsIs, JobsAre DEF LInv
  <2>3. /\ task'["flow"] = task["flow"] /\ task'["early"] = task["early"]
        /\ task'["resume"] = task["resume"] /\ task'["code"].at = "none"
    BY <2>2, JobsAre DEF OnlyTask, TaskIs
  <2>4. Quiet' /\ SameCart'
    BY <1>1, <1>4, <2>1, <2>3 DEF Single, Quiet, SameCart, server
  <2>5. OfPhase'
    BY <1>1, <1>4, NoneIsOfPhase DEF server
  <2>6. Unserved
    BY <1>1, <1>4, <2>1 DEF Unserved, server, KeysStay
  <2> QED
    BY <1>1, <2>1, <2>3, <2>4, <2>5, <2>6, NotPlacing
<1> QED
  BY <1>2, <1>3, <1>4 DEF HearAbandon

-----------------------------------------------------------------------------
(* So does what the servers do meanwhile.                                  *)

SameTask(t, u) == Same(t, u) /\ t.cart = u.cart /\ t.pay = u.pay /\ t.with = u.with
KeysUsed == \A k \in Key : record[k] # FreeKey => record'[k] # FreeKey

LEMMA ServerOnly ==
  ASSUME LInv, Single, UNCHANGED <<lapsed, cart, page, left>>, loose' \subseteq loose,
         \A j \in Job : SameTask(task'[j], task[j]),
         task'["code"].at = "confirm" => task'["code"].answer.is # "unknown",
         KeysUsed, Alone', OfPhase', OfAttempt', OfCharge', ToldSo',
         task["flow"].at = "place" =>
           \/ task'["flow"].answer = task["flow"].answer
           \/ record'[task["flow"].key] # FreeKey
  PROVE  Single'
<1>1. Quiet' /\ SameCart'
  BY JobsAre DEF Single, Quiet, SameCart, SameTask, Same
<1>2. OfLoose'
  <2>1. ASSUME NEW t \in loose', t.at = "place"
        PROVE  Repeated(t)' \/ (page'.on /\ Placing' /\ t.key = page'.attempt
                                 /\ t.order = page'.phase.order /\ t.pay = page'.pay)
    <3>1. t.key \in Key /\ t \in loose
      BY <2>1, LoosePlaces
    <3>2. Placing' <=> Placing
      BY JobsAre DEF Placing, SameTask, Same
    <3> QED
      BY <2>1, <3>1, <3>2 DEF Single, OfLoose, Repeated, KeysUsed
  <2>2. ASSUME \E t \in loose' : t.at = "place", task'["flow"].at = "place",
               task'["flow"].answer.is \notin {"none", "unknown"}
        PROVE  Repeated(task["flow"])'
    <3>1. task["flow"].at = "place" /\ task'["flow"].key = task["flow"].key
          /\ \E t \in loose : t.at = "place"
      BY <2>2, JobsAre DEF SameTask, Same
    <3>2. task["flow"].key \in Key
      BY <3>1, PlacersAre DEF Placers
    <3> QED
      BY <2>2, <3>1, <3>2 DEF Single, OfLoose, Repeated, KeysUsed
  <2>3. \A t \in loose' : t.at = "reserve" => t.key # page'.attempt
    BY DEF Single, OfLoose
  <2> QED
    BY <2>1, <2>2, <2>3 DEF OfLoose
<1> QED
  BY <1>1, <1>2 DEF Single

(* A request that places nothing commits nothing, ...                      *)
LEMMA OthersCommit ==
  ASSUME LInv, NEW t \in TaskRec, Answers(t, record), NEW ans \in AnswersTo(t), Handles(t, ans),
         t.at # "place"
  PROVE  /\ charge' = charge /\ lapsed' = lapsed /\ KeysUsed
         /\ \A k \in Key : \/ record'[k] = record[k]
                            \/ (t.at = "reserve" /\ k = t.key /\ record'[k].state = "done")
         /\ \A o \in Order : status[o] \in {"charging", "closed"} =>
              status'[o] \in {"charging", "closed"}
         /\ \A o \in Order : o \in Committed' =>
              /\ o \in Committed
              /\ status'[o] = status[o] \/ (t.at = "confirm" /\ status'[o] = "paid")
         /\ t.at = "confirm" =>
              /\ ans.is # "unknown"
              /\ ans.is = "error" => \A o \in Order : o = t.order => status'[o] \notin {"awaiting", "paid"}
<1>0. Types /\ status \in [Order -> Status]
  BY DEF LInv, Types
<1>1. CASE t.at = "reserve"
  <2>1. t.key \in Key /\ Reserves(t.key, t.cart, ans) /\ t.cart \in Content /\ ans \in Answer
    BY <1>1, Basics, TaskFields DEF Handles, Answers, Content, AnswersTo
  <2>2. CASE Repeats(t.key, Body(NoOrder, t.cart), ans)
    BY <1>1, <2>2 DEF Repeats, server, KeysUsed, Committed
  <2>3. CASE /\ record[t.key] = FreeKey /\ Stores(t.key, Body(NoOrder, t.cart), ans)
             /\ UNCHANGED <<lapsed, charge>> /\ (UNCHANGED status \/ \E o \in Order : Opened(o))
    <3>1. /\ \A i \in Key : i # t.key => record'[i] = record[i]
          /\ record'[t.key].state = "done"
      BY <1>0, <2>1, <2>3, StoresIs, Basics
    <3>2. KeysUsed
      BY <3>1, BodyFields DEF KeysUsed
    <3>3. \A o \in Order : o \in Committed' => o \in Committed /\ status'[o] = status[o]
      BY <1>0, <2>3 DEF Opened, Committed
    <3>4. \A o \in Order : status[o] \in {"charging", "closed"} =>
            status'[o] \in {"charging", "closed"}
      BY <1>0, <2>3 DEF Opened
    <3> QED
      BY <1>1, <2>3, <3>1, <3>2, <3>3, <3>4
  <2> QED
    BY <2>1, <2>2, <2>3 DEF Reserves
<1>2. CASE t.at = "confirm"
  <2>1. /\ Confirms(t.order, ans) /\ ans.is \in {"paid", "wrong", "error"} /\ record' = record
        /\ charge' = charge /\ lapsed' = lapsed
    BY <1>2, SaidFields DEF Handles, Confirms
  <2>2. \A o \in Order : o \in Committed' =>
          o \in Committed /\ (status'[o] = status[o] \/ status'[o] = "paid")
    BY <1>0, <2>1 DEF Confirms, Committed
  <2>4. \A o \in Order : status[o] \in {"charging", "closed"} =>
          status'[o] \in {"charging", "closed"}
    BY <1>0, <2>1 DEF Confirms
  <2>3. ans.is = "error" => \A o \in Order : o = t.order => status'[o] \notin {"awaiting", "paid"}
    BY <1>0, <2>1, SaidFields DEF Confirms
  <2> QED
    BY <1>2, <2>1, <2>2, <2>3, <2>4 DEF KeysUsed
<1>3. CASE t.at \in {"drop", "undo", "abandon"}
  <2>1. Releases(t.order, ans)
    BY <1>3 DEF Handles
  <2> QED
    BY <1>0, <1>3, <2>1 DEF Releases, Committed, KeysUsed
<1>4. CASE t.at \in {"look", "read"}
  <2>1. UNCHANGED server
    BY <1>4 DEF Handles, Shows
  <2> QED
    BY <1>4, <2>1 DEF server, Committed, KeysUsed
<1> QED
  BY <1>1, <1>2, <1>3, <1>4 DEF Handles

(* ... and its answer says so.                                             *)
LEMMA OthersSingle ==
  ASSUME LInv, LInv', KInv, Single, UNCHANGED <<cart, page, left>>, loose' \subseteq loose,
         NEW t \in TaskRec, Answers(t, record), NEW ans \in AnswersTo(t), Handles(t, ans),
         t.at # "place", t.at = "reserve" => t.key # page.attempt,
         \A j \in Job : SameTask(task'[j], task[j]),
         \A j \in Job : task'[j] = task[j] \/ (task'[j].answer = ans /\ t = task[j]),
         t.at = "confirm" => t = task["code"]
  PROVE  Single'
<1>1. /\ charge' = charge /\ lapsed' = lapsed /\ KeysUsed
      /\ \A k \in Key : \/ record'[k] = record[k]
                         \/ (t.at = "reserve" /\ k = t.key /\ record'[k].state = "done")
      /\ \A o \in Order : status[o] \in {"charging", "closed"} =>
           status'[o] \in {"charging", "closed"}
      /\ \A o \in Order : o \in Committed' =>
           /\ o \in Committed
           /\ status'[o] = status[o] \/ (t.at = "confirm" /\ status'[o] = "paid")
      /\ t.at = "confirm" =>
           /\ ans.is # "unknown"
           /\ ans.is = "error" => \A o \in Order : o = t.order => status'[o] \notin {"awaiting", "paid"}
  BY OthersCommit
<1>2. \A o \in Committed' : o \in Order
  BY DEF Committed
<1>3. t.at = "confirm" => page.phase.kind = "ordered"
  BY ChallengeShown DEF LInv, Layout, CodeInv
<1>4. Alone'
  BY <1>1, <1>2 DEF Single, Alone
<1>5. \A j \in Job : /\ task'[j].at = task[j].at /\ task'[j].order = task[j].order
                     /\ task'[j].at # t.at => task'[j] = task[j]
  BY DEF SameTask, Same
<1>6. OfPhase'
  BY <1>1, <1>2, <1>3, <1>5, JobsAre DEF Single, OfPhase
<1>7. Placing' <=> Placing
  BY <1>5, JobsAre DEF Placing
<1>8. Placing => record'[page.attempt] = record[page.attempt]
  <2>1. Placing => page.attempt \in Key
    BY TypesGive, Basics DEF Single, OfAttempt, LInv
  <2> QED
    BY <1>1, <2>1
<1>9. OfAttempt'
  <2>1. Placing => \A o \in Committed' : status'[o] = status[o] /\ o \in Committed
    BY <1>1, <1>2, <1>3 DEF Placing
  <2> QED
    BY <1>7, <1>8, <2>1 DEF Single, OfAttempt
<1>10. ToldSo'
  <2>1. task["flow"].at = "place" => task'["flow"] = task["flow"]
    BY <1>5, JobsAre
  <2>2. \A what : Hears(what)' => Hears(what)
    BY <1>5, <1>7, <1>8, <2>1, JobsAre DEF Hears
  <2>3. /\ Committed = {} => Committed' = {}
        /\ \A o \in Committed' : Placing => status'[o] = status[o]
    BY <1>1, <1>2, <1>3 DEF Placing
  <2>4. \A what : Hears(what) => Placing
    BY DEF Hears
  <2>5. /\ Hears("error")' \/ Hears("method")' => Committed' = {}
        /\ Hears("challenge")' \/ Hears("cardless")' => \A o \in Committed' : status'[o] = "awaiting"
        /\ Hears("cardless")' => page'.pay = "card"
    BY <1>1, <1>2, <2>2, <2>3, <2>4 DEF Single, ToldSo
  <2>6. ASSUME task'["code"].at = "confirm"
        PROVE  /\ task'["code"].order = page'.phase.order
               /\ task'["code"].answer.is = "error" => Committed' = {}
    <3>1. task["code"].at = "confirm" /\ task["code"].order = page.phase.order
          /\ task'["code"].order = page'.phase.order
      BY <1>5, <2>6, JobsAre DEF Single, ToldSo
    <3>2. CASE task'["code"] = task["code"]
      BY <2>3, <2>6, <3>2 DEF Single, ToldSo
    <3>3. CASE task'["code"].answer = ans /\ t = task["code"]
      <4>1. ASSUME ans.is = "error", NEW o \in Committed'
            PROVE  FALSE
        <5>1. page.on /\ page.phase.kind = "ordered"
          BY <3>1, CodeUnderWay, <1>3, <3>3
        <5>2. o \in Committed /\ page.phase.order = o /\ status[o] \in {"awaiting", "paid"}
          BY <1>1, <1>2, <4>1, <5>1 DEF Single, OfPhase
        <5>3. status'[o] \in {"awaiting", "paid"}
          BY <1>1, <1>2, <4>1, <5>2
        <5> QED
          BY <1>1, <1>2, <3>1, <3>3, <4>1, <5>2, <5>3
      <4> QED
        BY <3>1, <3>3, <4>1
    <3> QED
      BY <3>2, <3>3, JobsAre
  <2> QED
    BY <2>5, <2>6 DEF Single, ToldSo
<1>13. OfCharge'
  <2>1. \A o \in Order : (Running(o)' <=> Running(o)) /\ (Running(o) => charge[o].key \in Key)
    BY <1>1, Basics DEF Running, LInv, Types, ChargeRec
  <2> QED
    BY <1>1, <2>1 DEF Single, OfCharge, Awaited
<1>11. task'["code"].at = "confirm" => task'["code"].answer.is # "unknown"
  BY <1>1, <1>5, JobsAre DEF Single, Quiet
<1>12. task["flow"].at = "place" => task'["flow"].answer = task["flow"].answer
  BY <1>5, JobsAre
<1> QED
  BY <1>1, <1>4, <1>6, <1>9, <1>10, <1>11, <1>12, <1>13, ServerOnly

(* A placement goes on with the order of the phase, repeats, or is refused *)
(* because the order is closed.                                            *)
Heard == {"error", "method", "challenge", "cardless"}

LEMMA PlacementIs ==
  ASSUME LInv, Single, page.on, Placing, NEW ans, record[page.attempt] = FreeKey,
         Places(page.attempt, page.phase.order, page.pay, ans)
  PROVE  LET o == page.phase.order
         IN  /\ o \in Order /\ page.attempt \in Key /\ lapsed' = lapsed /\ KeysUsed
             /\ record'[page.attempt] # FreeKey
             /\ record'[page.attempt].body = Body(o, page.pay)
             /\ \/ /\ Committed' = {o} /\ charge'[o].payment = page.pay
                   /\ record'[page.attempt].answer.is = "none" /\ ans.is = "wait"
                \/ /\ Committed' = {} /\ ans.is \in {"error", "unknown"}
                   /\ record'[page.attempt].answer = ans
<1> DEFINE o == page.phase.order
           k == page.attempt
<1>1. /\ o \in Order /\ o \in 0..MaxOrders /\ k \in Key /\ page.pay \in Content /\ Types
      /\ page.pay \in Payment /\ o \notin {NoOrder}
  BY TypesGive, Basics DEF LInv, Layout, PhaseInv, Placing, Single, OfAttempt, Content
<1>2. \A p \in Committed : p = o /\ charge[p].payment = page.pay /\ status[p] \in {"awaiting", "unsure"}
  BY DEF Single, OfPhase, OfAttempt, Placing
<1>3. CASE Begins(k, o, page.pay) /\ ans = Said("wait", o) /\ lapsed' = lapsed
  <2>1. status' = [status EXCEPT ![o] = "charging"]
    BY <1>3 DEF Begins
  <2>2. charge' = [charge EXCEPT ![o] = [key |-> k, payment |-> page.pay, first |-> status[o] = "draft"]]
    BY <1>3 DEF Begins
  <2>3. Committed' = {o}
    BY <1>1, <1>2, <2>1 DEF Committed, Types
  <2>4. charge'[o].payment = page.pay
    BY <1>1, <2>2 DEF Types
  <2> DEFINE r == [FreeKey EXCEPT !.state = "busy", !.body = Body(o, page.pay)]
  <2>5. r.state = "busy" /\ r.body = Body(o, page.pay) /\ r.answer.is = "none"
    BY BodyFields DEF RecordRec
  <2>6. record' = [record EXCEPT ![k] = r]
    BY <1>3 DEF Begins
  <2> HIDE DEF r
  <2>7. record'[k] = r /\ \A i \in Key : i # k => record'[i] = record[i]
    BY <1>1, <2>6 DEF Types
  <2>8. r # FreeKey
    BY <2>5, BodyFields
  <2> QED
    BY <1>1, <1>3, <2>3, <2>4, <2>5, <2>7, <2>8, SaidFields DEF KeysUsed
<1>4. CASE /\ UNCHANGED <<status, lapsed, charge>>
           /\ ans.is \in Refusals(o, page.pay) /\ Stores(k, Body(o, page.pay), ans)
  <2>1. o \notin Committed
    <3>1. ASSUME o \in Committed
          PROVE  FALSE
      <4>1. Accepts(o, page.pay) /\ status[o] # "charging"
        BY <1>2, <3>1 DEF Accepts
      <4> QED
        BY <1>4, <4>1 DEF Refusals
    <3> QED
      BY <3>1
  <2>2. Committed' = {}
    BY <1>2, <1>4, <2>1 DEF Committed
  <2>3. ans.is \in {"error", "unknown"}
    BY <1>4 DEF Refusals
  <2> DEFINE r == [state |-> "done", body |-> Body(o, page.pay), answer |-> ans]
  <2>4. record' = [record EXCEPT ![k] = r]
    BY <1>4 DEF Stores
  <2>5. r.state = "done" /\ r.body = Body(o, page.pay) /\ r.answer = ans
    OBVIOUS
  <2> HIDE DEF r
  <2>6. record'[k] = r /\ \A i \in Key : i # k => record'[i] = record[i]
    BY <1>1, <2>4 DEF Types
  <2>7. r # FreeKey
    BY <2>5, BodyFields
  <2> QED
    BY <1>1, <1>4, <2>2, <2>3, <2>5, <2>6, <2>7 DEF KeysUsed
<1>5. ~Repeats(k, Body(o, page.pay), ans)
  BY DEF Repeats
<1> QED
  BY <1>3, <1>4, <1>5 DEF Places

LEMMA PlacementKeepsCharges ==
  ASSUME Types, OfCharge, NEW k \in Key, NEW o \in Order, NEW payment \in Payment, NEW ans,
         record[k] = FreeKey, Places(k, o, payment, ans)
  PROVE  OfCharge'
<1> DEFINE b == [FreeKey EXCEPT !.state = "busy", !.body = Body(o, payment)]
           d == [state |-> "done", body |-> Body(o, payment), answer |-> ans]
<1>1. b.state = "busy" /\ b.body = Body(o, payment) /\ d.state = "done" /\ d.body = Body(o, payment)
  BY BodyFields DEF RecordRec
<1>2. \A p \in Order : charge[p].key = k => ~Awaited(p)
  BY BodyFields DEF Awaited
<1>3. CASE Begins(k, o, payment)
  <2>1. record' = [record EXCEPT ![k] = b] /\ status' = [status EXCEPT ![o] = "charging"]
    BY <1>3 DEF Begins
  <2> HIDE DEF b
  <2>2. /\ record'[k] = b /\ \A i \in Key : i # k => record'[i] = record[i]
        /\ status'[o] = "charging" /\ \A p \in Order : p # o => status'[p] = status[p]
    BY <2>1 DEF Types
  <2>3. /\ charge'[o].key = k /\ charge'[o].payment = payment
        /\ \A p \in Order : p # o => charge'[p] = charge[p]
    BY <1>3 DEF Begins, Types
  <2>4. \A p \in Order : Running(p) => charge[p].key \in Key
    BY Basics DEF Running, Types, ChargeRec
  <2>5. Body(o, payment).order = o
    BY DEF Body
  <2> SUFFICES ASSUME NEW p \in Order
               PROVE  /\ Running(p)' => status'[p] \in {"charging", "closed"}
                      /\ Awaited(p)' => record'[charge'[p].key].body = Body(p, charge'[p].payment)
    BY DEF OfCharge
  <2>6. CASE p = o
    BY <1>1, <2>2, <2>3, <2>6
  <2>7. CASE p # o
    <3>1. Running(p)' <=> Running(p)
      BY <2>3, <2>7 DEF Running
    <3>2. CASE charge[p].key = k
      BY <1>1, <2>2, <2>3, <2>5, <2>7, <3>1, <3>2 DEF OfCharge, Awaited
    <3>3. CASE charge[p].key # k
      BY <2>2, <2>3, <2>4, <2>7, <3>1, <3>3 DEF OfCharge, Awaited
    <3> QED
      BY <3>2, <3>3
  <2> QED
    BY <2>6, <2>7
<1>4. CASE UNCHANGED <<status, charge>> /\ Stores(k, Body(o, payment), ans)
  <2>1. record' = [record EXCEPT ![k] = d]
    BY <1>4 DEF Stores
  <2> HIDE DEF d
  <2>2. record'[k] = d /\ \A i \in Key : i # k => record'[i] = record[i]
    BY <2>1 DEF Types
  <2>3. \A p \in Order : /\ (Running(p)' <=> Running(p)) /\ (Running(p) => charge[p].key \in Key)
    BY <1>4, Basics DEF Running, Types, ChargeRec
  <2>4. d.state # "busy"
    BY <1>1
  <2> SUFFICES ASSUME NEW p \in Order
               PROVE  /\ Running(p)' => status'[p] \in {"charging", "closed"}
                      /\ Awaited(p)' => record'[charge'[p].key].body = Body(p, charge'[p].payment)
    BY DEF OfCharge
  <2> QED
    BY <1>4, <2>2, <2>3, <2>4 DEF OfCharge, Awaited
<1> QED
  BY <1>3, <1>4 DEF Places, Repeats

LEMMA PlaceSingle ==
  ASSUME LInv, LInv', KInv, Single, UNCHANGED <<cart, page, left>>, loose' \subseteq loose,
         NEW t \in TaskRec, t.at = "place", t.key \in Key,
         NEW ans, Places(t.key, t.order, t.pay, ans),
         \A j \in Job : SameTask(task'[j], task[j]),
         \A j \in Job \ {"flow"} : task'[j] = task[j],
         \/ t \in loose /\ task'["flow"] = task["flow"]
         \/ t = task["flow"] /\ t.answer = Unsaid /\ task'["flow"].answer = ans
  PROVE  Single'
<1>1. /\ task'["flow"].at = task["flow"].at /\ task'["code"] = task["code"]
      /\ Placing' <=> Placing
  BY JobsAre DEF SameTask, Same, Placing
<1>2. task["code"].at = "confirm" => task["code"].answer.is # "unknown"
  BY DEF Single, Quiet
<1>3. t = task["flow"] => /\ page.on /\ Placing /\ t.key = page.attempt
                          /\ t.order = page.phase.order /\ t.pay = page.pay
  BY FlowUnderWay DEF LInv, Layout, FlowInv, Placing, KInv, KeysApart, Single, SameCart
<1>4. Placing => /\ task["code"].at \notin {"confirm", "abandon", "look"}
                 /\ page.own \notin {"code", "check"} /\ page.phase.kind = "placing"
  BY DEF LInv, Layout, CodeInv, PhaseInv, Abandoning, Placing
<1>5. CASE Repeats(t.key, Body(t.order, t.pay), ans)
  <2>1. UNCHANGED server /\ record[t.key] # FreeKey /\ KeysUsed
    BY <1>5 DEF Repeats, server, KeysUsed
  <2>2. Committed' = Committed /\ status' = status /\ charge' = charge /\ record' = record
        /\ lapsed' = lapsed
    BY <2>1 DEF Committed, server
  <2>3. Alone' /\ OfPhase' /\ OfAttempt' /\ OfCharge'
    BY <1>1, <2>2 DEF Single, Alone, OfPhase, OfAttempt, OfCharge, Running, Awaited
  <2>4. \A what \in Heard : Hears(what)' => Hears(what)
    <3>1. CASE task'["flow"] = task["flow"]
      BY <1>1, <2>2, <3>1 DEF Hears
    <3>2. CASE t = task["flow"] /\ t.answer = Unsaid /\ task'["flow"].answer = ans
      <4>1. record[t.key].body = Body(t.order, t.pay)
        BY <1>3, <2>1, <3>2 DEF Single, OfAttempt
      <4>2. ans.is = "unknown" \/ ans = record[t.key].answer
        BY <1>5, <4>1, SaidFields DEF Repeats
      <4> QED
        BY <1>1, <1>3, <2>2, <3>2, <4>2 DEF Hears, Heard
    <3> QED
      BY <3>1, <3>2
  <2>5. ToldSo'
    BY <1>1, <2>2, <2>4 DEF Single, ToldSo, Heard
  <2>6. task["flow"].at = "place" =>
          task'["flow"].answer = task["flow"].answer \/ record'[task["flow"].key] # FreeKey
    BY <2>1, <2>2
  <2> QED
    BY <1>1, <1>2, <2>1, <2>2, <2>3, <2>5, <2>6, ServerOnly
<1>6. CASE record[t.key] = FreeKey
  <2> DEFINE o == page.phase.order
  <2>1. /\ page.on /\ Placing /\ t.key = page.attempt
        /\ t.order = o /\ t.pay = page.pay
    BY <1>3, <1>6 DEF Single, OfLoose, Repeated
  <2>2. /\ o \in Order /\ lapsed' = lapsed /\ KeysUsed
        /\ record'[page.attempt] # FreeKey
        /\ record'[page.attempt].body = Body(o, page.pay)
        /\ \/ /\ Committed' = {o} /\ charge'[o].payment = page.pay
              /\ record'[page.attempt].answer.is = "none" /\ ans.is = "wait"
           \/ /\ Committed' = {} /\ ans.is \in {"error", "unknown"}
              /\ record'[page.attempt].answer = ans
    BY <1>6, <2>1, PlacementIs
  <2>3. Alone' /\ OfPhase'
    BY <1>1, <1>4, <2>1, <2>2 DEF Alone, OfPhase, Placing
  <2>4. OfAttempt'
    BY <1>1, <2>1, <2>2 DEF Single, OfAttempt
  <2>5. task["flow"].at = "place" /\ task'["flow"] = task["flow"] =>
          task["flow"].answer.is \in {"none", "unknown"}
    <3>1. ASSUME task["flow"].at = "place", task'["flow"] = task["flow"]
          PROVE  task["flow"].answer.is \in {"none", "unknown"}
      <4>1. task["flow"].key = page.attempt
        BY <3>1 DEF KInv, KeysApart
      <4>2. CASE t \in loose
        BY <1>6, <2>1, <3>1, <4>1, <4>2 DEF Single, OfLoose, Repeated
      <4>3. CASE t = task["flow"] /\ t.answer = Unsaid /\ task'["flow"].answer = ans
        BY <4>3, SaidFields
      <4> QED
        BY <4>2, <4>3
    <3> QED
      BY <3>1
  <2>6. \A what \in Heard : Hears(what)' => what = "error" /\ Committed' = {}
    BY <1>1, <2>1, <2>2, <2>5 DEF Hears, Heard
  <2>7. ToldSo'
    BY <1>1, <1>4, <2>1, <2>6 DEF ToldSo, Heard
  <2>8. task["flow"].at = "place" =>
          task'["flow"].answer = task["flow"].answer \/ record'[task["flow"].key] # FreeKey
    BY <2>2 DEF KInv, KeysApart
  <2>9. OfCharge'
    <3>1. Types /\ OfCharge /\ t.order \in Order /\ t.pay \in Payment
      BY <2>1, <2>2, TypesGive DEF LInv, Single
    <3> QED
      BY <1>6, <3>1, PlacementKeepsCharges
  <2> QED
    BY <1>1, <1>2, <2>2, <2>3, <2>4, <2>7, <2>8, <2>9, ServerOnly
<1> QED
  BY <1>5, <1>6 DEF Places, Repeats

LEMMA ServeSingle ==
  ASSUME LInv, LInv', KInv, Single, Serve
  PROVE  Single'
<1>1. UNCHANGED <<cart, page>> /\ page.stale = {}
  BY ServeLeavesPage, NoStale DEF Serve, browser, LInv, Types
<1>2. ASSUME NEW j \in Job, task[j].at # "none", task[j].answer = Unsaid,
             NEW ans \in AnswersTo(task[j]), Handles(task[j], ans),
             task' = [task EXCEPT ![j].answer = ans], UNCHANGED <<left, loose>>
      PROVE  Single'
  <2> DEFINE t == task[j]
             u == [t EXCEPT !.answer = ans]
  <2>1. /\ t \in TaskRec /\ Answers(t, record)
        /\ TaskIs(u, t.job, t.at, t.order, t.key, t.attempt, ans)
    <3>1. t \in TaskRec /\ Answers(t, record) /\ Types /\ Talk
      BY JobsAre DEF LInv, Talk
    <3>2. Fits(t, ans)
      BY <1>2, <3>1, HandlesIs
    <3> QED
      BY <3>1, <3>2, AnswerIsHeard
  <2>2. u.cart = t.cart /\ u.pay = t.pay /\ u.with = t.with
    BY <2>1 DEF TaskRec
  <2>3. task' = [task EXCEPT ![j] = u] /\ t.answer = Unsaid
    BY <1>2
  <2> HIDE DEF u
  <2>4. OnlyTask(j, u)
    BY <2>1, <2>3, OneTask DEF TaskIs, LInv
  <2>5. \A i \in Job : SameTask(task'[i], task[i])
    BY <2>1, <2>2, <2>4 DEF OnlyTask, TaskIs, SameTask, Same
  <2>6. CASE t.at = "place"
    <3>1. j = "flow"
      BY <2>6, JobsAre DEF LInv, Layout, EarlyInv, CodeInv, ResumeInv
    <3>2. t.key \in Key
      BY <2>6, <3>1, PlacersAre DEF Placers
    <3>3. Places(t.key, t.order, t.pay, ans)
      BY <1>2, <2>6 DEF Handles
    <3>4. task'["flow"].answer = ans /\ \A i \in Job \ {"flow"} : task'[i] = task[i]
      BY <2>1, <2>4, <3>1 DEF OnlyTask, TaskIs
    <3> QED
      BY <1>1, <1>2, <2>1, <2>3, <2>5, <2>6, <3>1, <3>2, <3>3, <3>4, PlaceSingle
  <2>7. CASE t.at # "place"
    <3>1. t.at = "reserve" => t.key # page.attempt
      <4>1. t.at = "reserve" => j \in {"early", "flow"} /\ t.key # NoKey
        BY <2>1, JobsAre DEF LInv, Layout, CodeInv, ResumeInv, Answers
      <4> QED
        BY <4>1 DEF KInv, KeysApart
    <3>2. t.at = "confirm" => t = task["code"]
      BY JobsAre DEF LInv, Layout, EarlyInv, FlowInv, ResumeInv
    <3>3. \A i \in Job : task'[i] = task[i] \/ (task'[i].answer = ans /\ t = task[i])
      BY <2>1, <2>4 DEF OnlyTask, TaskIs
    <3> HIDE DEF t
    <3>4. ans \in AnswersTo(t) /\ Handles(t, ans)
      BY <1>2 DEF t
    <3> QED
      BY <1>1, <1>2, <2>1, <2>5, <2>7, <3>1, <3>2, <3>3, <3>4, OthersSingle
  <2> QED
    BY <2>6, <2>7
<1>3. ASSUME NEW t \in loose, NEW ans \in AnswersTo(t), Handles(t, ans), loose' = loose \ {t},
             UNCHANGED <<task, left>>
      PROVE  Single'
  <2>1. t \in TaskRec /\ Answers(t, record)
    BY DEF LInv, Talk, Types
  <2>2. \A i \in Job : SameTask(task'[i], task[i]) /\ task'[i] = task[i]
    BY <1>3 DEF SameTask, Same
  <2>3. CASE t.at = "place"
    <3>1. t.key \in Key /\ Places(t.key, t.order, t.pay, ans)
      BY <1>3, <2>3, LoosePlaces DEF Handles
    <3> QED
      BY <1>1, <1>3, <2>1, <2>2, <2>3, <3>1, JobsAre, PlaceSingle
  <2>4. CASE t.at # "place"
    BY <1>1, <1>3, <2>1, <2>2, <2>4, OthersSingle DEF Single, OfLoose, Quiet
  <2> QED
    BY <2>3, <2>4
<1>4. left = {}
  BY DEF Single, Quiet
<1> QED
  BY <1>1, <1>2, <1>3, <1>4 DEF Serve

(* While a placement is worked on the page is not told of it.              *)
LEMMA NotTold ==
  ASSUME Single, page.on, NEW o \in Order, status[o] = "charging"
  PROVE  /\ Placing /\ page.phase.order = o /\ o \in Committed /\ Committed = {o}
         /\ charge[o].payment = page.pay
         /\ record[page.attempt] # FreeKey /\ record[page.attempt].body = Body(o, page.pay)
         /\ \A what \in Heard : ~Hears(what)
<1>1. o \in Committed
  BY DEF Committed
<1>2. page.phase.order = o /\ Placing /\ charge[o].payment = page.pay
  BY <1>1 DEF Single, OfPhase, Placing
<1>3. Committed = {o}
  BY <1>1 DEF Single, Alone
<1>4. record[page.attempt] # FreeKey /\ record[page.attempt].body = Body(o, page.pay)
  BY <1>1, <1>2 DEF Single, OfAttempt
<1>5. \A what \in Heard : ~Hears(what)
  BY <1>1 DEF Single, ToldSo, Heard
<1> QED
  BY <1>1, <1>2, <1>3, <1>4, <1>5

LEMMA ServerDecidesSingle ==
  ASSUME LInv, LInv', KInv, Single, ServerDecides
  PROVE  Single'
<1>0. UNCHANGED <<page, cart, task, left, loose>> /\ Types /\ Talk
  BY DEF ServerDecides, browser, LInv
<1>1. PICK o \in Order : Decides(o)
  BY DEF ServerDecides
<1>2. PICK what \in Outcomes(o) :
        /\ Running(o) /\ lapsed' = lapsed
        /\ status' = [status EXCEPT ![o] = IF @ = "closed" THEN @ ELSE After(what)]
        /\ charge' = [charge EXCEPT ![o].key = NoKey]
        /\ IF Awaited(o) THEN Stores(charge[o].key, Body(o, charge[o].payment), Said(what, o))
                         ELSE UNCHANGED record
  BY <1>1 DEF Decides
<1>3. /\ what \in {"paid", "review", "error", "challenge", "cardless", "method"}
      /\ After(what) = IF what \in {"paid", "review"} THEN what ELSE IF what = "method" THEN "draft"
                       ELSE IF what = "error" THEN "closed" ELSE "awaiting"
  <2>1. what \in {"paid", "review", "error", "challenge", "cardless", "method"}
    BY DEF Outcomes
  <2> QED
    BY <2>1 DEF After
<1>4. /\ \A p \in Order : p # o => status'[p] = status[p]
      /\ status'[o] = IF status[o] = "closed" THEN "closed" ELSE After(what)
      /\ \A p \in Order : /\ charge'[p].payment = charge[p].payment
                          /\ p # o => charge'[p] = charge[p]
      /\ charge'[o].key = NoKey /\ status[o] \in {"charging", "closed"} /\ charge[o].key \in Key
  BY <1>0, <1>2, Basics DEF Types, ChargeRec, Running, Single, OfCharge
<1>5. \A p \in Committed' : p \in Committed /\ p \in Order
  BY <1>2, <1>4 DEF Committed
<1>6. \A k \in Key : \/ record'[k] = record[k]
                     \/ /\ record'[k] # FreeKey /\ record[k] # FreeKey /\ record'[k].state = "done"
                        /\ record[k].body = Body(o, charge[o].payment)
                        /\ record'[k].body = Body(o, charge[o].payment)
                        /\ record'[k].answer = Said(what, o)
  <2>1. CASE Awaited(o)
    <3> DEFINE r == [state |-> "done", body |-> Body(o, charge[o].payment), answer |-> Said(what, o)]
    <3>1. record' = [record EXCEPT ![charge[o].key] = r]
      BY <1>2, <2>1 DEF Stores
    <3>2. r.state = "done" /\ r.body = Body(o, charge[o].payment) /\ r.answer = Said(what, o)
      OBVIOUS
    <3> HIDE DEF r
    <3>3. /\ r # FreeKey /\ record[charge[o].key] # FreeKey
          /\ record[charge[o].key].body = Body(o, charge[o].payment)
      BY <2>1, <3>2, BodyFields DEF Awaited, Single, OfCharge
    <3> QED
      BY <1>0, <3>1, <3>2, <3>3 DEF Types
  <2> QED
    BY <1>2, <2>1
<1>7. \A j \in Job : SameTask(task'[j], task[j])
  BY <1>0 DEF SameTask, Same
<1>8. KeysUsed /\ Alone'
  BY <1>5, <1>6 DEF KeysUsed, Single, Alone
<1>12. OfCharge'
  <2> SUFFICES ASSUME NEW p \in Order
               PROVE  /\ Running(p)' => status'[p] \in {"charging", "closed"}
                      /\ Awaited(p)' => record'[charge'[p].key].body = Body(p, charge'[p].payment)
    BY DEF OfCharge
  <2>1. CASE p = o
    BY <1>4, <2>1 DEF Running, Awaited
  <2>2. CASE p # o
    <3>1. (Running(p)' <=> Running(p)) /\ (Running(p) => charge[p].key \in Key)
      BY <1>0, <1>4, <2>2, Basics DEF Running, Types, ChargeRec
    <3> QED
      BY <1>4, <1>6, <2>2, <3>1 DEF Single, OfCharge, Awaited
  <2> QED
    BY <2>1, <2>2
<1>9. (Placing' <=> Placing) /\ page' = page
  BY <1>0 DEF Placing
<1>13. what = "cardless" => charge[o].payment = "card"
  BY DEF Outcomes
<1>10. OfPhase' /\ OfAttempt' /\ ToldSo'
  <2>1. CASE page.on /\ status[o] = "charging"
    <3>1. /\ Placing /\ page.phase.order = o /\ Committed = {o}
          /\ charge[o].payment = page.pay /\ page.attempt \in Key
          /\ record[page.attempt] # FreeKey /\ record[page.attempt].body = Body(o, page.pay)
          /\ \A w \in Heard : ~Hears(w)
      BY <1>0, <1>2, <2>1, NotTold, TypesGive, Basics DEF Single, OfAttempt
    <3>2. OfPhase'
      BY <1>0, <1>4, <1>5, <3>1 DEF Single, OfPhase, Placing
    <3>3. OfAttempt'
      BY <1>6, <1>9, <3>1 DEF Single, OfAttempt
    <3>4. \A w \in Heard : Hears(w)' => w = what
      BY <1>0, <1>6, <1>9, <3>1, SaidFields DEF Hears
    <3>5. /\ what \in {"error", "method"} => Committed' = {}
          /\ what \in {"challenge", "cardless"} => \A p \in Committed' : status'[p] = "awaiting"
          /\ what = "cardless" => page'.pay = "card"
      BY <1>3, <1>4, <1>5, <1>9, <1>13, <2>1, <3>1 DEF Committed
    <3>6. task'["code"].at # "confirm" /\ page'.own \notin {"code", "check"}
      BY <1>0, <3>1 DEF LInv, Layout, CodeInv, PhaseInv, Abandoning, Placing
    <3> QED
      BY <3>2, <3>3, <3>4, <3>5, <3>6 DEF ToldSo, Heard
  <2>3. CASE page.on /\ status[o] = "closed"
    <3>1. status' = status /\ Committed' = Committed
      BY <1>0, <1>2, <1>4, <2>3 DEF Committed, Types
    <3>2. OfPhase'
      BY <1>0, <1>4, <3>1 DEF Single, OfPhase, Committed
    <3>3. Placing => page.attempt \in Key
      BY TypesGive, Basics DEF Single, OfAttempt, LInv
    <3>4. OfAttempt'
      BY <1>6, <1>9, <3>1, <3>3 DEF Single, OfAttempt
    <3>5. ToldSo'
      <4>1. CASE Placing /\ record'[page.attempt] # record[page.attempt]
        <5>1. /\ record'[page.attempt].answer = Said(what, o)
              /\ Body(o, charge[o].payment) = Body(page.phase.order, page.pay)
          BY <1>6, <3>3, <4>1 DEF Single, OfAttempt
        <5>2. o = page.phase.order /\ charge[o].payment = page.pay
          BY <5>1, BodyFields
        <5>3. Committed = {}
          BY <2>3, <5>2 DEF Single, OfPhase, Committed
        <5>4. \A w \in Heard : Hears(w)' => Hears(w) \/ w = what
          BY <1>0, <1>9, <5>1, SaidFields DEF Hears, Heard
        <5>5. Hears("cardless")' => page.pay = "card"
          BY <1>13, <5>2, <5>4 DEF Single, ToldSo, Heard
        <5>6. /\ task["code"].at = "confirm" => task["code"].order = page.phase.order
              /\ page.own \in {"code", "check"} => page.order = page.phase.order
          BY DEF Single, ToldSo
        <5> QED
          BY <1>0, <3>1, <5>3, <5>5, <5>6 DEF ToldSo
      <4>2. CASE ~Placing \/ record'[page.attempt] = record[page.attempt]
        <5>1. \A w : Hears(w)' => Hears(w)
          BY <1>0, <1>9, <4>2 DEF Hears
        <5>2. \A w \in Heard : Hears(w)' => Hears(w)
          BY <5>1
        <5> QED
          BY <1>0, <3>1, <5>2 DEF Single, ToldSo, Heard
      <4> QED
        BY <4>1, <4>2
    <3> QED
      BY <3>2, <3>4, <3>5
  <2>2. CASE ~page.on
    <3>1. PageIs(page', FALSE, "idle", NoOrder, "no", NoPhase, NoKey, NoKey) /\ page'.phase.kind = "none"
      BY <1>0, <2>2, BlankIs, PhaseFields DEF LInv, Layout, Off, PageIs
    <3>2. \A j \in Job : task'[j].at = "none"
      BY <1>0, <2>2, BlankIs DEF LInv, Layout, Off, TaskIs
    <3> QED
      BY <3>1, <3>2, JobsAre DEF PageIs, OfPhase, OfAttempt, ToldSo, Hears, Placing
  <2> QED
    BY <1>4, <2>1, <2>2, <2>3
<1>11. task'["code"].at = "confirm" => task'["code"].answer.is # "unknown"
  BY <1>0 DEF Single, Quiet
<1> QED
  BY <1>0, <1>2, <1>7, <1>8, <1>10, <1>11, <1>12, ServerOnly

LEMMA LoseSingle ==
  ASSUME LInv, LInv', KInv, Single, Lose, plain'
  PROVE  Single'
<1>1. PICK j \in Job :
        /\ task[j].at \notin {"none", "take", "confirm"} /\ page' = page
        /\ task' = [task EXCEPT ![j].answer = Said("unknown", task[j].order)]
        /\ loose' \in IF task[j].answer = Unsaid
                      THEN {loose, loose \cup {[task[j] EXCEPT !.job = "loose"]}} ELSE {loose}
  BY LoseIs DEF LostTask, LInv, Layout
<1>0. UNCHANGED <<server, cart, page, left>> /\ Types
  BY <1>1 DEF Lose, browser, LInv
<1> DEFINE t == task[j]
           u == [t EXCEPT !.answer = Said("unknown", t.order)]
           c == [t EXCEPT !.job = "loose"]
<1>2. t \in TaskRec /\ Answers(t, record) /\ t.pay \in Payment
  BY JobsAre, TaskFields DEF LInv, Talk
<1>3. Said("unknown", t.order) \in Answer
  BY <1>2, Basics, TaskFields DEF Kind
<1>4. /\ TaskIs(u, t.job, t.at, t.order, t.key, t.attempt, Said("unknown", t.order))
      /\ TaskIs(c, "loose", t.at, t.order, t.key, t.attempt, t.answer)
      /\ u.cart = t.cart /\ u.pay = t.pay /\ u.with = t.with /\ c.pay = t.pay
  BY <1>2, <1>3, TaskUpdates DEF TaskRec
<1>5. task' = [task EXCEPT ![j] = u] /\ \A v \in loose' : v \in loose \/ v = c
  BY <1>1
<1> HIDE DEF u, c
<1>6. OnlyTask(j, u)
  BY <1>0, <1>4, <1>5, OneTask DEF TaskIs
<1>7. \A i \in Job : SameTask(task'[i], task[i])
  BY <1>4, <1>6 DEF OnlyTask, TaskIs, SameTask, Same
<1>8. \A i \in Job : task'[i] = task[i] \/ (i = j /\ task'[i].answer.is = "unknown")
  BY <1>4, <1>6, SaidFields DEF OnlyTask, TaskIs
<1>9. /\ Committed' = Committed /\ (Placing' <=> Placing)
      /\ status' = status /\ charge' = charge /\ record' = record /\ lapsed' = lapsed
  BY <1>0, <1>7, JobsAre DEF Committed, Placing, SameTask, Same, server
<1>10. \A i \in Job : /\ task'[i].at = task[i].at /\ task'[i].order = task[i].order
                      /\ task'[i].cart = task[i].cart /\ task'[i].pay = task[i].pay
                      /\ task'[i].key = task[i].key /\ task'[i].with = task[i].with
  BY <1>7 DEF SameTask, Same
<1>11. task["code"].at = "confirm" => task'["code"] = task["code"]
  BY <1>1, <1>8, JobsAre
<1>12. Quiet' /\ SameCart'
  BY <1>0, <1>1, <1>4, <1>5, <1>9, <1>10, <1>11, JobsAre DEF Single, Quiet, SameCart, TaskIs
<1>13. Alone' /\ OfPhase' /\ OfAttempt' /\ OfCharge'
  BY <1>0, <1>9, <1>10, JobsAre
     DEF Single, Alone, OfPhase, OfAttempt, OfCharge, Running, Awaited
<1>14. ToldSo'
  <2>1. \A what \in Heard : Hears(what)' => Hears(what)
    BY <1>0, <1>8, <1>9, <1>10, JobsAre DEF Hears, Heard
  <2> QED
    BY <1>0, <1>9, <1>10, <1>11, <2>1, JobsAre DEF Single, ToldSo, Heard
<1>15. OfLoose'
  <2>1. c.at = "reserve" => c.key # page.attempt
    <3>1. t.at = "reserve" => j \in {"early", "flow"} /\ t.key # NoKey
      BY <1>2, JobsAre DEF LInv, Layout, CodeInv, ResumeInv, Answers
    <3> QED
      BY <1>4, <3>1 DEF KInv, KeysApart, TaskIs
  <2>2. t.at = "place" => j = "flow"
    BY JobsAre DEF LInv, Layout, EarlyInv, CodeInv, ResumeInv
  <2>3. c.at = "place" => /\ page.on /\ Placing /\ c.key = page.attempt
                          /\ c.order = page.phase.order /\ c.pay = page.pay
    BY <1>4, <2>2, FlowUnderWay
       DEF LInv, Layout, FlowInv, Placing, KInv, KeysApart, Single, SameCart, TaskIs
  <2>4. \A v : Repeated(v)' <=> Repeated(v)
    BY <1>9 DEF Repeated
  <2>5. task["flow"].at = "place" => j = "flow" \/ task[j].at = "none"
    BY FlowUnderWay, JobsAre
  <2>6. task'["flow"].at = "place" => task'["flow"].answer.is = "unknown"
    BY <1>1, <1>4, <1>6, <1>10, <2>5, SaidFields, JobsAre DEF OnlyTask, TaskIs
  <2> QED
    BY <1>0, <1>5, <1>9, <2>1, <2>3, <2>4, <2>6 DEF Single, OfLoose
<1> QED
  BY <1>12, <1>13, <1>14, <1>15 DEF Single

LEMMA ServerFailsSingle ==
  ASSUME LInv, LInv', KInv, Single, ServerFails, plain'
  PROVE  Single'
<1>0. /\ UNCHANGED <<page, cart, left, loose>> /\ Types /\ Talk
      /\ \A t \in loose : t.at = "drop"
  BY DEF ServerFails, Happens, browser, LInv, KInv, Before
<1>1. PICK o \in Order : ChargeLost(o) /\ UNCHANGED task
  BY DEF ServerFails
<1>2. /\ status[o] \in {"charging", "closed"} /\ lapsed' = lapsed
      /\ \A p \in Order : p # o => status'[p] = status[p]
      /\ status'[o] = IF status[o] = "closed" THEN "closed" ELSE "unsure"
      /\ \A p \in Order : /\ charge'[p].payment = charge[p].payment
                          /\ p # o => charge'[p] = charge[p]
      /\ charge'[o].key = NoKey
  BY <1>0, <1>1 DEF ChargeLost, Types, ChargeRec, Single, OfCharge
<1>8. \A k \in Key : \/ record'[k] = record[k]
                     \/ record'[k] = FreeKey /\ record[k] # FreeKey /\ record[k].body.order = o
  BY <1>0, <1>1, BodyFields DEF ChargeLost, Awaited, Types
<1>9. OfCharge'
  <2> SUFFICES ASSUME NEW p \in Order
               PROVE  /\ Running(p)' => status'[p] \in {"charging", "closed"}
                      /\ Awaited(p)' => record'[charge'[p].key].body = Body(p, charge'[p].payment)
    BY DEF OfCharge
  <2>1. CASE p = o
    BY <1>2, <2>1 DEF Running, Awaited
  <2>2. CASE p # o
    <3>1. (Running(p)' <=> Running(p)) /\ (Running(p) => charge[p].key \in Key)
      BY <1>0, <1>2, <2>2, Basics DEF Running, Types, ChargeRec
    <3> QED
      BY <1>2, <1>8, <2>2, <3>1, BodyFields DEF Single, OfCharge, Awaited
  <2> QED
    BY <2>1, <2>2
<1>3. Committed' = Committed
  BY <1>2 DEF Committed
<1>4. Quiet' /\ SameCart'
  BY <1>0, <1>1, <1>2 DEF Single, Quiet, SameCart
<1>5. Alone' /\ OfLoose'
  BY <1>0, <1>3 DEF Single, Alone, OfLoose
<1>6. Placing' <=> Placing
  BY <1>0, <1>1 DEF Placing
<1>7. OfPhase' /\ OfAttempt' /\ ToldSo'
  <2>1. CASE page.on /\ status[o] = "charging"
    <3>1. /\ Placing /\ page.phase.order = o /\ Committed = {o}
          /\ charge[o].payment = page.pay /\ page.attempt \in Key
          /\ record[page.attempt] # FreeKey /\ record[page.attempt].body = Body(o, page.pay)
          /\ \A w \in Heard : ~Hears(w)
      BY <1>0, <1>2, <2>1, NotTold, TypesGive, Basics DEF Single, OfAttempt
    <3>2. OfPhase'
      BY <1>0, <1>1, <1>2, <1>3, <2>1, <3>1 DEF Single, OfPhase, Placing
    <3>3. OfAttempt'
      BY <1>0, <1>2, <1>3, <1>6, <1>8, <2>1, <3>1 DEF Single, OfAttempt
    <3>4. \A w \in Heard : ~Hears(w)'
      BY <1>0, <1>1, <1>6, <1>8, <3>1, BodyFields DEF Hears, Heard
    <3>5. task'["code"].at # "confirm" /\ page'.own \notin {"code", "check"}
      BY <1>0, <1>1, <3>1 DEF LInv, Layout, CodeInv, PhaseInv, Abandoning, Placing
    <3> QED
      BY <3>2, <3>3, <3>4, <3>5 DEF ToldSo, Heard
  <2>3. CASE page.on /\ status[o] = "closed"
    <3>1. status' = status
      BY <1>0, <1>1, <1>2, <2>3 DEF ChargeLost, Types
    <3>2. OfPhase'
      BY <1>0, <1>1, <1>2, <1>3, <3>1 DEF Single, OfPhase, Committed
    <3>3. Placing => page.attempt \in Key
      BY TypesGive, Basics DEF Single, OfAttempt, LInv
    <3>4. ASSUME Placing, record'[page.attempt] # record[page.attempt]
          PROVE  record'[page.attempt] = FreeKey /\ Committed = {}
      <4>1. /\ record'[page.attempt] = FreeKey /\ record[page.attempt].body.order = o
            /\ record[page.attempt].body = Body(page.phase.order, page.pay)
        BY <1>8, <3>3, <3>4 DEF Single, OfAttempt
      <4>2. page.phase.order = o
        BY <4>1 DEF Body
      <4> QED
        BY <2>3, <4>1, <4>2 DEF Single, OfPhase, Committed
    <3>5. OfAttempt'
      BY <1>0, <1>3, <1>6, <3>1, <3>4 DEF Single, OfAttempt
    <3>6. \A w \in Heard : Hears(w)' => Hears(w)
      BY <1>0, <1>1, <1>6, <3>4, BodyFields DEF Hears, Heard
    <3> QED
      BY <1>0, <1>1, <1>3, <3>1, <3>2, <3>5, <3>6 DEF Single, ToldSo, Heard
  <2>2. CASE ~page.on
    <3>1. PageIs(page', FALSE, "idle", NoOrder, "no", NoPhase, NoKey, NoKey) /\ page'.phase.kind = "none"
      BY <1>0, <2>2, BlankIs, PhaseFields DEF LInv, Layout, Off, PageIs
    <3>2. \A j \in Job : task'[j].at = "none"
      BY <1>1, <2>2, BlankIs DEF LInv, Layout, Off, TaskIs
    <3> QED
      BY <3>1, <3>2, JobsAre DEF PageIs, OfPhase, OfAttempt, ToldSo, Hears, Placing
  <2> QED
    BY <1>2, <2>1, <2>2, <2>3
<1> QED
  BY <1>4, <1>5, <1>7, <1>9 DEF Single

-----------------------------------------------------------------------------
(* The third invariant                                                     *)

LEMMA PInvInit == Init => PInv
<1> SUFFICES ASSUME Init PROVE Single /\ denied = {}
  BY DEF PInv
<1>1. /\ task = NoTasks /\ left = {} /\ loose = {} /\ lapsed = {} /\ cart # NoCart
      /\ record = [k \in Key |-> FreeKey] /\ status = [o \in Order |-> "none"]
      /\ denied = {} /\ \A o \in Order : charge[o].key = NoKey
  BY CartAssumption DEF Init, ServerInit
<1>2. /\ page.on /\ page.own = "idle" /\ page.resume = "no" /\ page.attempt = NoKey
      /\ page.phase.kind = "none"
  <2>1. PICK p \in Payment : page = [Blank EXCEPT !.on = TRUE, !.pay = p]
    BY DEF Init
  <2> QED
    BY <2>1, BlankIs, PhaseFields DEF PageIs, PageRec
<1>3. \A j \in Job : task[j].at = "none"
  BY <1>1, BlankIs DEF TaskIs
<1>4. Committed = {} /\ ~Placing
  BY <1>1, <1>2 DEF Committed, Placing
<1>5. Quiet /\ SameCart
  BY <1>1, <1>2, <1>3, JobsAre DEF Quiet, SameCart
<1>6. Alone /\ OfPhase /\ OfAttempt
  BY <1>2, <1>4 DEF Alone, OfPhase, OfAttempt
<1>7. ToldSo /\ OfLoose
  BY <1>1, <1>2, <1>3, <1>4, JobsAre DEF ToldSo, Hears, OfLoose
<1>8. OfCharge
  BY <1>1 DEF OfCharge, Awaited, Running
<1> QED
  BY <1>1, <1>5, <1>6, <1>7, <1>8 DEF Single

LEMMA PInvStutters ==
  ASSUME PInv, UNCHANGED vars
  PROVE  PInv'
<1>1. UNCHANGED <<page, task, left, loose, cart, record, status, lapsed, charge, plain, denied>>
  BY DEF vars, server, browser, history, counts
<1>2. Committed' = Committed /\ Placing' = Placing /\ \A what : Hears(what)' = Hears(what)
  BY <1>1 DEF Committed, Placing, Hears
<1>3. Quiet' = Quiet /\ SameCart' = SameCart /\ Alone' = Alone
  BY <1>1, <1>2 DEF Quiet, SameCart, Alone
<1>4. OfPhase' = OfPhase /\ OfAttempt' = OfAttempt /\ OfCharge' = OfCharge
  BY <1>1, <1>2 DEF OfPhase, OfAttempt, OfCharge, Running, Awaited
<1>5. ToldSo' = ToldSo /\ OfLoose' = OfLoose
  BY <1>1, <1>2 DEF ToldSo, OfLoose, Repeated
<1> QED
  BY <1>1, <1>3, <1>4, <1>5 DEF PInv, Single

(* What a user who only presses the button and enters codes has not done   *)
(* before either.                                                          *)
LEMMA PlainBefore ==
  ASSUME Next, plain'
  PROVE  plain
<1>1. CASE \/ StartEarly \/ (\E t \in EarlyRuns : HearEarly(t)) \/ RetryEarly \/ Open \/ Press
           \/ Take
  BY <1>1 DEF StartEarly, HearEarly, RetryEarly, Open, Press, Take
<1>2. CASE HearReserve \/ HearRefusal \/ HearFailure \/ HearPlaced \/ HearChallenge \/ Submit
  BY <1>2 DEF HearReserve, HearRefusal, HearFailure, HearPlaced, Finish, HearChallenge, Submit
<1>3. CASE Leave \/ Reload \/ Change \/ Cancel \/ TimePasses
  BY <1>3 DEF Leave, Reload, Change, Cancel, TimePasses
<1>4. CASE HearCode \/ HearAbandon("flow") \/ HearAbandon("code")
  BY <1>4 DEF HearCode, HearAbandon, Finish
<1>5. CASE HearResume \/ RetryResume
  BY <1>5 DEF HearResume, RetryResume, Finish
<1>6. CASE \E t \in left : HearLeft(t)
  BY <1>6 DEF HearLeft, LeftFinishes
<1>7. CASE Serve \/ ServerDecides \/ ServerFails
  BY <1>7 DEF Serve, ServerDecides, ServerFails
<1>8. CASE Lose
  <2>1. \E t : plain' = (plain /\ t.at # "confirm")
    BY <1>8 DEF Lose
  <2> QED
    BY <2>1
<1> QED
  BY <1>1, <1>2, <1>3, <1>4, <1>5, <1>6, <1>7, <1>8 DEF Next

(* A user who only presses the button and enters codes starts no second    *)
(* early run, and no step of his page crosses another.                     *)
LEMMA PlainCrossesNothing ==
  ASSUME LInv, Single, Next, plain'
  PROVE  crossed' = crossed
<1>1. ~StartEarly \/ task["early"].at = "none"
  <2> SUFFICES ASSUME StartEarly, task["early"].at # "none" PROVE FALSE
    OBVIOUS
  <2>1. page.phase.kind = "reserving"
    BY DEF LInv, Layout, EarlyInv, Single, Quiet
  <2> QED
    BY <2>1 DEF StartEarly, EarlyStep
<1>2. CASE \/ StartEarly \/ (\E t \in EarlyRuns : HearEarly(t)) \/ RetryEarly \/ Open
           \/ Leave \/ Reload \/ Change
  BY <1>1, <1>2 DEF StartEarly, HearEarly, RetryEarly, Open, Leave, Reload, Change, Happens, counts
<1>3. CASE \/ Press \/ Take \/ HearReserve \/ HearRefusal \/ HearFailure \/ HearPlaced
           \/ HearChallenge
  BY <1>3 DEF Press, Take, HearReserve, HearRefusal, HearFailure, HearPlaced, Finish,
     HearChallenge, counts
<1>4. CASE \/ Submit \/ Cancel \/ HearCode \/ HearAbandon("flow") \/ HearAbandon("code")
           \/ HearResume \/ RetryResume
  BY <1>4 DEF Submit, Cancel, HearCode, HearAbandon, Finish, HearResume, RetryResume, counts
<1>5. CASE \E t \in left : HearLeft(t)
  BY <1>5 DEF HearLeft, LeftFinishes, counts
<1>6. CASE Serve \/ ServerDecides \/ Lose \/ ServerFails \/ TimePasses
  BY <1>6 DEF Serve, ServerDecides, Lose, ServerFails, TimePasses, Happens, counts
<1> QED
  BY <1>2, <1>3, <1>4, <1>5, <1>6 DEF Next

(* His page is never told of a refusal that is not so, ...                 *)
LEMMA RefusalIsSo ==
  ASSUME LInv, KInv, Single, denied = {}, task["flow"].at = "place", NEW what,
         what \in {"cardless", "method", "error"}, Reply(task["flow"]).is = what,
         Denies(task["flow"].order, what)
  PROVE  denied' = {}
<1> DEFINE o == task["flow"].order
<1>1. /\ o \in Order /\ o = page.phase.order /\ Owned(o) /\ page.on
  BY PlacingFlow, FlowUnderWay
<1>2. Hears(what)
  BY HearsIt
<1>3. status[o] # "none"
  BY <1>1 DEF KInv, Claims, Fresh
<1>4. what # "cardless" => o \notin Committed
  BY <1>2 DEF Single, ToldSo
<1>5. what = "cardless" /\ o \in Committed => status[o] = "awaiting"
  BY <1>2 DEF Single, ToldSo
<1>6. o \notin Committed => status[o] \in {"draft", "closed"}
  BY <1>1, <1>3 DEF Committed, LInv, Types, Status
<1>7. status[o] \in UntouchedBy(what)
  BY <1>4, <1>5, <1>6 DEF UntouchedBy
<1> QED
  BY <1>7 DEF Denies

(* ... so that it does not release an order that is being placed.          *)
LEMMA NoDenial ==
  ASSUME LInv, KInv, Single, Next, plain', denied = {}
  PROVE  denied' = {}
<1>1. CASE \/ StartEarly \/ (\E t \in EarlyRuns : HearEarly(t)) \/ RetryEarly \/ Open
           \/ Leave \/ Reload \/ Change
  BY <1>1 DEF StartEarly, HearEarly, EarlyReserves, EarlyReleases, RetryEarly, Open, Leave, Reload,
     Change, history
<1>2. CASE Press \/ Take \/ HearReserve \/ HearPlaced \/ HearChallenge
  BY <1>2 DEF Press, Take, HearReserve, FlowPlaces, FlowReleases, FlowReserves, HearPlaced, Finish,
     HearChallenge, history
<1>3. CASE HearRefusal
  BY <1>3, RefusalIsSo DEF HearRefusal
<1>4. CASE HearFailure
  <2>1. \/ denied' = denied
        \/ /\ task["flow"].at = "place" /\ Reply(task["flow"]).is = "error"
           /\ Denies(task["flow"].order, "error")
    BY <1>4 DEF HearFailure
  <2> QED
    BY <2>1, RefusalIsSo
<1>5. CASE \/ Submit \/ Cancel \/ HearCode \/ HearAbandon("flow") \/ HearAbandon("code")
           \/ HearResume \/ RetryResume
  BY <1>5 DEF Submit, Cancel, HearCode, Abandon, HearAbandon, Finish, HearResume, RetryResume,
     history
<1>6. ~\E t \in left : HearLeft(t)
  BY DEF Single, Quiet
<1>7. CASE Serve \/ ServerDecides \/ Lose \/ ServerFails \/ TimePasses
  BY <1>7 DEF Serve, ServerDecides, Lose, ServerFails, TimePasses, history
<1> QED
  BY <1>1, <1>2, <1>3, <1>4, <1>5, <1>6, <1>7 DEF Next

LEMMA PInvStep ==
  ASSUME LInv, LInv', KInv, PInv, crossed' = 0, [Next]_vars
  PROVE  PInv'
<1>1. CASE Next
  <2> SUFFICES ASSUME plain' PROVE Single' /\ denied' = {}
    BY DEF PInv
  <2>0. Single /\ Quiet /\ denied = {}
    BY <1>1, PlainBefore DEF PInv, Single
  <2>7. denied' = {}
    BY <1>1, <2>0, NoDenial
  <2>1. CASE \/ StartEarly \/ (\E t \in EarlyRuns : HearEarly(t)) \/ RetryEarly
    BY <2>0, <2>1, <2>7, StartEarlySingle, HearEarlySingle, RetryEarlySingle
  <2>2. CASE \/ Press \/ Take \/ HearReserve \/ HearRefusal \/ HearFailure \/ HearPlaced
             \/ HearChallenge
    BY <2>0, <2>2, <2>7, PressSingle, TakeSingle, HearReserveSingle, HearRefusalSingle,
       HearFailureSingle, HearPlacedSingle, HearChallengeSingle
  <2>3. CASE \/ Submit \/ HearCode \/ HearAbandon("code")
    BY <2>0, <2>3, <2>7, SubmitSingle, HearCodeSingle, HearAbandonSingle
  <2>4. CASE \/ Serve \/ ServerDecides \/ Lose \/ ServerFails
    BY <2>0, <2>4, <2>7, ServeSingle, ServerDecidesSingle, LoseSingle, ServerFailsSingle
  <2>5. ~(Leave \/ Reload \/ Change \/ Cancel \/ TimePasses)
    BY DEF Leave, Reload, Change, Cancel, TimePasses
  <2>6. ~(Open \/ HearAbandon("flow") \/ HearResume \/ RetryResume \/ \E t \in left : HearLeft(t))
    BY <2>0 DEF Quiet, Open, HearAbandon, HearResume, RetryResume
  <2> QED
    BY <1>1, <2>1, <2>2, <2>3, <2>4, <2>5, <2>6, <2>7 DEF Next
<1>2. CASE UNCHANGED vars
  BY <1>2, PInvStutters
<1> QED
  BY <1>1, <1>2

LEMMA SingleIsOne ==
  ASSUME PInv
  PROVE  OnePaidOrder
<1> SUFFICES ASSUME plain
             PROVE  Cardinality({o \in Order : status[o] \in {"paid", "review"}}) <= 1
  BY DEF OnePaidOrder
<1> DEFINE Paid == {o \in Order : status[o] \in {"paid", "review"}}
<1>1. \A o, p \in Paid : o = p
  BY DEF PInv, Single, Alone, Committed
<1>2. Paid = {} \/ \E o : Paid = {o}
  BY <1>1
<1>3. Cardinality(Paid) \in {0, 1}
  BY <1>2, FS_EmptySet, FS_Singleton
<1> QED
  BY <1>3

PageInv ==
  /\ crossed \in Nat
  /\ plain => crossed = 0
  /\ crossed = 0 => LInv /\ KInv /\ PInv

LEMMA PageInvInit == Init => PageInv
<1>1. Init => crossed = 0
  BY DEF Init
<1> QED
  BY <1>1, LInvInit, KInvInit, PInvInit DEF PageInv

LEMMA PageInvStep ==
  ASSUME PageInv, [Next]_vars
  PROVE  PageInv'
<1>1. crossed' \in Nat /\ (crossed' = 0 => crossed = 0)
  BY CrossedGrows DEF PageInv
<1>2. plain' => crossed' = 0
  <2>1. CASE Next
    <3> SUFFICES ASSUME plain' PROVE crossed' = 0
      OBVIOUS
    <3>1. plain
      BY <2>1, PlainBefore
    <3>2. LInv /\ Single /\ crossed = 0
      BY <3>1 DEF PageInv, PInv
    <3> QED
      BY <2>1, <3>2, PlainCrossesNothing
  <2>2. CASE UNCHANGED vars
    BY <2>2 DEF vars, counts, PageInv
  <2> QED
    BY <2>1, <2>2
<1>3. ASSUME crossed' = 0
      PROVE  LInv' /\ KInv' /\ PInv'
  <2>1. LInv /\ KInv /\ PInv
    BY <1>1, <1>3 DEF PageInv
  <2>2. LInv'
    BY <1>3, <2>1, LInvStep
  <2>3. KInv'
    BY <1>3, <2>1, <2>2, KInvStep
  <2>4. PInv'
    BY <1>3, <2>1, <2>2, PInvStep
  <2> QED
    BY <2>2, <2>3, <2>4
<1> QED
  BY <1>1, <1>2, <1>3 DEF PageInv

(* reservation-keeper.ts:10-14: wherever the user leaves the page and      *)
(* whatever answers are late, its cleaning up releases an order whose      *)
(* placement is under way, unknown, waits for its code, or was accepted    *)
(* only when the page was told for good that the order is refused, and     *)
(* nothing of the kind is told to a user who only presses the button and   *)
(* enters codes in time.  It holds until a step crosses another of the     *)
(* page: two early runs at a time, or a cancellation that meets a code.    *)
THEOREM PlacedIsNotReleased == Spec => []KeepsPlaced
<1>1. PageInv => KeepsPlaced
  <2> SUFFICES ASSUME PageInv, crossed = 0
               PROVE  /\ Releasing \cap (asked \cup denied) \subseteq denied
                      /\ plain => denied = {}
    BY DEF KeepsPlaced
  <2>1. Releasing \cap asked = {}
    BY DEF PageInv, KInv, Claims, Unreleased
  <2>2. plain => denied = {}
    BY DEF PageInv, PInv
  <2> QED
    BY <2>1, <2>2
<1> QED
  BY <1>1, PageInvInit, PageInvStep, PTL DEF Spec

(* ADR-08: a user who only presses the button and enters codes does not    *)
(* buy the cart twice, though the answer of a reservation, of a placement, *)
(* or of payment-service to a charge was lost.                             *)
THEOREM CartIsBoughtOnce == Spec => []OnePaidOrder
<1>1. PageInv => OnePaidOrder
  BY SingleIsOne DEF PageInv, OnePaidOrder
<1> QED
  BY <1>1, PageInvInit, PageInvStep, PTL DEF Spec

=============================================================================
