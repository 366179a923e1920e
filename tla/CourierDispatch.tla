--------------------------- MODULE CourierDispatch ---------------------------
(***************************************************************************)
(* The courier of one paid order, in order-service and courier-service.    *)
(*                                                                         *)
(* Dispatchers of order-service ask for a courier and write it on the      *)
(* order; courier-service claims one from the pool and stores the route of *)
(* the order; tickers of courier-service move the route on, publish the    *)
(* milestones and free the courier; order-service advances the order from  *)
(* these events.  There is one document per order on each side and no      *)
(* transaction between them: every write is conditional, and everything    *)
(* may happen between two steps.                                           *)
(*                                                                         *)
(* Abstractions: one order of one market, whose position is known.  What   *)
(* other orders do to the pool is that couriers are away and come back.    *)
(* Positions are left out.  Time is a counter that grows with every stored *)
(* stamp; stage is how far the clock has brought a courier on a route.     *)
(* Leader lock, turn budget, back-off and the grace of the reconciliation  *)
(* only delay or drop steps: any number of tickers may run here at any     *)
(* time.                                                                   *)
(***************************************************************************)
EXTENDS Integers, FiniteSets

CONSTANTS
  Courier,         \* the pool around the market
  NoCourier,
  Dispatcher,      \* instances of order-service, or calls left behind by a deadline
  Ticker,          \* instances of courier-service that believe they lead
  WriteAttempts,   \* attempts to write a claimed courier on the order
  PromptCalls,     \* calls inside courier-service are short against a trip
  MaxDispatchFailures,   \* bounds of the model
  MaxTickFailures

ASSUME CourierAssumption ==
  /\ NoCourier \notin Courier
  /\ WriteAttempts \in Nat \ {0}
  /\ PromptCalls \in BOOLEAN
  /\ MaxDispatchFailures \in Nat /\ MaxTickFailures \in Nat

VARIABLES
  order,        \* order-service: status, courier, version
  courier,      \* courier[c]: "idle", "busy" with this order, or "away" with others
  assignedAt,   \* lastAssignedAt of a courier
  route,        \* the route of the order
  events,       \* milestones that were published
  run,          \* run[d]: the step of a dispatcher and what it has read
  tick,         \* tick[t]: the step of a ticker and what it has read
  now, failures,
  trip,         \* history: the number of the last claim of a courier
  outcomes      \* history: how trips ended for the callers

vars ==
  <<order, courier, assignedAt, route, events, run, tick, now, failures, trip, outcomes>>
pool == <<courier, assignedAt, trip>>

Order ==
  [status : {"PAID", "PREPARING", "ON_THE_WAY", "DELIVERED"},
   courier : Courier \cup {NoCourier}, version : Nat]
Stage == {"toMarket", "toCustomer", "arrived"}
Route ==
  [courier : Courier \cup {NoCourier}, createdAt : Nat, trip : Nat,
   state : {"NONE", "MOVING", "DONE", "ENDED"}, stage : Stage,
   pickedUp : BOOLEAN, pickupPublished : BOOLEAN, delivered : BOOLEAN]
Event == [kind : {"picked_up", "delivered"}, courier : Courier]
Outcome == [trip : Nat, kind : {"released", "delivered"}]

(* The steps that a call to courier-service takes after its first read.    *)
ServiceStep ==
  {"claim", "conflict", "none", "findRoute", "insert", "replace", "decide", "end", "endReread",
   "free"}
DispatchStep == {"idle", "ask", "bind", "reread", "wait", "release"} \cup ServiceStep
TickStep ==
  {"idle", "list", "couriers", "advance", "drop", "pick", "tell", "mark", "record", "confirm", "free",
   "publish", "done", "routes", "freeStuck"}
Run ==
  [step : DispatchStep, seen : Order, courier : Courier \cup {NoCourier}, assigned : Nat,
   trip : Nat, since : Nat, stored : Route, attempt : Nat]
Turn ==
  [step : TickStep, seen : Route, courier : Courier \cup {NoCourier}, assigned : Nat]

Paid == [status |-> "PAID", courier |-> NoCourier, version |-> 1]
NoRoute ==
  [courier |-> NoCourier, createdAt |-> 0, trip |-> 0, state |-> "NONE", stage |-> "toMarket",
   pickedUp |-> FALSE, pickupPublished |-> FALSE, delivered |-> FALSE]
Idle ==
  [step |-> "idle", seen |-> Paid, courier |-> NoCourier, assigned |-> 0, trip |-> 0, since |-> 0,
   stored |-> NoRoute, attempt |-> 0]
Resting == [step |-> "idle", seen |-> NoRoute, courier |-> NoCourier, assigned |-> 0]

Init ==
  /\ order = Paid
  /\ courier \in [Courier -> {"idle", "away"}]
  /\ assignedAt = [c \in Courier |-> 0]
  /\ route = NoRoute
  /\ events = {}
  /\ run = [d \in Dispatcher |-> Idle]
  /\ tick = [t \in Ticker |-> Resting]
  /\ now = 1 /\ failures = [dispatch |-> 0, tick |-> 0]
  /\ trip = [c \in Courier |-> 0]
  /\ outcomes = {}

-----------------------------------------------------------------------------
(* What both services read and compare.                                    *)

NeedsCourier(o) == o.status = "PAID" \/ (o.status = "PREPARING" /\ o.courier = NoCourier)
Terminal(o) == o.status = "DELIVERED"
Carrying(c) == courier[c] = "busy"
Carriers == {c \in Courier : Carrying(c)}
Pool == {c \in Courier : courier[c] = "idle"}

SameRoute(r, s) == r.courier = s.courier /\ r.createdAt = s.createdAt
BelongsToAssignment(r, c, assigned) == r.courier = c /\ r.createdAt >= assigned

(* The filter of a conditional patch.                                     *)
Current(seen) == SameRoute(route, seen) /\ route.state = "MOVING"
(* ENDED is not written over a delivery; mutant: it is.                     *)
EndableLikeAnyPatch(seen) == Current(seen)
Endable(seen) == Current(seen) /\ ~route.delivered

(* releaseByOrder with the identity of the courier.                        *)
Freed(c) == courier' = IF Carrying(c) THEN [courier EXCEPT ![c] = "idle"] ELSE courier

-----------------------------------------------------------------------------
(* Dispatching: a turn of order-service for this order.                    *)

At(d, step) == run[d].step = step
Become(d, r) == run' = [run EXCEPT ![d] = r]
Goto(d, step) == run' = [run EXCEPT ![d].step = step]
Finish(d) == Become(d, Idle)
DispatchKeeps == UNCHANGED <<events, tick, failures>>

(* The courier as the call has read it.                                    *)
Found(d, c, step) ==
  run' = [run EXCEPT ![d].step = step, ![d].courier = c, ![d].assigned = assignedAt[c],
                     ![d].trip = trip[c]]

ReadQueue(d) ==
  /\ At(d, "idle") /\ NeedsCourier(order)
  /\ Become(d, [Idle EXCEPT !.step = "ask", !.seen = order])
  /\ UNCHANGED <<order, pool, route, now, outcomes>> /\ DispatchKeeps

(* In this turn the market had no courier for another order already.       *)
OthersFoundNone(d) ==
  /\ At(d, "ask") /\ Pool = {}
  /\ Goto(d, "wait")
  /\ UNCHANGED <<order, pool, route, now, outcomes>> /\ DispatchKeeps

(* AssignCourier: the courier that carries the order already, or a claim.  *)
Ask(d) ==
  /\ At(d, "ask")
  /\ \/ \E c \in Carriers : Found(d, c, "findRoute")
     \/ Carriers = {} /\ run' = [run EXCEPT ![d].step = "claim", ![d].since = now]
  /\ UNCHANGED <<order, pool, route, now, outcomes>> /\ DispatchKeeps

(* Only an idle courier is taken, and the unique index refuses a second    *)
(* carrier.  The stamp was read before the write.                          *)
IndexAllows == Carriers = {}

Claim(d) ==
  /\ At(d, "claim")
  /\ \/ /\ IndexAllows
        /\ \E c \in Pool, at \in run[d].since..now :
             /\ courier' = [courier EXCEPT ![c] = "busy"]
             /\ assignedAt' = [assignedAt EXCEPT ![c] = at]
             /\ trip' = [trip EXCEPT ![c] = now]
             /\ run' = [run EXCEPT ![d].step = "findRoute", ![d].courier = c,
                                   ![d].assigned = at, ![d].trip = now, ![d].since = 0]
             /\ now' = now + 1
     \/ /\ Pool # {} /\ ~IndexAllows
        /\ Goto(d, "conflict")
        /\ UNCHANGED <<pool, now>>
     \/ /\ Pool = {}
        /\ Goto(d, "none")
        /\ UNCHANGED <<pool, now>>
  /\ UNCHANGED <<order, route, outcomes>> /\ DispatchKeeps

(* The winner of a race for this order.  No winner after a conflict is an   *)
(* error, no winner in an empty pool is the answer that there is none.     *)
Winner(d) ==
  /\ At(d, "conflict") \/ At(d, "none")
  /\ \/ \E c \in Carriers : Found(d, c, "findRoute")
     \/ Carriers = {} /\ At(d, "conflict") /\ Finish(d)
     \/ Carriers = {} /\ At(d, "none")
        /\ Become(d, [Idle EXCEPT !.step = "wait", !.seen = run[d].seen])
  /\ UNCHANGED <<order, pool, route, now, outcomes>> /\ DispatchKeeps

Answer(d) ==
  Become(d, [Idle EXCEPT !.step = "bind", !.seen = run[d].seen, !.courier = run[d].courier,
                         !.attempt = 1])

(* The stored route is that of this assignment; mutant: any route of this   *)
(* courier will do.                                                        *)
RouteStandsForCourier(d) == route.courier = run[d].courier
RouteStands(d) == BelongsToAssignment(route, run[d].courier, run[d].assigned)

FindRoute(d) ==
  /\ At(d, "findRoute")
  /\ IF RouteStands(d)
     THEN Answer(d)
     ELSE run' = [run EXCEPT ![d].step = IF route.state = "NONE" THEN "insert" ELSE "replace",
                             ![d].since = now]
  /\ UNCHANGED <<order, pool, route, now, outcomes>> /\ DispatchKeeps

NewRoute(d, at) ==
  [NoRoute EXCEPT !.courier = run[d].courier, !.createdAt = at, !.trip = run[d].trip,
                  !.state = "MOVING"]

(* insertOnce.                                                             *)
MayInsert == route.state = "NONE"

InsertRoute(d) ==
  /\ At(d, "insert")
  /\ IF MayInsert
     THEN (\E at \in run[d].since..now : route' = NewRoute(d, at)) /\ now' = now + 1
     ELSE UNCHANGED <<route, now>>
  /\ Answer(d)
  /\ UNCHANGED <<order, pool, outcomes>> /\ DispatchKeeps

ReplaceRoute(d) ==
  /\ At(d, "replace")
  /\ \E at \in run[d].since..now : route' = NewRoute(d, at)
  /\ now' = now + 1
  /\ Answer(d)
  /\ UNCHANGED <<order, pool, outcomes>> /\ DispatchKeeps

(* The version check; mutant: none.                                        *)
FreshAlways(d) == TRUE
Fresh(d) == order.version = run[d].seen.version

Preparing(seen, c) ==
  [status |-> "PREPARING", courier |-> c, version |-> seen.version + 1]

Bind(d) ==
  /\ At(d, "bind")
  /\ IF Fresh(d)
     THEN order' = Preparing(run[d].seen, run[d].courier) /\ Finish(d)
     ELSE UNCHANGED order /\ Goto(d, "reread")
  /\ UNCHANGED <<pool, route, now, outcomes>> /\ DispatchKeeps

Reread(d) ==
  /\ At(d, "reread")
  /\ \/ Terminal(order) /\ Become(d, [Idle EXCEPT !.step = "release"])
     \/ /\ ~Terminal(order)
        /\ ~NeedsCourier(order) \/ run[d].attempt >= WriteAttempts
        /\ Finish(d)
     \/ /\ NeedsCourier(order) /\ run[d].attempt < WriteAttempts
        /\ run' = [run EXCEPT ![d].step = "bind", ![d].seen = order, ![d].attempt = @ + 1]
  /\ UNCHANGED <<order, pool, route, now, outcomes>> /\ DispatchKeeps

(* No courier: the paid order is prepared without one and asked for again  *)
(* later; an order that waits already is not written.                      *)
Wait(d) ==
  /\ At(d, "wait")
  /\ order' = IF run[d].seen.status = "PAID" /\ Fresh(d)
              THEN Preparing(run[d].seen, NoCourier) ELSE order
  /\ Finish(d)
  /\ UNCHANGED <<pool, route, now, outcomes>> /\ DispatchKeeps

-----------------------------------------------------------------------------
(* ReleaseCourier: the order was closed while a courier was claimed for it. *)

Release(d) ==
  /\ At(d, "release")
  /\ \/ Carriers = {} /\ Finish(d)
     \/ \E c \in Carriers : Found(d, c, "decide")
  /\ UNCHANGED <<order, pool, route, now, outcomes>> /\ DispatchKeeps

(* The route decides between delivery and release.                         *)
Decide(d) ==
  /\ At(d, "decide")
  /\ \/ ~BelongsToAssignment(route, run[d].courier, run[d].assigned) /\ Goto(d, "free")
     \/ /\ BelongsToAssignment(route, run[d].courier, run[d].assigned)
        /\ \/ (route.delivered \/ route.state = "DONE") /\ Finish(d)
           \/ ~route.delivered /\ route.state = "ENDED" /\ Goto(d, "free")
           \/ /\ ~route.delivered /\ route.state = "MOVING"
              /\ run' = [run EXCEPT ![d].step = "end", ![d].stored = route]
  /\ UNCHANGED <<order, pool, route, now, outcomes>> /\ DispatchKeeps

EndRoute(d) ==
  /\ At(d, "end")
  /\ IF Endable(run[d].stored)
     THEN route' = [route EXCEPT !.state = "ENDED"] /\ Goto(d, "free")
     ELSE UNCHANGED route /\ Goto(d, "endReread")
  /\ UNCHANGED <<order, pool, now, outcomes>> /\ DispatchKeeps

(* A refused patch is a finished, a delivered or another route.            *)
EndReread(d) ==
  /\ At(d, "endReread")
  /\ IF SameRoute(route, run[d].stored) /\ route.state # "ENDED" THEN Finish(d) ELSE Goto(d, "free")
  /\ UNCHANGED <<order, pool, route, now, outcomes>> /\ DispatchKeeps

Free(d) ==
  /\ At(d, "free")
  /\ Freed(run[d].courier)
  /\ outcomes' = outcomes \cup
       IF Carrying(run[d].courier)
       THEN {[trip |-> trip[run[d].courier], kind |-> "released"]} ELSE {}
  /\ Finish(d)
  /\ UNCHANGED <<order, assignedAt, trip, route, now>> /\ DispatchKeeps

(* An error of any call, its deadline, or the end of the instance.         *)
DispatchFails(d) ==
  /\ ~At(d, "idle") /\ failures.dispatch < MaxDispatchFailures
  /\ failures' = [failures EXCEPT !.dispatch = @ + 1]
  /\ Finish(d)
  /\ UNCHANGED <<order, pool, route, events, tick, now, outcomes>>

-----------------------------------------------------------------------------
(* A turn of the route ticker, for this order.                             *)

Doing(t, step) == tick[t].step = step
Proceed(t, step) == tick' = [tick EXCEPT ![t].step = step]
Carry(t, step, seen) == tick' = [tick EXCEPT ![t].step = step, ![t].seen = seen]
Rest(t) == tick' = [tick EXCEPT ![t] = Resting]
TickKeeps == UNCHANGED <<order, run, assignedAt, trip, now, failures>>

ListMoving(t) ==
  /\ \/ /\ Doing(t, "idle") \/ Doing(t, "list")
        /\ route.state = "MOVING"
        /\ Carry(t, "couriers", route)
     \/ Doing(t, "list") /\ route.state # "MOVING" /\ Rest(t)
  /\ UNCHANGED <<courier, route, events, outcomes>> /\ TickKeeps

(* The couriers of the batch are read after the routes.                    *)
ReadCouriers(t) ==
  /\ Doing(t, "couriers")
  /\ Proceed(t, IF tick[t].seen.delivered \/ Carrying(tick[t].seen.courier)
                THEN "advance" ELSE "drop")
  /\ UNCHANGED <<courier, route, events, outcomes>> /\ TickKeeps

(* The courier does not carry the order any more.                          *)
Drop(t) ==
  /\ Doing(t, "drop")
  /\ route' = IF Endable(tick[t].seen) THEN [route EXCEPT !.state = "ENDED"] ELSE route
  /\ Rest(t)
  /\ UNCHANGED <<courier, events, outcomes>> /\ TickKeeps

(* What a route at this stage still needs, in this order; mutants: the     *)
(* delivery before the pick-up was told, and a recorded delivery taken for *)
(* a finished one.                                                         *)
NextWorkDeliversFirst(r) ==
  CASE r.stage # "toMarket" /\ ~r.pickedUp -> "pick"
    [] r.stage = "arrived" /\ ~r.delivered -> "record"
    [] r.pickedUp /\ ~r.pickupPublished -> "tell"
    [] r.delivered -> "confirm"
    [] OTHER -> "idle"
NextWorkForgetsDelivery(r) ==
  CASE r.stage # "toMarket" /\ ~r.pickedUp -> "pick"
    [] r.pickedUp /\ ~r.pickupPublished -> "tell"
    [] r.stage = "arrived" /\ r.pickupPublished /\ ~r.delivered -> "record"
    [] OTHER -> "idle"
NextWork(r) ==
  CASE r.stage # "toMarket" /\ ~r.pickedUp -> "pick"
    [] r.pickedUp /\ ~r.pickupPublished -> "tell"
    [] r.stage = "arrived" /\ r.pickupPublished /\ ~r.delivered -> "record"
    [] r.delivered /\ r.pickupPublished -> "confirm"
    [] OTHER -> "idle"

(* Carries on with what a patch returned; the stage stays that of the      *)
(* moment at which the turn came to this route.                            *)
Continue(t, r) ==
  IF NextWork(r) = "idle" THEN Rest(t) ELSE Carry(t, NextWork(r), r)

Advance(t) ==
  /\ Doing(t, "advance")
  /\ Continue(t, [tick[t].seen EXCEPT !.stage =
                    IF SameRoute(route, tick[t].seen) THEN route.stage ELSE @])
  /\ UNCHANGED <<courier, route, events, outcomes>> /\ TickKeeps

Patch(t, patched) ==
  IF Current(tick[t].seen)
  THEN route' = patched /\ Continue(t, [patched EXCEPT !.stage = tick[t].seen.stage])
  ELSE UNCHANGED route /\ Rest(t)

Pick(t) ==
  /\ Doing(t, "pick")
  /\ Patch(t, [route EXCEPT !.pickedUp = TRUE])
  /\ UNCHANGED <<courier, events, outcomes>> /\ TickKeeps

Tell(t) ==
  /\ Doing(t, "tell")
  /\ events' = events \cup {[kind |-> "picked_up", courier |-> tick[t].seen.courier]}
  /\ Proceed(t, "mark")
  /\ UNCHANGED <<courier, route, outcomes>> /\ TickKeeps

Mark(t) ==
  /\ Doing(t, "mark")
  /\ Patch(t, [route EXCEPT !.pickupPublished = TRUE])
  /\ UNCHANGED <<courier, events, outcomes>> /\ TickKeeps

(* A delivery recorded in this turn is confirmed by the patch itself.      *)
Record(t) ==
  /\ Doing(t, "record")
  /\ IF Current(tick[t].seen)
     THEN /\ route' = [route EXCEPT !.delivered = TRUE]
          /\ Carry(t, "free", tick[t].seen)
     ELSE UNCHANGED route /\ Rest(t)
  /\ UNCHANGED <<courier, events, outcomes>> /\ TickKeeps

(* A delivery recorded in an earlier turn is confirmed again.              *)
Confirm(t) ==
  /\ Doing(t, "confirm")
  /\ IF Current(tick[t].seen)
     THEN /\ route' = [route EXCEPT !.delivered = TRUE]
          /\ Carry(t, "free", tick[t].seen)
     ELSE UNCHANGED route /\ Rest(t)
  /\ UNCHANGED <<courier, events, outcomes>> /\ TickKeeps

FreeCarrier(t) ==
  /\ Doing(t, "free")
  /\ Freed(tick[t].seen.courier)
  /\ Proceed(t, "publish")
  /\ UNCHANGED <<route, events, outcomes>> /\ TickKeeps

Publish(t) ==
  /\ Doing(t, "publish")
  /\ events' = events \cup {[kind |-> "delivered", courier |-> tick[t].seen.courier]}
  /\ outcomes' = outcomes \cup {[trip |-> tick[t].seen.trip, kind |-> "delivered"]}
  /\ Proceed(t, "done")
  /\ UNCHANGED <<courier, route>> /\ TickKeeps

Done(t) ==
  /\ Doing(t, "done")
  /\ route' = IF Current(tick[t].seen) THEN [route EXCEPT !.state = "DONE"] ELSE route
  /\ Rest(t)
  /\ UNCHANGED <<courier, events, outcomes>> /\ TickKeeps

(* The reconciliation, now and then before the routes: a courier that      *)
(* carries the order of a route which has ended is freed.                  *)
ListCarrying(t) ==
  /\ Doing(t, "idle")
  /\ \E c \in Carriers :
       tick' = [tick EXCEPT ![t].step = "routes", ![t].courier = c, ![t].assigned = assignedAt[c]]
  /\ UNCHANGED <<courier, route, events, outcomes>> /\ TickKeeps

ToList(t) == tick' = [tick EXCEPT ![t] = [Resting EXCEPT !.step = "list"]]

(* The route of this assignment has ended; mutant: any route of the order.  *)
StuckByAnyRoute(t) == route.state \in {"ENDED", "DONE"}
Stuck(t) ==
  /\ BelongsToAssignment(route, tick[t].courier, tick[t].assigned)
  /\ route.state \in {"ENDED", "DONE"}

ReadRoutes(t) ==
  /\ Doing(t, "routes")
  /\ IF Stuck(t) THEN Proceed(t, "freeStuck") ELSE ToList(t)
  /\ UNCHANGED <<courier, route, events, outcomes>> /\ TickKeeps

FreeStuck(t) ==
  /\ Doing(t, "freeStuck")
  /\ Freed(tick[t].courier)
  /\ ToList(t)
  /\ UNCHANGED <<route, events, outcomes>> /\ TickKeeps

(* An error of a patch, of the release or of the event bus; the turn ends. *)
TickFails(t) ==
  /\ ~Doing(t, "idle") /\ failures.tick < MaxTickFailures
  /\ failures' = [failures EXCEPT !.tick = @ + 1]
  /\ Rest(t)
  /\ UNCHANGED <<order, pool, route, events, run, now, outcomes>>

-----------------------------------------------------------------------------
(* Milestones in order-service: every published event is delivered at      *)
(* least once, in any order.  One whose courier is not written yet is not  *)
(* acknowledged, one of another courier is dropped.                        *)

Concerns(e) == ~NeedsCourier(order) /\ order.courier = e.courier

(* The status it leads to and the number of transitions.                   *)
Milestone(e) ==
  CASE e.kind = "picked_up" /\ order.status = "PREPARING" -> <<"ON_THE_WAY", 1>>
    [] e.kind = "delivered" /\ order.status = "PREPARING" -> <<"DELIVERED", 2>>
    [] e.kind = "delivered" /\ order.status = "ON_THE_WAY" -> <<"DELIVERED", 1>>
    [] OTHER -> <<order.status, 0>>

RecordMilestone(e) ==
  /\ e \in events /\ Concerns(e)
  /\ Milestone(e)[2] > 0
  /\ order' = [order EXCEPT !.status = Milestone(e)[1], !.version = @ + Milestone(e)[2]]
  /\ UNCHANGED <<pool, route, events, run, tick, now, failures, outcomes>>

(* Time: the courier gets further on its route; others free a courier.     *)
Travel ==
  /\ route.state = "MOVING" /\ route.stage # "arrived"
  /\ PromptCalls => \A d \in Dispatcher : run[d].step \notin ServiceStep
  /\ route' = [route EXCEPT !.stage = IF @ = "toMarket" THEN "toCustomer" ELSE "arrived"]
  /\ UNCHANGED <<order, pool, events, run, tick, now, failures, outcomes>>

ComesBack(c) ==
  /\ courier[c] = "away"
  /\ courier' = [courier EXCEPT ![c] = "idle"]
  /\ UNCHANGED <<order, assignedAt, trip, route, events, run, tick, now, failures, outcomes>>

-----------------------------------------------------------------------------
Dispatch(d) ==
  \/ ReadQueue(d) \/ OthersFoundNone(d) \/ Ask(d) \/ Claim(d) \/ Winner(d) \/ FindRoute(d)
  \/ InsertRoute(d) \/ ReplaceRoute(d) \/ Bind(d) \/ Reread(d) \/ Wait(d)
  \/ Release(d) \/ Decide(d) \/ EndRoute(d) \/ EndReread(d) \/ Free(d)

MoveRoute(t) ==
  \/ ListMoving(t) \/ ReadCouriers(t) \/ Drop(t) \/ Advance(t) \/ Pick(t) \/ Tell(t) \/ Mark(t)
  \/ Record(t) \/ Confirm(t) \/ FreeCarrier(t) \/ Publish(t) \/ Done(t)

Reconcile(t) == ListCarrying(t) \/ ReadRoutes(t) \/ FreeStuck(t)

Next ==
  \/ \E d \in Dispatcher : Dispatch(d) \/ DispatchFails(d)
  \/ \E t \in Ticker : MoveRoute(t) \/ Reconcile(t) \/ TickFails(t)
  \/ \E e \in Event : RecordMilestone(e)
  \/ Travel
  \/ \E c \in Courier : ComesBack(c)

Spec == Init /\ [][Next]_vars

(* Turns are chained timers, events stay pending until acknowledged, time  *)
(* passes, and other orders give couriers back.  Every turn of a ticker    *)
(* comes to the routes, whether it reconciles before or not.               *)
FairSpec ==
  /\ Spec
  /\ \A d \in Dispatcher : WF_vars(Dispatch(d))
  /\ \A t \in Ticker : WF_vars(MoveRoute(t) \/ Reconcile(t))
  /\ \A e \in Event : WF_vars(RecordMilestone(e))
  /\ WF_vars(Travel)
  /\ \A c \in Courier : WF_vars(ComesBack(c))

-----------------------------------------------------------------------------
(* Properties.                                                             *)

(* Every variable keeps its type.                                          *)
TypeOK ==
  /\ order \in Order /\ route \in Route
  /\ courier \in [Courier -> {"idle", "busy", "away"}]
  /\ assignedAt \in [Courier -> Nat] /\ trip \in [Courier -> Nat]
  /\ events \subseteq Event /\ outcomes \subseteq Outcome
  /\ run \in [Dispatcher -> Run] /\ tick \in [Ticker -> Turn]
  /\ now \in Nat
  /\ failures \in [dispatch : 0..MaxDispatchFailures, tick : 0..MaxTickFailures]

(* A trip that was given back is not delivered, and a delivered one was not *)
(* given back: release-courier.ts and advance-route.ts decide on the route. *)
OneOutcome ==
  \A x, y \in outcomes : x.trip = y.trip => x.kind = y.kind

(* A courier's delivery is not published before its pick-up, although any   *)
(* ticker may stop anywhere (advance-route.ts, steps 2 and 3).             *)
PickupIsToldFirst ==
  \A e \in events :
    e.kind = "delivered" => [kind |-> "picked_up", courier |-> e.courier] \in events

(* An order that waits for its courier does not wait in vain: the courier   *)
(* carries it, or its delivery is recorded, about to be told, or told.     *)
BoundCourierComes ==
  order.status \in {"PREPARING", "ON_THE_WAY"} /\ order.courier # NoCourier =>
    \/ Carrying(order.courier)
    \/ route.courier = order.courier /\ route.state = "MOVING" /\ route.delivered
    \/ \E t \in Ticker : Doing(t, "publish") /\ tick[t].seen.courier = order.courier
    \/ [kind |-> "delivered", courier |-> order.courier] \in events

(* The order follows the state machine, and the courier written on it stays *)
(* (bindCourier with its version check, decideMilestone), whatever stale    *)
(* reads and late events its writers go by.                                *)
Lifecycle == INSTANCE OrderLifecycle WITH status <- order.status, version <- order.version
FollowsTable ==
  [][Lifecycle!Next /\ (order.courier # NoCourier => order'.courier = order.courier)]_order

(* A paid order is delivered in the end (courier-dispatcher.ts, ticker and  *)
(* milestones together).                                                   *)
PaidIsDelivered == <>(order.status = "DELIVERED")

(* No courier stays busy with this order for ever, whoever claimed it.     *)
CouriersComeFree == \A c \in Courier : Carrying(c) ~> ~Carrying(c)
=============================================================================
