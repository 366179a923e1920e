------------------------ MODULE CourierDispatchProofs ------------------------
(***************************************************************************)
(* What holds of one order and its couriers for any number of tickers and  *)
(* couriers.  Four arguments.  The document a dispatcher has read is the   *)
(* order itself as long as the version is the same, so a conditional write *)
(* is a transition of the table.  Whatever copy of the route a ticker      *)
(* works on, if the copy says that the pick-up was told, it was told of    *)
(* the courier the copy names.  A courier that was ever claimed carries    *)
(* the order until its delivery is told or the order is over.  And the     *)
(* route of a trip that has left is the one every copy of it names: nobody *)
(* stores another one, so who releases and who delivers decide on the same *)
(* document.                                                               *)
(***************************************************************************)
EXTENDS CourierDispatch, TLAPS

-----------------------------------------------------------------------------
(* The inductive invariant *)

PickedUp(c) == [kind |-> "picked_up", courier |-> c]
Told(r) == r.pickupPublished => PickedUp(r.courier) \in events

(* The order was written at least once, or is as the payment left it.      *)
OrderInv ==
  /\ order.version >= 1
  /\ order.version = 1 \/ order.status = "PAID" => order = Paid

(* What a dispatcher has read needed a courier, and is the order itself as *)
(* long as the version is the same.                                        *)
HasCourier == {"findRoute", "insert", "replace", "bind", "reread", "decide", "end", "endReread", "free"}
RunInv(r) ==
  /\ NeedsCourier(r.seen)
  /\ r.seen.version <= order.version
  /\ r.seen.version = order.version => r.seen = order
  /\ r.step \in HasCourier => r.courier \in Courier

(* A copy of a route tells the truth about the pick-up.                    *)
OffRoute == {"idle", "list", "routes", "freeStuck"}
AfterTelling == {"record", "confirm", "free", "publish", "done"}
TurnInv(w) ==
  /\ w.step \notin OffRoute => w.seen.courier \in Courier
  /\ Told(w.seen)
  /\ w.step \in AfterTelling => w.seen.pickupPublished
  /\ w.step = "mark" => PickedUp(w.seen.courier) \in events

RouteInv == Told(route) /\ (route.state # "NONE" => route.courier \in Courier)

IInv ==
  /\ TypeOK
  /\ OrderInv
  /\ \A d \in Dispatcher : RunInv(run[d])
  /\ RouteInv
  /\ \A t \in Ticker : TurnInv(tick[t])
  /\ PickupIsToldFirst

-----------------------------------------------------------------------------
(* Records *)

RunOf(step, seen, c, assigned, claim, since, stored, attempt) ==
  [step |-> step, seen |-> seen, courier |-> c, assigned |-> assigned,
   trip |-> claim, since |-> since, stored |-> stored, attempt |-> attempt]
TurnOf(step, seen, c, assigned) ==
  [step |-> step, seen |-> seen, courier |-> c, assigned |-> assigned]
RouteOf(c, createdAt, claim, state, stage, pickedUp, pickupPublished, delivered) ==
  [courier |-> c, createdAt |-> createdAt, trip |-> claim, state |-> state, stage |-> stage,
   pickedUp |-> pickedUp, pickupPublished |-> pickupPublished, delivered |-> delivered]

LEMMA RunsAreRecords ==
  /\ \A r \in Run :
       /\ r = RunOf(r.step, r.seen, r.courier, r.assigned, r.trip, r.since, r.stored, r.attempt)
       /\ r.step \in DispatchStep /\ r.seen \in Order /\ r.courier \in Courier \cup {NoCourier}
       /\ r.assigned \in Nat /\ r.trip \in Nat /\ r.since \in Nat /\ r.stored \in Route
       /\ r.attempt \in Nat
  /\ \A step \in DispatchStep, seen \in Order, c \in Courier \cup {NoCourier}, assigned \in Nat,
        claim \in Nat, since \in Nat, stored \in Route, attempt \in Nat :
       RunOf(step, seen, c, assigned, claim, since, stored, attempt) \in Run
<1> USE DEF Run, RunOf
<1> QED OBVIOUS

LEMMA RunsHaveFields ==
  ASSUME NEW r \in Run
  PROVE  \E a \in DispatchStep, b \in Order, c \in Courier \cup {NoCourier}, e \in Nat,
            f \in Nat, g \in Nat, h \in Route, i \in Nat : r = RunOf(a, b, c, e, f, g, h, i)
<1>1. /\ r.step \in DispatchStep /\ r.seen \in Order /\ r.courier \in Courier \cup {NoCourier}
      /\ r.assigned \in Nat /\ r.trip \in Nat /\ r.since \in Nat /\ r.stored \in Route
      /\ r.attempt \in Nat
  BY RunsAreRecords
<1>2. r = RunOf(r.step, r.seen, r.courier, r.assigned, r.trip, r.since, r.stored, r.attempt)
  BY RunsAreRecords
<1> QED BY <1>1, <1>2, Zenon

LEMMA TurnsAreRecords ==
  /\ \A w \in Turn :
       /\ w = TurnOf(w.step, w.seen, w.courier, w.assigned)
       /\ w.step \in TickStep /\ w.seen \in Route /\ w.courier \in Courier \cup {NoCourier}
       /\ w.assigned \in Nat
  /\ \A step \in TickStep, seen \in Route, c \in Courier \cup {NoCourier}, assigned \in Nat :
       TurnOf(step, seen, c, assigned) \in Turn
<1> USE DEF Turn, TurnOf
<1> QED OBVIOUS

RouteStates == {"NONE", "MOVING", "DONE", "ENDED"}

LEMMA RoutesAreRecords ==
  /\ \A r \in Route :
       /\ r = RouteOf(r.courier, r.createdAt, r.trip, r.state, r.stage, r.pickedUp,
                      r.pickupPublished, r.delivered)
       /\ r.courier \in Courier \cup {NoCourier} /\ r.createdAt \in Nat /\ r.trip \in Nat
       /\ r.state \in RouteStates /\ r.stage \in Stage
       /\ r.pickedUp \in BOOLEAN /\ r.pickupPublished \in BOOLEAN /\ r.delivered \in BOOLEAN
  /\ \A c \in Courier \cup {NoCourier}, createdAt \in Nat, claim \in Nat, state \in RouteStates,
        stage \in Stage, a, b, e \in BOOLEAN :
       RouteOf(c, createdAt, claim, state, stage, a, b, e) \in Route
<1> USE DEF Route, RouteOf, RouteStates
<1> QED OBVIOUS

LEMMA RoutesHaveFields ==
  ASSUME NEW r \in Route
  PROVE  \E a \in Courier \cup {NoCourier}, b \in Nat, c \in Nat, e \in RouteStates, f \in Stage,
            g \in BOOLEAN, h \in BOOLEAN, i \in BOOLEAN : r = RouteOf(a, b, c, e, f, g, h, i)
BY RoutesAreRecords

(* A patch writes one field of a route.                                    *)
WithState(r, x) == [r EXCEPT !.state = x]
WithStage(r, x) == [r EXCEPT !.stage = x]
WithPickUp(r, x) == [r EXCEPT !.pickedUp = x]
WithTold(r, x) == [r EXCEPT !.pickupPublished = x]
WithDelivery(r, x) == [r EXCEPT !.delivered = x]

LEMMA PatchesOfRoutes ==
  ASSUME NEW a, NEW b, NEW c, NEW e, NEW f, NEW g, NEW h, NEW i, NEW x
  PROVE  /\ WithState(RouteOf(a, b, c, e, f, g, h, i), x) = RouteOf(a, b, c, x, f, g, h, i)
         /\ WithStage(RouteOf(a, b, c, e, f, g, h, i), x) = RouteOf(a, b, c, e, x, g, h, i)
         /\ WithPickUp(RouteOf(a, b, c, e, f, g, h, i), x) = RouteOf(a, b, c, e, f, x, h, i)
         /\ WithTold(RouteOf(a, b, c, e, f, g, h, i), x) = RouteOf(a, b, c, e, f, g, x, i)
         /\ WithDelivery(RouteOf(a, b, c, e, f, g, h, i), x) = RouteOf(a, b, c, e, f, g, h, x)
BY DEF RouteOf, WithState, WithStage, WithPickUp, WithTold, WithDelivery

LEMMA FieldsOfRouteOf ==
  ASSUME NEW a, NEW b, NEW c, NEW e, NEW f, NEW g, NEW h, NEW i
  PROVE  /\ RouteOf(a, b, c, e, f, g, h, i).courier = a
         /\ RouteOf(a, b, c, e, f, g, h, i).state = e
         /\ RouteOf(a, b, c, e, f, g, h, i).pickupPublished = h
BY DEF RouteOf

(* It keeps the type, the courier, and all other fields.                   *)
LEMMA PatchKeeps ==
  ASSUME NEW r \in Route
  PROVE  /\ \A x \in RouteStates :
              /\ WithState(r, x) \in Route /\ WithState(r, x).courier = r.courier
              /\ WithState(r, x).pickupPublished = r.pickupPublished
         /\ \A x \in Stage :
              /\ WithStage(r, x) \in Route /\ WithStage(r, x).courier = r.courier
              /\ WithStage(r, x).pickupPublished = r.pickupPublished
              /\ WithStage(r, x).state = r.state
         /\ \A x \in BOOLEAN :
              /\ WithPickUp(r, x) \in Route /\ WithPickUp(r, x).courier = r.courier
              /\ WithPickUp(r, x).pickupPublished = r.pickupPublished
              /\ WithPickUp(r, x).state = r.state
         /\ \A x \in BOOLEAN :
              /\ WithDelivery(r, x) \in Route /\ WithDelivery(r, x).courier = r.courier
              /\ WithDelivery(r, x).pickupPublished = r.pickupPublished
              /\ WithDelivery(r, x).state = r.state
         /\ \A x \in BOOLEAN :
              /\ WithTold(r, x) \in Route /\ WithTold(r, x).courier = r.courier
              /\ WithTold(r, x).state = r.state
<1>1. PICK a \in Courier \cup {NoCourier}, b \in Nat, c \in Nat, e \in RouteStates, f \in Stage,
           g \in BOOLEAN, h \in BOOLEAN, i \in BOOLEAN : r = RouteOf(a, b, c, e, f, g, h, i)
  BY RoutesHaveFields
<1>2. r.courier = a /\ r.state = e /\ r.pickupPublished = h
  BY <1>1, FieldsOfRouteOf
<1>3. ASSUME NEW x \in RouteStates
      PROVE  WithState(r, x) = RouteOf(a, b, c, x, f, g, h, i) /\ RouteOf(a, b, c, x, f, g, h, i) \in Route
  <2>1. WithState(r, x) = RouteOf(a, b, c, x, f, g, h, i)
    BY <1>1, PatchesOfRoutes
  <2>2. RouteOf(a, b, c, x, f, g, h, i) \in Route
    BY RoutesAreRecords
  <2> QED BY <2>1, <2>2
<1>4. ASSUME NEW x \in Stage
      PROVE  WithStage(r, x) = RouteOf(a, b, c, e, x, g, h, i) /\ RouteOf(a, b, c, e, x, g, h, i) \in Route
  <2>1. WithStage(r, x) = RouteOf(a, b, c, e, x, g, h, i)
    BY <1>1, PatchesOfRoutes
  <2>2. RouteOf(a, b, c, e, x, g, h, i) \in Route
    BY RoutesAreRecords
  <2> QED BY <2>1, <2>2
<1>5. ASSUME NEW x \in BOOLEAN
      PROVE  WithPickUp(r, x) = RouteOf(a, b, c, e, f, x, h, i) /\ RouteOf(a, b, c, e, f, x, h, i) \in Route
  <2>1. WithPickUp(r, x) = RouteOf(a, b, c, e, f, x, h, i)
    BY <1>1, PatchesOfRoutes
  <2>2. RouteOf(a, b, c, e, f, x, h, i) \in Route
    BY RoutesAreRecords
  <2> QED BY <2>1, <2>2
<1>6. ASSUME NEW x \in BOOLEAN
      PROVE  WithDelivery(r, x) = RouteOf(a, b, c, e, f, g, h, x) /\ RouteOf(a, b, c, e, f, g, h, x) \in Route
  <2>1. WithDelivery(r, x) = RouteOf(a, b, c, e, f, g, h, x)
    BY <1>1, PatchesOfRoutes
  <2>2. RouteOf(a, b, c, e, f, g, h, x) \in Route
    BY RoutesAreRecords
  <2> QED BY <2>1, <2>2
<1>7. ASSUME NEW x \in BOOLEAN
      PROVE  WithTold(r, x) = RouteOf(a, b, c, e, f, g, x, i) /\ RouteOf(a, b, c, e, f, g, x, i) \in Route
  <2>1. WithTold(r, x) = RouteOf(a, b, c, e, f, g, x, i)
    BY <1>1, PatchesOfRoutes
  <2>2. RouteOf(a, b, c, e, f, g, x, i) \in Route
    BY RoutesAreRecords
  <2> QED BY <2>1, <2>2
<1> QED BY <1>2, <1>3, <1>4, <1>5, <1>6, <1>7, FieldsOfRouteOf

-----------------------------------------------------------------------------
(* Dispatchers *)

StepTo(r, x) == [r EXCEPT !.step = x]
Reads(r, x) == [r EXCEPT !.seen = x]
Takes(r, x) == [r EXCEPT !.courier = x]
AssignedTo(r, x) == [r EXCEPT !.assigned = x]
OnTrip(r, x) == [r EXCEPT !.trip = x]
Since(r, x) == [r EXCEPT !.since = x]
Stores(r, x) == [r EXCEPT !.stored = x]
Attempts(r, x) == [r EXCEPT !.attempt = x]

LEMMA PatchesOfRuns ==
  ASSUME NEW a, NEW b, NEW c, NEW e, NEW f, NEW g, NEW h, NEW i, NEW x
  PROVE  /\ StepTo(RunOf(a, b, c, e, f, g, h, i), x) = RunOf(x, b, c, e, f, g, h, i)
         /\ Reads(RunOf(a, b, c, e, f, g, h, i), x) = RunOf(a, x, c, e, f, g, h, i)
         /\ Takes(RunOf(a, b, c, e, f, g, h, i), x) = RunOf(a, b, x, e, f, g, h, i)
         /\ AssignedTo(RunOf(a, b, c, e, f, g, h, i), x) = RunOf(a, b, c, x, f, g, h, i)
         /\ OnTrip(RunOf(a, b, c, e, f, g, h, i), x) = RunOf(a, b, c, e, x, g, h, i)
         /\ Since(RunOf(a, b, c, e, f, g, h, i), x) = RunOf(a, b, c, e, f, x, h, i)
         /\ Stores(RunOf(a, b, c, e, f, g, h, i), x) = RunOf(a, b, c, e, f, g, x, i)
         /\ Attempts(RunOf(a, b, c, e, f, g, h, i), x) = RunOf(a, b, c, e, f, g, h, x)
BY DEF RunOf, StepTo, Reads, Takes, AssignedTo, OnTrip, Since, Stores, Attempts

LEMMA FieldsOfRunOf ==
  ASSUME NEW a, NEW b, NEW c, NEW e, NEW f, NEW g, NEW h, NEW i
  PROVE  /\ RunOf(a, b, c, e, f, g, h, i).step = a /\ RunOf(a, b, c, e, f, g, h, i).seen = b
         /\ RunOf(a, b, c, e, f, g, h, i).courier = c /\ RunOf(a, b, c, e, f, g, h, i).assigned = e
         /\ RunOf(a, b, c, e, f, g, h, i).trip = f /\ RunOf(a, b, c, e, f, g, h, i).since = g
         /\ RunOf(a, b, c, e, f, g, h, i).stored = h
BY DEF RunOf

LEMMA PaidIsAnOrder == Paid \in Order /\ Paid.version = 1 /\ Paid.status = "PAID" /\ NeedsCourier(Paid)
BY DEF Paid, Order, NeedsCourier

LEMMA NoRouteIsARoute == NoRoute \in Route /\ ~NoRoute.pickupPublished
BY DEF NoRoute, Route, Stage

LEMMA IdleIsARun ==
  /\ Idle = RunOf("idle", Paid, NoCourier, 0, 0, 0, NoRoute, 0)
  /\ Idle \in Run
<1>1. Idle = RunOf("idle", Paid, NoCourier, 0, 0, 0, NoRoute, 0)
  BY DEF Idle, RunOf
<1>2. RunOf("idle", Paid, NoCourier, 0, 0, 0, NoRoute, 0) \in Run
  <2>1. "idle" \in DispatchStep
    BY DEF DispatchStep
  <2> QED BY <2>1, RunsAreRecords, PaidIsAnOrder, NoRouteIsARoute
<1> QED BY <1>1, <1>2

(* The dispatcher goes to a step and has read and holds what it had.       *)
Becomes(d, step, seen, c) ==
  \E r \in Run : Become(d, r) /\ r.step = step /\ r.seen = seen /\ r.courier = c

(* The same with what it knows of the claim and of the stored route.       *)
Holding(d, step, c, assigned, n, since, stored) ==
  \E r \in Run : /\ Become(d, r) /\ r.step = step /\ r.courier = c
                 /\ r.assigned = assigned /\ r.trip = n /\ r.since = since /\ r.stored = stored

LEMMA GotoMoves ==
  ASSUME NEW d \in Dispatcher, run \in [Dispatcher -> Run], NEW x \in DispatchStep, Goto(d, x)
  PROVE  /\ Becomes(d, x, run[d].seen, run[d].courier)
         /\ Holding(d, x, run[d].courier, run[d].assigned, run[d].trip, run[d].since, run[d].stored)
<1>1. Become(d, StepTo(run[d], x))
  BY DEF Goto, Become, StepTo
<1>2. PICK a \in DispatchStep, b \in Order, c \in Courier \cup {NoCourier}, e \in Nat,
           f \in Nat, g \in Nat, h \in Route, i \in Nat :
        run[d] = RunOf(a, b, c, e, f, g, h, i)
  <2>1. run[d] \in Run
    OBVIOUS
  <2> QED BY <2>1, RunsHaveFields
<1>2a. RunOf(x, b, c, e, f, g, h, i) \in Run
  BY <1>2, RunsAreRecords DEF DispatchStep, ServiceStep
<1> DEFINE r == RunOf(x, b, c, e, f, g, h, i)
<1>3. StepTo(run[d], x) = r
  BY <1>2, PatchesOfRuns
<1>4. /\ r.step = x /\ r.seen = run[d].seen /\ r.courier = run[d].courier
      /\ r.assigned = run[d].assigned /\ r.trip = run[d].trip /\ r.since = run[d].since /\ r.stored = run[d].stored
  BY <1>2, FieldsOfRunOf
<1> HIDE DEF r
<1> QED BY <1>1, <1>2a, <1>3, <1>4 DEF Becomes, Holding, r

LEMMA FoundMoves ==
  ASSUME NEW d \in Dispatcher, run \in [Dispatcher -> Run], NEW x \in DispatchStep, NEW c \in Courier,
         assignedAt[c] \in Nat, trip[c] \in Nat, Found(d, c, x)
  PROVE  /\ Becomes(d, x, run[d].seen, c)
         /\ Holding(d, x, c, assignedAt[c], trip[c], run[d].since, run[d].stored)
<1>1. Become(d, OnTrip(AssignedTo(Takes(StepTo(run[d], x), c), assignedAt[c]), trip[c]))
  BY DEF Found, Become, StepTo, Takes, AssignedTo, OnTrip
<1>2. PICK a \in DispatchStep, b \in Order, k \in Courier \cup {NoCourier}, e \in Nat,
           f \in Nat, g \in Nat, h \in Route, i \in Nat :
        run[d] = RunOf(a, b, k, e, f, g, h, i)
  <2>1. run[d] \in Run
    OBVIOUS
  <2> QED BY <2>1, RunsHaveFields
<1>2a. RunOf(x, b, c, assignedAt[c], trip[c], g, h, i) \in Run
  BY <1>2, RunsAreRecords DEF DispatchStep, ServiceStep
<1> DEFINE r == RunOf(x, b, c, assignedAt[c], trip[c], g, h, i)
<1>3. OnTrip(AssignedTo(Takes(StepTo(run[d], x), c), assignedAt[c]), trip[c]) = r
  BY <1>2, PatchesOfRuns
<1>4. /\ r.step = x /\ r.seen = run[d].seen /\ r.courier = c
      /\ r.assigned = assignedAt[c] /\ r.trip = trip[c] /\ r.since = run[d].since /\ r.stored = run[d].stored
  BY <1>2, FieldsOfRunOf
<1> HIDE DEF r
<1> QED BY <1>1, <1>2a, <1>3, <1>4 DEF Becomes, Holding, r

LEMMA SinceMoves ==
  ASSUME NEW d \in Dispatcher, run \in [Dispatcher -> Run], NEW x \in DispatchStep, NEW n \in Nat,
         run' = [run EXCEPT ![d].step = x, ![d].since = n]
  PROVE  /\ Becomes(d, x, run[d].seen, run[d].courier)
         /\ Holding(d, x, run[d].courier, run[d].assigned, run[d].trip, n, run[d].stored)
<1>1. Become(d, Since(StepTo(run[d], x), n))
  BY DEF Become, StepTo, Since
<1>2. PICK a \in DispatchStep, b \in Order, c \in Courier \cup {NoCourier}, e \in Nat,
           f \in Nat, g \in Nat, h \in Route, i \in Nat :
        run[d] = RunOf(a, b, c, e, f, g, h, i)
  <2>1. run[d] \in Run
    OBVIOUS
  <2> QED BY <2>1, RunsHaveFields
<1>2a. RunOf(x, b, c, e, f, n, h, i) \in Run
  BY <1>2, RunsAreRecords DEF DispatchStep, ServiceStep
<1> DEFINE r == RunOf(x, b, c, e, f, n, h, i)
<1>3. Since(StepTo(run[d], x), n) = r
  BY <1>2, PatchesOfRuns
<1>4. /\ r.step = x /\ r.seen = run[d].seen /\ r.courier = run[d].courier
      /\ r.assigned = run[d].assigned /\ r.trip = run[d].trip /\ r.since = n /\ r.stored = run[d].stored
  BY <1>2, FieldsOfRunOf
<1> HIDE DEF r
<1> QED BY <1>1, <1>2a, <1>3, <1>4 DEF Becomes, Holding, r

LEMMA ClaimMoves ==
  ASSUME NEW d \in Dispatcher, run \in [Dispatcher -> Run], NEW c \in Courier, NEW at \in Nat, NEW n \in Nat,
         run' = [run EXCEPT ![d].step = "findRoute", ![d].courier = c, ![d].assigned = at,
                            ![d].trip = n, ![d].since = 0]
  PROVE  /\ Becomes(d, "findRoute", run[d].seen, c)
         /\ Holding(d, "findRoute", c, at, n, 0, run[d].stored)
<1>1. Become(d, Since(OnTrip(AssignedTo(Takes(StepTo(run[d], "findRoute"), c), at), n), 0))
  BY DEF Become, StepTo, Takes, AssignedTo, OnTrip, Since
<1>2. PICK a \in DispatchStep, b \in Order, k \in Courier \cup {NoCourier}, e \in Nat,
           f \in Nat, g \in Nat, h \in Route, i \in Nat :
        run[d] = RunOf(a, b, k, e, f, g, h, i)
  <2>1. run[d] \in Run
    OBVIOUS
  <2> QED BY <2>1, RunsHaveFields
<1>2a. RunOf("findRoute", b, c, at, n, 0, h, i) \in Run
  BY <1>2, RunsAreRecords DEF DispatchStep, ServiceStep
<1> DEFINE r == RunOf("findRoute", b, c, at, n, 0, h, i)
<1>3. Since(OnTrip(AssignedTo(Takes(StepTo(run[d], "findRoute"), c), at), n), 0) = r
  BY <1>2, PatchesOfRuns
<1>4. /\ r.step = "findRoute" /\ r.seen = run[d].seen /\ r.courier = c
      /\ r.assigned = at /\ r.trip = n /\ r.since = 0 /\ r.stored = run[d].stored
  BY <1>2, FieldsOfRunOf
<1> HIDE DEF r
<1> QED BY <1>1, <1>2a, <1>3, <1>4 DEF Becomes, Holding, r

LEMMA StoreMoves ==
  ASSUME NEW d \in Dispatcher, run \in [Dispatcher -> Run], NEW s \in Route,
         run' = [run EXCEPT ![d].step = "end", ![d].stored = s]
  PROVE  /\ Becomes(d, "end", run[d].seen, run[d].courier)
         /\ Holding(d, "end", run[d].courier, run[d].assigned, run[d].trip, run[d].since, s)
<1>1. Become(d, Stores(StepTo(run[d], "end"), s))
  BY DEF Become, StepTo, Stores
<1>2. PICK a \in DispatchStep, b \in Order, c \in Courier \cup {NoCourier}, e \in Nat,
           f \in Nat, g \in Nat, h \in Route, i \in Nat :
        run[d] = RunOf(a, b, c, e, f, g, h, i)
  <2>1. run[d] \in Run
    OBVIOUS
  <2> QED BY <2>1, RunsHaveFields
<1>2a. RunOf("end", b, c, e, f, g, s, i) \in Run
  BY <1>2, RunsAreRecords DEF DispatchStep, ServiceStep
<1> DEFINE r == RunOf("end", b, c, e, f, g, s, i)
<1>3. Stores(StepTo(run[d], "end"), s) = r
  BY <1>2, PatchesOfRuns
<1>4. /\ r.step = "end" /\ r.seen = run[d].seen /\ r.courier = run[d].courier
      /\ r.assigned = run[d].assigned /\ r.trip = run[d].trip /\ r.since = run[d].since /\ r.stored = s
  BY <1>2, FieldsOfRunOf
<1> HIDE DEF r
<1> QED BY <1>1, <1>2a, <1>3, <1>4 DEF Becomes, Holding, r

LEMMA RereadMoves ==
  ASSUME NEW d \in Dispatcher, run \in [Dispatcher -> Run], NEW o \in Order,
         run' = [run EXCEPT ![d].step = "bind", ![d].seen = o, ![d].attempt = @ + 1]
  PROVE  /\ Becomes(d, "bind", o, run[d].courier)
         /\ Holding(d, "bind", run[d].courier, run[d].assigned, run[d].trip, run[d].since, run[d].stored)
<1>1. run' = [run EXCEPT ![d].step = "bind", ![d].seen = o, ![d].attempt = run[d].attempt + 1]
  OBVIOUS
<1>2. Become(d, Attempts(Reads(StepTo(run[d], "bind"), o), run[d].attempt + 1))
  BY <1>1 DEF Become, StepTo, Reads, Attempts
<1>3. PICK n \in Nat : n = run[d].attempt + 1
  BY RunsAreRecords
<1>4. PICK a \in DispatchStep, b \in Order, c \in Courier \cup {NoCourier}, e \in Nat,
           f \in Nat, g \in Nat, h \in Route, i \in Nat :
        run[d] = RunOf(a, b, c, e, f, g, h, i)
  <2>1. run[d] \in Run
    OBVIOUS
  <2> QED BY <2>1, RunsHaveFields
<1>4a. RunOf("bind", o, c, e, f, g, h, n) \in Run
  BY <1>4, RunsAreRecords DEF DispatchStep, ServiceStep
<1> DEFINE r == RunOf("bind", o, c, e, f, g, h, n)
<1>5. Attempts(Reads(StepTo(run[d], "bind"), o), n) = r
  BY <1>4, PatchesOfRuns
<1>6. /\ r.step = "bind" /\ r.seen = o /\ r.courier = run[d].courier
      /\ r.assigned = run[d].assigned /\ r.trip = run[d].trip /\ r.since = run[d].since /\ r.stored = run[d].stored
  BY <1>4, FieldsOfRunOf
<1> HIDE DEF r
<1> QED BY <1>2, <1>3, <1>4a, <1>5, <1>6 DEF Becomes, Holding, r

(* Fresh records: the dispatcher is at the end, or forgets all but a few fields. *)
LEMMA IdleBut ==
  /\ \A x \in DispatchStep :
       /\ [Idle EXCEPT !.step = x] \in Run
       /\ [Idle EXCEPT !.step = x].step = x /\ [Idle EXCEPT !.step = x].seen = Paid
  /\ \A x \in DispatchStep, o \in Order :
       /\ [Idle EXCEPT !.step = x, !.seen = o] \in Run
       /\ [Idle EXCEPT !.step = x, !.seen = o].step = x /\ [Idle EXCEPT !.step = x, !.seen = o].seen = o
  /\ \A o \in Order, c \in Courier \cup {NoCourier} :
       /\ [Idle EXCEPT !.step = "bind", !.seen = o, !.courier = c, !.attempt = 1] \in Run
       /\ [Idle EXCEPT !.step = "bind", !.seen = o, !.courier = c, !.attempt = 1].seen = o
       /\ [Idle EXCEPT !.step = "bind", !.seen = o, !.courier = c, !.attempt = 1].courier = c
<1> USE IdleIsARun
<1>1. ASSUME NEW x \in DispatchStep
      PROVE  /\ [Idle EXCEPT !.step = x] \in Run
             /\ [Idle EXCEPT !.step = x].step = x /\ [Idle EXCEPT !.step = x].seen = Paid
  <2>1. StepTo(Idle, x) = RunOf(x, Paid, NoCourier, 0, 0, 0, NoRoute, 0)
    BY PatchesOfRuns
  <2>2. RunOf(x, Paid, NoCourier, 0, 0, 0, NoRoute, 0) \in Run
    BY RunsAreRecords, PaidIsAnOrder, NoRouteIsARoute
  <2>3. StepTo(Idle, x) \in Run /\ StepTo(Idle, x).step = x /\ StepTo(Idle, x).seen = Paid
    BY <2>1, <2>2, FieldsOfRunOf
  <2> QED BY <2>3 DEF StepTo
<1>2. ASSUME NEW x \in DispatchStep, NEW o \in Order
      PROVE  /\ [Idle EXCEPT !.step = x, !.seen = o] \in Run
             /\ [Idle EXCEPT !.step = x, !.seen = o].step = x
             /\ [Idle EXCEPT !.step = x, !.seen = o].seen = o
  <2>1. Reads(StepTo(Idle, x), o) = RunOf(x, o, NoCourier, 0, 0, 0, NoRoute, 0)
    BY PatchesOfRuns
  <2>2. RunOf(x, o, NoCourier, 0, 0, 0, NoRoute, 0) \in Run
    BY RunsAreRecords, NoRouteIsARoute
  <2>3. /\ Reads(StepTo(Idle, x), o) \in Run
        /\ Reads(StepTo(Idle, x), o).step = x /\ Reads(StepTo(Idle, x), o).seen = o
    BY <2>1, <2>2, FieldsOfRunOf
  <2> QED BY <2>3 DEF StepTo, Reads
<1>3. ASSUME NEW o \in Order, NEW c \in Courier \cup {NoCourier}
      PROVE  /\ [Idle EXCEPT !.step = "bind", !.seen = o, !.courier = c, !.attempt = 1] \in Run
             /\ [Idle EXCEPT !.step = "bind", !.seen = o, !.courier = c, !.attempt = 1].seen = o
             /\ [Idle EXCEPT !.step = "bind", !.seen = o, !.courier = c, !.attempt = 1].courier = c
  <2> DEFINE r == Attempts(Takes(Reads(StepTo(Idle, "bind"), o), c), 1)
  <2>1. r = RunOf("bind", o, c, 0, 0, 0, NoRoute, 1)
    BY PatchesOfRuns
  <2>2. RunOf("bind", o, c, 0, 0, 0, NoRoute, 1) \in Run
    <3>1. "bind" \in DispatchStep
      BY DEF DispatchStep
    <3> QED BY <3>1, RunsAreRecords, NoRouteIsARoute
  <2>3. r \in Run /\ r.seen = o /\ r.courier = c
    <3> HIDE DEF r
    <3> QED BY <2>1, <2>2, FieldsOfRunOf
  <2> QED BY <2>3 DEF StepTo, Reads, Takes, Attempts
<1> QED BY <1>1, <1>2, <1>3

(* What a dispatcher may have read and hold after its step.                *)
Sensible(d, r) ==
  /\ \/ r.seen = run[d].seen \/ r.seen = Paid
     \/ r.seen = order /\ NeedsCourier(order) /\ order' = order
  /\ r.step \in HasCourier => r.courier \in Courier

LEMMA RunMoves ==
  ASSUME TypeOK, NEW d \in Dispatcher, RunInv(run[d]), Dispatch(d) \/ DispatchFails(d)
  PROVE  \E r \in Run : Become(d, r) /\ Sensible(d, r)
<1>0. /\ run \in [Dispatcher -> Run] /\ order \in Order /\ now \in Nat /\ route \in Route
      /\ \A c \in Courier : assignedAt[c] \in Nat /\ trip[c] \in Nat
      /\ Carriers \subseteq Courier /\ Pool \subseteq Courier
  BY DEF TypeOK, Carriers, Pool
<1>1. run[d] \in Run /\ run[d].seen \in Order /\ run[d].courier \in Courier \cup {NoCourier}
  BY <1>0, RunsAreRecords
<1>2. \A c : run[d].step \in HasCourier => run[d].courier \in Courier
  BY DEF RunInv
<1>3. ASSUME Finish(d) PROVE \E r \in Run : Become(d, r) /\ Sensible(d, r)
  <2>1. Idle.seen = Paid /\ Idle.step \notin HasCourier /\ Idle \in Run
    BY IdleIsARun, FieldsOfRunOf DEF HasCourier
  <2> QED BY <1>3, <2>1 DEF Finish, Sensible
<1>4. ASSUME NEW x \in DispatchStep, NEW c, Becomes(d, x, run[d].seen, c),
             x \in HasCourier => c \in Courier
      PROVE  \E r \in Run : Become(d, r) /\ Sensible(d, r)
  BY <1>4 DEF Becomes, Sensible
<1>5. ASSUME NEW x \in DispatchStep, Goto(d, x), x \in HasCourier => run[d].courier \in Courier
      PROVE  \E r \in Run : Become(d, r) /\ Sensible(d, r)
  BY <1>0, <1>4, <1>5, GotoMoves
<1>6. ASSUME NEW x \in DispatchStep, NEW c \in Carriers, Found(d, c, x)
      PROVE  \E r \in Run : Become(d, r) /\ Sensible(d, r)
  BY <1>0, <1>4, <1>6, FoundMoves
<1>7. ASSUME NEW x \in DispatchStep, run' = [run EXCEPT ![d].step = x, ![d].since = now],
             x \in HasCourier => run[d].courier \in Courier
      PROVE  \E r \in Run : Become(d, r) /\ Sensible(d, r)
  BY <1>0, <1>4, <1>7, SinceMoves
<1>8. ASSUME Answer(d), run[d].courier \in Courier
      PROVE  \E r \in Run : Become(d, r) /\ Sensible(d, r)
  <2> DEFINE r == [Idle EXCEPT !.step = "bind", !.seen = run[d].seen, !.courier = run[d].courier,
                               !.attempt = 1]
  <2>1. r \in Run /\ r.seen = run[d].seen /\ r.courier = run[d].courier /\ Become(d, r)
    BY <1>1, <1>8, IdleBut DEF Answer
  <2> HIDE DEF r
  <2> QED BY <1>8, <2>1 DEF Sensible
<1>9. DispatchStep = {"idle", "ask", "bind", "reread", "wait", "release", "claim", "conflict", "none",
                      "findRoute", "insert", "replace", "decide", "end", "endReread", "free"}
  BY DEF DispatchStep, ServiceStep
<1>10. CASE ReadQueue(d)
  <2> DEFINE r == [Idle EXCEPT !.step = "ask", !.seen = order]
  <2>1. r \in Run /\ r.step = "ask" /\ r.seen = order
    <3>1. "ask" \in DispatchStep
      BY <1>9
    <3> QED BY <1>0, <3>1, IdleBut, Zenon
  <2>2. Become(d, r) /\ NeedsCourier(order) /\ order' = order
    BY <1>10 DEF ReadQueue
  <2>3. r.step \notin HasCourier
    BY <2>1 DEF HasCourier
  <2> HIDE DEF r
  <2> QED BY <2>1, <2>2, <2>3 DEF Sensible
<1>11. CASE OthersFoundNone(d)
  BY <1>5, <1>9, <1>11 DEF OthersFoundNone, HasCourier
<1>12. CASE Ask(d)
  BY <1>6, <1>7, <1>9, <1>12 DEF Ask, HasCourier
<1>13. CASE Claim(d)
  <2>1. ASSUME NEW c \in Pool, NEW at \in run[d].since..now,
               run' = [run EXCEPT ![d].step = "findRoute", ![d].courier = c, ![d].assigned = at,
                                  ![d].trip = now, ![d].since = 0]
        PROVE  \E r \in Run : Become(d, r) /\ Sensible(d, r)
    <3>1. at \in Nat
      BY <1>0, <1>1, RunsAreRecords
    <3>2. Becomes(d, "findRoute", run[d].seen, c)
      BY <1>0, <2>1, <3>1, ClaimMoves
    <3> QED BY <1>0, <1>4, <1>9, <3>2
  <2>2. Goto(d, "conflict") \/ Goto(d, "none") => \E r \in Run : Become(d, r) /\ Sensible(d, r)
    BY <1>5, <1>9 DEF HasCourier
  <2> QED BY <1>13, <2>1, <2>2 DEF Claim
<1>14. CASE Winner(d)
  <2>1. ASSUME Become(d, [Idle EXCEPT !.step = "wait", !.seen = run[d].seen])
        PROVE  \E r \in Run : Become(d, r) /\ Sensible(d, r)
    <3> DEFINE r == [Idle EXCEPT !.step = "wait", !.seen = run[d].seen]
    <3>1. r \in Run /\ r.step = "wait" /\ r.seen = run[d].seen
      <4>1. "wait" \in DispatchStep
        BY <1>9
      <4> QED BY <1>1, <4>1, IdleBut, Zenon
    <3>2. Become(d, r)
      BY <2>1
    <3>3. r.step \notin HasCourier
      BY <3>1 DEF HasCourier
    <3> HIDE DEF r
    <3> QED BY <3>1, <3>2, <3>3 DEF Sensible
  <2> QED BY <1>3, <1>6, <1>9, <1>14, <2>1 DEF Winner
<1>15. CASE FindRoute(d)
  <2>1. run[d].courier \in Courier
    BY <1>2, <1>15 DEF FindRoute, At, HasCourier
  <2> QED BY <1>7, <1>8, <1>9, <1>15, <2>1 DEF FindRoute
<1>16. CASE InsertRoute(d) \/ ReplaceRoute(d)
  <2>1. run[d].courier \in Courier
    BY <1>2, <1>16 DEF InsertRoute, ReplaceRoute, At, HasCourier
  <2> QED BY <1>8, <1>16, <2>1 DEF InsertRoute, ReplaceRoute
<1>17. CASE Bind(d)
  <2>1. run[d].courier \in Courier
    BY <1>2, <1>17 DEF Bind, At, HasCourier
  <2> QED BY <1>3, <1>5, <1>9, <1>17, <2>1 DEF Bind
<1>18. CASE Reread(d)
  <2>1. run[d].courier \in Courier /\ order' = order
    BY <1>2, <1>18 DEF Reread, At, HasCourier
  <2>2. ASSUME Become(d, [Idle EXCEPT !.step = "release"])
        PROVE  \E r \in Run : Become(d, r) /\ Sensible(d, r)
    <3> DEFINE r == [Idle EXCEPT !.step = "release"]
    <3>1. r \in Run /\ r.step = "release" /\ r.seen = Paid /\ Become(d, r)
      BY <1>9, <2>2, IdleBut
    <3>2. r.step \notin HasCourier
      BY <3>1 DEF HasCourier
    <3> HIDE DEF r
    <3> QED BY <3>1, <3>2 DEF Sensible
  <2>3. ASSUME NeedsCourier(order),
               run' = [run EXCEPT ![d].step = "bind", ![d].seen = order, ![d].attempt = @ + 1]
        PROVE  \E r \in Run : Become(d, r) /\ Sensible(d, r)
    <3>1. Becomes(d, "bind", order, run[d].courier)
      BY <1>0, <2>3, RereadMoves
    <3> QED BY <2>1, <2>3, <3>1 DEF Becomes, Sensible
  <2> QED BY <1>3, <1>18, <2>2, <2>3 DEF Reread
<1>19. CASE Wait(d)
  BY <1>3, <1>19 DEF Wait
<1>20. CASE Release(d)
  BY <1>3, <1>6, <1>9, <1>20 DEF Release
<1>21. CASE Decide(d) \/ EndRoute(d) \/ EndReread(d)
  <2>1. run[d].courier \in Courier
    BY <1>2, <1>21 DEF Decide, EndRoute, EndReread, At, HasCourier
  <2>2. Goto(d, "free") \/ Goto(d, "endReread") => \E r \in Run : Become(d, r) /\ Sensible(d, r)
    BY <1>5, <1>9, <2>1
  <2>3. ASSUME run' = [run EXCEPT ![d].step = "end", ![d].stored = route]
        PROVE  \E r \in Run : Become(d, r) /\ Sensible(d, r)
    <3>1. Becomes(d, "end", run[d].seen, run[d].courier)
      BY <1>0, <2>3, StoreMoves
    <3> QED BY <1>4, <1>9, <2>1, <3>1
  <2> QED BY <1>3, <1>21, <2>2, <2>3 DEF Decide, EndRoute, EndReread
<1>22. CASE Free(d) \/ DispatchFails(d)
  BY <1>3, <1>22 DEF Free, DispatchFails
<1> QED
  BY <1>10, <1>11, <1>12, <1>13, <1>14, <1>15, <1>16, <1>17, <1>18, <1>19, <1>20, <1>21, <1>22
  DEF Dispatch

-----------------------------------------------------------------------------
(* The order *)

(* One write of the order.                                                 *)
Writes ==
  /\ order' \in Order /\ order'.version > order.version /\ order'.status # "PAID"
  /\ order.courier # NoCourier => order'.courier = order.courier
  /\ Lifecycle!Next

LEMMA PreparingIsWritten ==
  ASSUME TypeOK, OrderInv, NeedsCourier(order), NEW c \in Courier \cup {NoCourier},
         order' = Preparing(order, c)
  PROVE  Writes
<1>1. order \in Order /\ order.version \in Nat /\ order.courier \in Courier \cup {NoCourier}
  BY DEF TypeOK, Order
<1>2. /\ order'.status = "PREPARING" /\ order'.courier = c /\ order'.version = order.version + 1
      /\ order' \in Order
  BY <1>1 DEF Preparing, Order
<1>3. order.courier = NoCourier
  BY DEF NeedsCourier, OrderInv, Paid
<1>4. order'.version > order.version
  BY <1>1, <1>2
<1>5. CASE order.status = "PAID"
  <2>1. "PREPARING" \in Lifecycle!ORDER_TRANSITIONS["PAID"]
    BY DEF Lifecycle!ORDER_TRANSITIONS
  <2>2. order'.status \in Lifecycle!Successors({order.status})
    BY <1>2, <1>5, <2>1 DEF Lifecycle!Successors
  <2>3. Lifecycle!Next
    BY <1>2, <2>2 DEF Lifecycle!Next, Lifecycle!Transition
  <2> QED BY <1>2, <1>3, <1>4, <2>3 DEF Writes
<1>6. CASE order.status = "PREPARING"
  <2>1. Lifecycle!Next
    BY <1>2, <1>6 DEF Lifecycle!Next, Lifecycle!Annotate
  <2> QED BY <1>2, <1>3, <1>4, <2>1 DEF Writes
<1> QED BY <1>5, <1>6 DEF NeedsCourier

OrderOf(s, c, v) == [status |-> s, courier |-> c, version |-> v]
WithStatus(o, x) == [o EXCEPT !.status = x]
WithVersion(o, x) == [o EXCEPT !.version = x]

LEMMA PatchesOfOrders ==
  ASSUME NEW s, NEW c, NEW v, NEW x
  PROVE  /\ WithStatus(OrderOf(s, c, v), x) = OrderOf(x, c, v)
         /\ WithVersion(OrderOf(s, c, v), x) = OrderOf(s, c, x)
BY DEF OrderOf, WithStatus, WithVersion

LEMMA MilestoneIsWritten ==
  ASSUME TypeOK, NEW e \in Event, RecordMilestone(e)
  PROVE  Writes
<1>1. order \in Order
  BY DEF TypeOK
<1>2. PICK s \in {"PAID", "PREPARING", "ON_THE_WAY", "DELIVERED"}, c \in Courier \cup {NoCourier}, v \in Nat :
        order = OrderOf(s, c, v)
  BY <1>1 DEF Order, OrderOf
<1>3. PICK t, n : t = Milestone(e)[1] /\ n = Milestone(e)[2]
  OBVIOUS
<1>4a. order.status = s /\ order.version = v
  BY <1>2 DEF OrderOf
<1>4. \/ s = "PREPARING" /\ t = "ON_THE_WAY" /\ n = 1
      \/ s = "PREPARING" /\ t = "DELIVERED" /\ n = 2
      \/ s = "ON_THE_WAY" /\ t = "DELIVERED" /\ n = 1
  <2>1. n > 0
    BY <1>3 DEF RecordMilestone
  <2>2. \/ e.kind = "picked_up" /\ order.status = "PREPARING" /\ Milestone(e) = <<"ON_THE_WAY", 1>>
        \/ e.kind = "delivered" /\ order.status = "PREPARING" /\ Milestone(e) = <<"DELIVERED", 2>>
        \/ e.kind = "delivered" /\ order.status = "ON_THE_WAY" /\ Milestone(e) = <<"DELIVERED", 1>>
        \/ Milestone(e) = <<order.status, 0>>
    BY DEF Milestone
  <2> QED BY <1>3, <1>4a, <2>1, <2>2
<1>5. order' = OrderOf(t, c, v + n)
  <2>1. order' = WithVersion(WithStatus(order, t), order.version + n)
    BY <1>3 DEF RecordMilestone, WithStatus, WithVersion
  <2>2. WithStatus(order, t) = OrderOf(t, c, v)
    BY <1>2, PatchesOfOrders
  <2>3. order' = WithVersion(OrderOf(t, c, v), v + n)
    BY <1>4a, <2>1, <2>2
  <2> QED BY <2>3, PatchesOfOrders
<1>6. order' \in Order /\ order'.version > order.version /\ order'.status # "PAID"
  <2>1. n \in Nat /\ n > 0 /\ v + n > v /\ v + n \in Nat /\ t \in {"ON_THE_WAY", "DELIVERED"}
    BY <1>4
  <2> QED BY <1>2, <1>5, <2>1 DEF Order, OrderOf
<1>7. order.status = s /\ order'.status = t /\ order.version = v /\ order'.version = v + n
  BY <1>2, <1>5 DEF OrderOf
<1>8. ASSUME NEW from, NEW x \in from, NEW y \in Lifecycle!ORDER_TRANSITIONS[x]
      PROVE  y \in Lifecycle!Successors(from)
  BY <1>8 DEF Lifecycle!Successors
<1>9. /\ "ON_THE_WAY" \in Lifecycle!ORDER_TRANSITIONS["PREPARING"]
      /\ "DELIVERED" \in Lifecycle!ORDER_TRANSITIONS["ON_THE_WAY"]
  BY DEF Lifecycle!ORDER_TRANSITIONS
<1>10. /\ "ON_THE_WAY" \in Lifecycle!Successors({"PREPARING"})
       /\ "DELIVERED" \in Lifecycle!Successors({"ON_THE_WAY"})
       /\ "DELIVERED" \in Lifecycle!Successors(Lifecycle!Successors({"PREPARING"}))
  BY <1>8, <1>9
<1>11. \/ order'.status \in Lifecycle!Successors({order.status}) /\ order'.version = order.version + 1
       \/ order'.status \in Lifecycle!Successors(Lifecycle!Successors({order.status}))
          /\ order'.version = order.version + 2
  BY <1>4, <1>7, <1>10
<1>12. Lifecycle!Next
  BY <1>11 DEF Lifecycle!Next, Lifecycle!Transition
<1>13. order'.courier = order.courier
  BY <1>2, <1>5 DEF OrderOf
<1> QED BY <1>6, <1>12, <1>13 DEF Writes

(* Who writes the order has read it as it is.                              *)
LEMMA OrderMoves ==
  ASSUME TypeOK, OrderInv, \A d \in Dispatcher : RunInv(run[d]), [Next]_vars, order' # order
  PROVE  Writes
<1>1. ASSUME NEW d \in Dispatcher, Bind(d) PROVE Writes
  <2>1. Fresh(d) /\ order' = Preparing(run[d].seen, run[d].courier) /\ run[d].step = "bind"
    BY <1>1 DEF Bind, At
  <2>2. run[d].seen = order /\ NeedsCourier(order) /\ run[d].courier \in Courier
    BY <2>1 DEF Fresh, RunInv, HasCourier
  <2> QED BY <2>1, <2>2, PreparingIsWritten
<1>2. ASSUME NEW d \in Dispatcher, Wait(d) PROVE Writes
  <2>1. Fresh(d) /\ order' = Preparing(run[d].seen, NoCourier)
    BY <1>2 DEF Wait
  <2>2. run[d].seen = order /\ NeedsCourier(order)
    BY <2>1 DEF Fresh, RunInv
  <2> QED BY <2>1, <2>2, PreparingIsWritten
<1>3. \/ \E d \in Dispatcher : Bind(d) \/ Wait(d)
      \/ \E e \in Event : RecordMilestone(e)
  <2>1. ASSUME NEW d \in Dispatcher, Dispatch(d) \/ DispatchFails(d) PROVE Bind(d) \/ Wait(d)
    <3>1. CASE ReadQueue(d) \/ OthersFoundNone(d) \/ Ask(d) \/ Claim(d) \/ Winner(d) \/ FindRoute(d)
               \/ InsertRoute(d) \/ ReplaceRoute(d)
      BY <3>1 DEF ReadQueue, OthersFoundNone, Ask, Claim, Winner, FindRoute, InsertRoute, ReplaceRoute
    <3>2. CASE Reread(d) \/ Release(d) \/ Decide(d) \/ EndRoute(d) \/ EndReread(d) \/ Free(d)
               \/ DispatchFails(d)
      BY <3>2 DEF Reread, Release, Decide, EndRoute, EndReread, Free, DispatchFails
    <3> QED BY <2>1, <3>1, <3>2 DEF Dispatch
  <2>2. ASSUME NEW t \in Ticker, MoveRoute(t) \/ Reconcile(t) \/ TickFails(t) PROVE FALSE
    <3>1. CASE ListMoving(t) \/ ReadCouriers(t) \/ Drop(t) \/ Advance(t) \/ Pick(t) \/ Tell(t) \/ Mark(t)
      BY <3>1 DEF ListMoving, ReadCouriers, Drop, Advance, Pick, Tell, Mark, TickKeeps
    <3>2. CASE Record(t) \/ Confirm(t) \/ FreeCarrier(t) \/ Publish(t) \/ Done(t)
      BY <3>2 DEF Record, Confirm, FreeCarrier, Publish, Done, TickKeeps
    <3>3. CASE Reconcile(t) \/ TickFails(t)
      BY <3>3 DEF Reconcile, ListCarrying, ReadRoutes, FreeStuck, TickFails, TickKeeps
    <3> QED BY <2>2, <3>1, <3>2, <3>3 DEF MoveRoute
  <2> QED BY <2>1, <2>2 DEF Next, vars, Travel, ComesBack
<1> QED BY <1>1, <1>2, <1>3, MilestoneIsWritten

(* A written order has a later version, which no dispatcher has read.      *)
LEMMA OrderKept ==
  ASSUME TypeOK, OrderInv, \A d \in Dispatcher : RunInv(run[d]), [Next]_vars
  PROVE  /\ order' \in Order /\ OrderInv'
         /\ \A d \in Dispatcher : RunInv(run[d])'
         /\ run' \in [Dispatcher -> Run]
<1>0. /\ order \in Order /\ order.version \in Nat /\ order.version >= 1
      /\ run \in [Dispatcher -> Run]
  BY DEF TypeOK, Order, OrderInv
<1>1. order' \in Order /\ (order' = order \/ order'.version > order.version)
  BY <1>0, OrderMoves DEF Writes
<1>2. order'.version \in Nat
  BY <1>1 DEF Order
<1>3. OrderInv'
  <2>1. CASE order' = order
    BY <2>1 DEF OrderInv
  <2>2. CASE order' # order
    <3>1. order'.version > order.version /\ order'.status # "PAID"
      BY <2>2, OrderMoves DEF Writes
    <3>2. order'.version >= 1 /\ order'.version # 1
      BY <1>0, <1>2, <3>1
    <3> QED BY <3>1, <3>2 DEF OrderInv
  <2> QED BY <2>1, <2>2
<1>4. ASSUME NEW o \in Order, NeedsCourier(o), o.version <= order.version,
             o.version = order.version => o = order
      PROVE  o.version <= order'.version /\ (o.version = order'.version => o = order')
  <2>1. o.version \in Nat
    BY DEF Order
  <2> QED BY <1>0, <1>1, <1>2, <1>4, <2>1
<1>5. ASSUME NEW r \in Run, NeedsCourier(r.seen), r.seen.version <= order.version,
             r.seen.version = order.version => r.seen = order,
             r.step \in HasCourier => r.courier \in Courier
      PROVE  RunInv(r)'
  <2>1. r.seen \in Order
    BY RunsAreRecords
  <2> QED BY <1>4, <1>5, <2>1 DEF RunInv, NeedsCourier
<1>6. \A d \in Dispatcher : run[d] \in Run /\ run[d].seen \in Order
  BY <1>0, RunsAreRecords
<1>7. ASSUME NEW d \in Dispatcher, Dispatch(d) \/ DispatchFails(d)
      PROVE  \E r \in Run : Become(d, r) /\ RunInv(r)'
  <2>1. PICK r \in Run : Become(d, r) /\ Sensible(d, r)
    BY <1>7, RunMoves
  <2>2. NeedsCourier(r.seen)
    BY <2>1, PaidIsAnOrder DEF Sensible, RunInv
  <2>3. r.seen.version <= order.version /\ (r.seen.version = order.version => r.seen = order)
    <3>1. CASE r.seen = run[d].seen
      BY <3>1 DEF RunInv
    <3>2. CASE r.seen = Paid
      BY <1>0, <3>2, PaidIsAnOrder DEF OrderInv
    <3>3. CASE r.seen = order
      BY <1>0, <3>3
    <3> QED BY <2>1, <3>1, <3>2, <3>3 DEF Sensible
  <2>4. r.step \in HasCourier => r.courier \in Courier
    BY <2>1 DEF Sensible
  <2> QED BY <1>5, <2>1, <2>2, <2>3, <2>4
<1>8. \A d \in Dispatcher : run'[d] = run[d] => RunInv(run[d])'
  BY <1>5, <1>6 DEF RunInv
<1>9. CASE run' = run
  BY <1>0, <1>1, <1>3, <1>8, <1>9
<1>10. ASSUME NEW d \in Dispatcher, Dispatch(d) \/ DispatchFails(d)
       PROVE  run' \in [Dispatcher -> Run] /\ \A e \in Dispatcher : RunInv(run[e])'
  <2>1. PICK r \in Run : Become(d, r) /\ RunInv(r)'
    BY <1>7, <1>10
  <2>2. /\ run' \in [Dispatcher -> Run] /\ run'[d] = r
        /\ \A e \in Dispatcher \ {d} : run'[e] = run[e]
    BY <1>0, <2>1 DEF Become
  <2>3. RunInv(run[d])'
    BY <2>1, <2>2
  <2> QED BY <1>8, <2>2, <2>3
<1>11. run' = run \/ \E d \in Dispatcher : Dispatch(d) \/ DispatchFails(d)
  <2>1. ASSUME NEW t \in Ticker, MoveRoute(t) \/ Reconcile(t) \/ TickFails(t) PROVE run' = run
    <3>1. CASE ListMoving(t) \/ ReadCouriers(t) \/ Drop(t) \/ Advance(t) \/ Pick(t) \/ Tell(t) \/ Mark(t)
      BY <3>1 DEF ListMoving, ReadCouriers, Drop, Advance, Pick, Tell, Mark, TickKeeps
    <3>2. CASE Record(t) \/ Confirm(t) \/ FreeCarrier(t) \/ Publish(t) \/ Done(t)
      BY <3>2 DEF Record, Confirm, FreeCarrier, Publish, Done, TickKeeps
    <3>3. CASE Reconcile(t) \/ TickFails(t)
      BY <3>3 DEF Reconcile, ListCarrying, ReadRoutes, FreeStuck, TickFails, TickKeeps
    <3> QED BY <2>1, <3>1, <3>2, <3>3 DEF MoveRoute
  <2> QED BY <2>1 DEF Next, vars, Travel, ComesBack, RecordMilestone
<1> QED BY <1>1, <1>3, <1>9, <1>10, <1>11

-----------------------------------------------------------------------------
(* Tickers *)

LEMMA TurnsHaveFields ==
  ASSUME NEW w \in Turn
  PROVE  \E a \in TickStep, b \in Route, c \in Courier \cup {NoCourier}, e \in Nat :
            w = TurnOf(a, b, c, e)
<1>1. /\ w.step \in TickStep /\ w.seen \in Route /\ w.courier \in Courier \cup {NoCourier}
      /\ w.assigned \in Nat
  BY TurnsAreRecords
<1>2. w = TurnOf(w.step, w.seen, w.courier, w.assigned)
  BY TurnsAreRecords
<1> QED BY <1>1, <1>2, Zenon

LEMMA PatchesOfTurns ==
  ASSUME NEW a, NEW b, NEW c, NEW e, NEW x
  PROVE  /\ StepTo(TurnOf(a, b, c, e), x) = TurnOf(x, b, c, e)
         /\ Reads(TurnOf(a, b, c, e), x) = TurnOf(a, x, c, e)
         /\ Takes(TurnOf(a, b, c, e), x) = TurnOf(a, b, x, e)
         /\ AssignedTo(TurnOf(a, b, c, e), x) = TurnOf(a, b, c, x)
BY DEF TurnOf, StepTo, Reads, Takes, AssignedTo

LEMMA FieldsOfTurnOf ==
  ASSUME NEW a, NEW b, NEW c, NEW e
  PROVE  /\ TurnOf(a, b, c, e).step = a /\ TurnOf(a, b, c, e).seen = b
         /\ TurnOf(a, b, c, e).courier = c
BY DEF TurnOf

(* The ticker goes to a step and works on a copy of the route.             *)
Turns(t, step, seen) ==
  \E w \in Turn : tick' = [tick EXCEPT ![t] = w] /\ w.step = step /\ w.seen = seen

(* The same with the courier whose route it looks for.                     *)
LooksFor(t, step, seen, c) ==
  \E w \in Turn : tick' = [tick EXCEPT ![t] = w] /\ w.step = step /\ w.seen = seen /\ w.courier = c

LEMMA CarryTurns ==
  ASSUME NEW t \in Ticker, tick \in [Ticker -> Turn], NEW x \in TickStep, NEW s \in Route, Carry(t, x, s)
  PROVE  Turns(t, x, s) /\ LooksFor(t, x, s, tick[t].courier)
<1>1. tick' = [tick EXCEPT ![t] = Reads(StepTo(tick[t], x), s)]
  BY DEF Carry, StepTo, Reads
<1>2. PICK a \in TickStep, b \in Route, c \in Courier \cup {NoCourier}, e \in Nat :
        tick[t] = TurnOf(a, b, c, e)
  <2>1. tick[t] \in Turn
    OBVIOUS
  <2> QED BY <2>1, TurnsHaveFields
<1>3. Reads(StepTo(tick[t], x), s) = TurnOf(x, s, c, e)
  BY <1>2, PatchesOfTurns
<1>4. TurnOf(x, s, c, e) \in Turn
  BY TurnsAreRecords
<1> DEFINE w == TurnOf(x, s, c, e)
<1>5. w \in Turn /\ w.step = x /\ w.seen = s /\ w.courier = tick[t].courier
  BY <1>2, <1>3, <1>4, FieldsOfTurnOf
<1>6. tick' = [tick EXCEPT ![t] = w]
  BY <1>1, <1>3, Zenon
<1> HIDE DEF w
<1> QED BY <1>5, <1>6 DEF Turns, LooksFor

LEMMA ProceedTurns ==
  ASSUME NEW t \in Ticker, tick \in [Ticker -> Turn], NEW x \in TickStep, Proceed(t, x)
  PROVE  Turns(t, x, tick[t].seen) /\ LooksFor(t, x, tick[t].seen, tick[t].courier)
<1>1. tick' = [tick EXCEPT ![t] = StepTo(tick[t], x)]
  BY DEF Proceed, StepTo
<1>2. PICK a \in TickStep, b \in Route, c \in Courier \cup {NoCourier}, e \in Nat :
        tick[t] = TurnOf(a, b, c, e)
  <2>1. tick[t] \in Turn
    OBVIOUS
  <2> QED BY <2>1, TurnsHaveFields
<1>3. StepTo(tick[t], x) = TurnOf(x, b, c, e) /\ tick[t].seen = b
  BY <1>2, PatchesOfTurns, FieldsOfTurnOf
<1>4. TurnOf(x, b, c, e) \in Turn
  BY TurnsAreRecords
<1> DEFINE w == TurnOf(x, b, c, e)
<1>5. w \in Turn /\ w.step = x /\ w.seen = tick[t].seen /\ w.courier = tick[t].courier
  BY <1>2, <1>3, <1>4, FieldsOfTurnOf
<1>6. tick' = [tick EXCEPT ![t] = w]
  BY <1>1, <1>3, Zenon
<1> HIDE DEF w
<1> QED BY <1>5, <1>6 DEF Turns, LooksFor

LEMMA CarryingTurns ==
  ASSUME NEW t \in Ticker, tick \in [Ticker -> Turn], NEW c \in Courier, NEW n \in Nat,
         tick' = [tick EXCEPT ![t].step = "routes", ![t].courier = c, ![t].assigned = n]
  PROVE  Turns(t, "routes", tick[t].seen) /\ LooksFor(t, "routes", tick[t].seen, c)
<1>1. tick' = [tick EXCEPT ![t] = AssignedTo(Takes(StepTo(tick[t], "routes"), c), n)]
  BY DEF AssignedTo, Takes, StepTo
<1>2. PICK a \in TickStep, b \in Route, k \in Courier \cup {NoCourier}, e \in Nat :
        tick[t] = TurnOf(a, b, k, e)
  <2>1. tick[t] \in Turn
    OBVIOUS
  <2> QED BY <2>1, TurnsHaveFields
<1>3. AssignedTo(Takes(StepTo(tick[t], "routes"), c), n) = TurnOf("routes", b, c, n) /\ tick[t].seen = b
  BY <1>2, PatchesOfTurns, FieldsOfTurnOf
<1>4. TurnOf("routes", b, c, n) \in Turn
  <2>1. "routes" \in TickStep
    BY DEF TickStep
  <2> QED BY <2>1, TurnsAreRecords
<1> DEFINE w == TurnOf("routes", b, c, n)
<1>5. w \in Turn /\ w.step = "routes" /\ w.seen = tick[t].seen /\ w.courier = c
  BY <1>2, <1>3, <1>4, FieldsOfTurnOf
<1>6. tick' = [tick EXCEPT ![t] = w]
  BY <1>1, <1>3, Zenon
<1> HIDE DEF w
<1> QED BY <1>5, <1>6 DEF Turns, LooksFor

LEMMA RestTurns ==
  ASSUME NEW t \in Ticker
  PROVE  /\ Resting \in Turn /\ Resting.step = "idle" /\ Resting.seen = NoRoute
         /\ Rest(t) => Turns(t, "idle", NoRoute)
         /\ ToList(t) => Turns(t, "list", NoRoute)
<1>1. Resting = TurnOf("idle", NoRoute, NoCourier, 0)
  BY DEF Resting, TurnOf
<1>2. "idle" \in TickStep /\ "list" \in TickStep
  BY DEF TickStep
<1>3. /\ TurnOf("idle", NoRoute, NoCourier, 0) \in Turn
      /\ TurnOf("list", NoRoute, NoCourier, 0) \in Turn
  BY <1>2, TurnsAreRecords, NoRouteIsARoute
<1>4. Resting \in Turn /\ Resting.step = "idle" /\ Resting.seen = NoRoute
  <2>1. Resting.step = "idle" /\ Resting.seen = NoRoute
    BY DEF Resting
  <2> QED BY <1>1, <1>3, <2>1
<1>5. Rest(t) => Turns(t, "idle", NoRoute)
  BY <1>4 DEF Rest, Turns
<1>6. ToList(t) => Turns(t, "list", NoRoute)
  <2>1. StepTo(Resting, "list") = TurnOf("list", NoRoute, NoCourier, 0)
    BY <1>1, PatchesOfTurns
  <2>2. ToList(t) => tick' = [tick EXCEPT ![t] = StepTo(Resting, "list")]
    BY DEF ToList, StepTo
  <2> DEFINE w == TurnOf("list", NoRoute, NoCourier, 0)
  <2>3. w \in Turn /\ w.step = "list" /\ w.seen = NoRoute
    BY <1>3, FieldsOfTurnOf
  <2>4. ToList(t) => tick' = [tick EXCEPT ![t] = w]
    BY <2>1, <2>2
  <2> HIDE DEF w
  <2> QED BY <2>3, <2>4 DEF Turns
<1> QED BY <1>4, <1>5, <1>6

(* A delivery is worked on when the pick-up was told, and not before.      *)
LEMMA NextWorkNeedsTelling ==
  ASSUME NEW r
  PROVE  /\ NextWork(r) \in {"pick", "tell", "record", "confirm", "idle"}
         /\ NextWork(r) \in {"record", "confirm"} => r.pickupPublished
BY DEF NextWork

(* The copy a ticker works on after its step is as true as TurnInv asks.    *)
Honest(step, seen) ==
  /\ step \notin OffRoute => seen.courier \in Courier
  /\ seen.pickupPublished => PickedUp(seen.courier) \in events'
  /\ step \in AfterTelling => seen.pickupPublished
  /\ step = "mark" => PickedUp(seen.courier) \in events'

HonestTurn(t) == \E x \in TickStep, s \in Route : Turns(t, x, s) /\ Honest(x, s)

LEMMA ContinueTurns ==
  ASSUME NEW t \in Ticker, tick \in [Ticker -> Turn], NEW r \in Route, r.courier \in Courier,
         r.pickupPublished => PickedUp(r.courier) \in events', Continue(t, r)
  PROVE  HonestTurn(t)
<1>1. PICK x : x = NextWork(r)
  OBVIOUS
<1>2. x \in {"pick", "tell", "record", "confirm", "idle"} /\ (x \in {"record", "confirm"} => r.pickupPublished)
  BY <1>1, NextWorkNeedsTelling, Zenon
<1>3. x \in TickStep /\ "idle" \in TickStep
  BY <1>2 DEF TickStep
<1>4. CASE x = "idle"
  <2>1. Turns(t, "idle", NoRoute)
    BY <1>1, <1>4, RestTurns DEF Continue
  <2>2. Honest("idle", NoRoute)
    BY NoRouteIsARoute DEF Honest, OffRoute, AfterTelling
  <2> QED BY <1>3, <2>1, <2>2, NoRouteIsARoute DEF HonestTurn
<1>5. CASE x # "idle"
  <2>1. Turns(t, x, r)
    BY <1>1, <1>3, <1>5, CarryTurns DEF Continue
  <2>2. Honest(x, r)
    BY <1>2 DEF Honest, AfterTelling
  <2> QED BY <1>3, <2>1, <2>2 DEF HonestTurn
<1> QED BY <1>4, <1>5

(* What every step of a ticker finds, and what its patches leave.          *)
LEMMA PatchTurns ==
  ASSUME TypeOK, NEW t \in Ticker, NEW r \in Route, r.courier \in Courier,
         r.pickupPublished => PickedUp(r.courier) \in events', Patch(t, r)
  PROVE  HonestTurn(t)
<1>0. tick \in [Ticker -> Turn] /\ tick[t].seen \in Route /\ tick[t].seen.stage \in Stage
  BY TurnsAreRecords, RoutesAreRecords DEF TypeOK
<1>1. CASE Current(tick[t].seen)
  <2>1. Continue(t, WithStage(r, tick[t].seen.stage))
    BY <1>1 DEF Patch, WithStage
  <2>2. PICK q : q = WithStage(r, tick[t].seen.stage)
    OBVIOUS
  <2>3. q \in Route /\ q.courier = r.courier /\ q.pickupPublished = r.pickupPublished
    BY <1>0, <2>2, PatchKeeps
  <2>4. Continue(t, q)
    BY <2>1, <2>2
  <2> QED BY <1>0, <2>3, <2>4, ContinueTurns
<1>2. CASE ~Current(tick[t].seen)
  <2>1. Turns(t, "idle", NoRoute)
    BY <1>2, RestTurns DEF Patch
  <2>2. Honest("idle", NoRoute) /\ "idle" \in TickStep
    BY NoRouteIsARoute DEF Honest, OffRoute, AfterTelling, TickStep
  <2> QED BY <2>1, <2>2, NoRouteIsARoute DEF HonestTurn
<1> QED BY <1>1, <1>2

TickerStep(t) == MoveRoute(t) \/ Reconcile(t) \/ TickFails(t)

LEMMA TurnMoves ==
  ASSUME TypeOK, RouteInv, NEW t \in Ticker, TurnInv(tick[t]), TickerStep(t)
  PROVE  HonestTurn(t)
<1>0. /\ tick \in [Ticker -> Turn] /\ tick[t] \in Turn /\ tick[t].seen \in Route /\ route \in Route
      /\ events \subseteq Event
      /\ \A c \in Courier : assignedAt[c] \in Nat
  BY TurnsAreRecords DEF TypeOK
<1>1. /\ tick[t].step \notin OffRoute => tick[t].seen.courier \in Courier
      /\ tick[t].seen.pickupPublished => PickedUp(tick[t].seen.courier) \in events
      /\ tick[t].step \in AfterTelling => tick[t].seen.pickupPublished
      /\ tick[t].step = "mark" => PickedUp(tick[t].seen.courier) \in events
  BY DEF TurnInv, Told
<1>2. /\ route.pickupPublished => PickedUp(route.courier) \in events
      /\ route.state = "MOVING" => route.courier \in Courier
  BY DEF RouteInv, Told
<1>3. events \subseteq events'
  <2>1. CASE ListMoving(t) \/ ReadCouriers(t) \/ Drop(t) \/ Advance(t) \/ Pick(t) \/ Tell(t) \/ Mark(t)
    BY <2>1 DEF ListMoving, ReadCouriers, Drop, Advance, Pick, Tell, Mark
  <2>2. CASE Record(t) \/ Confirm(t) \/ FreeCarrier(t) \/ Publish(t) \/ Done(t)
    BY <2>2 DEF Record, Confirm, FreeCarrier, Publish, Done
  <2>3. CASE Reconcile(t) \/ TickFails(t)
    BY <2>3 DEF Reconcile, ListCarrying, ReadRoutes, FreeStuck, TickFails
  <2> QED BY <2>1, <2>2, <2>3 DEF MoveRoute, TickerStep
<1>4. ASSUME Turns(t, "idle", NoRoute) \/ Turns(t, "list", NoRoute) PROVE HonestTurn(t)
  <2>1. /\ "idle" \in TickStep /\ "list" \in TickStep
        /\ Honest("idle", NoRoute) /\ Honest("list", NoRoute)
    BY NoRouteIsARoute DEF Honest, OffRoute, AfterTelling, TickStep
  <2> QED BY <1>4, <2>1, NoRouteIsARoute DEF HonestTurn
<1>5. ASSUME Rest(t) \/ ToList(t) PROVE HonestTurn(t)
  BY <1>4, <1>5, RestTurns
<1>6. ASSUME NEW x \in TickStep, Proceed(t, x), Honest(x, tick[t].seen) PROVE HonestTurn(t)
  BY <1>0, <1>6, ProceedTurns DEF HonestTurn
<1>7. ASSUME NEW x \in TickStep, NEW s \in Route, Carry(t, x, s), Honest(x, s) PROVE HonestTurn(t)
  BY <1>0, <1>7, CarryTurns DEF HonestTurn
<1>8. CASE ListMoving(t)
  <2>1. ASSUME route.state = "MOVING" PROVE Honest("couriers", route) /\ "couriers" \in TickStep
    BY <1>2, <1>3, <2>1 DEF Honest, AfterTelling, TickStep
  <2> QED BY <1>0, <1>5, <1>7, <1>8, <2>1 DEF ListMoving
<1>9. CASE ReadCouriers(t)
  <2>1. tick[t].seen.courier \in Courier
    BY <1>1, <1>9 DEF ReadCouriers, Doing, OffRoute
  <2>2. /\ "advance" \in TickStep /\ "drop" \in TickStep
        /\ Honest("advance", tick[t].seen) /\ Honest("drop", tick[t].seen)
    BY <1>1, <1>3, <2>1 DEF Honest, AfterTelling, TickStep
  <2> QED BY <1>6, <1>9, <2>2 DEF ReadCouriers
<1>10. CASE Drop(t) \/ Done(t) \/ TickFails(t)
  BY <1>5, <1>10 DEF Drop, Done, TickFails
<1>11. CASE Advance(t)
  <2>1. tick[t].seen.courier \in Courier
    BY <1>1, <1>11 DEF Advance, Doing, OffRoute
  <2>2. PICK x \in Stage : Continue(t, WithStage(tick[t].seen, x))
    <3>1. route.stage \in Stage /\ tick[t].seen.stage \in Stage
      BY <1>0, RoutesAreRecords
    <3>2. Continue(t, WithStage(tick[t].seen, IF SameRoute(route, tick[t].seen) THEN route.stage
                                              ELSE tick[t].seen.stage))
      BY <1>11 DEF Advance, WithStage
    <3> QED BY <3>1, <3>2
  <2>3. PICK q : q = WithStage(tick[t].seen, x)
    OBVIOUS
  <2>4. /\ q \in Route /\ q.courier = tick[t].seen.courier
        /\ q.pickupPublished = tick[t].seen.pickupPublished
    BY <1>0, <2>3, PatchKeeps
  <2>5. Continue(t, q)
    BY <2>2, <2>3
  <2> QED BY <1>0, <1>1, <1>3, <2>1, <2>4, <2>5, ContinueTurns
<1>12. CASE Pick(t)
  <2>1. CASE Current(tick[t].seen)
    <3>1. PICK q : q = WithPickUp(route, TRUE)
      OBVIOUS
    <3>2. Patch(t, q)
      BY <1>12, <3>1 DEF Pick, WithPickUp
    <3>3. q \in Route /\ q.courier = route.courier /\ q.pickupPublished = route.pickupPublished
      BY <1>0, <3>1, PatchKeeps
    <3>4. route.courier \in Courier
      BY <1>2, <2>1 DEF Current
    <3> QED BY <1>2, <1>3, <3>2, <3>3, <3>4, PatchTurns
  <2>2. CASE ~Current(tick[t].seen)
    BY <1>5, <1>12, <2>2 DEF Pick, Patch
  <2> QED BY <2>1, <2>2
<1>13. CASE Tell(t)
  <2>1. tick[t].seen.courier \in Courier
    BY <1>1, <1>13 DEF Tell, Doing, OffRoute
  <2>2. PickedUp(tick[t].seen.courier) \in events'
    BY <1>13 DEF Tell, PickedUp
  <2>3. Honest("mark", tick[t].seen) /\ "mark" \in TickStep
    BY <2>1, <2>2 DEF Honest, AfterTelling, TickStep
  <2> QED BY <1>6, <1>13, <2>3 DEF Tell
<1>14. CASE Mark(t)
  <2>1. CASE Current(tick[t].seen)
    <3>1. PICK q : q = WithTold(route, TRUE)
      OBVIOUS
    <3>2. Patch(t, q)
      BY <1>14, <3>1 DEF Mark, WithTold
    <3>3. q \in Route /\ q.courier = route.courier
      BY <1>0, <3>1, PatchKeeps
    <3>4. route.courier \in Courier /\ route.courier = tick[t].seen.courier
      BY <1>2, <2>1 DEF Current, SameRoute
    <3>5. PickedUp(route.courier) \in events'
      BY <1>1, <1>3, <1>14, <3>4 DEF Mark, Doing
    <3> QED BY <3>2, <3>3, <3>4, <3>5, PatchTurns
  <2>2. CASE ~Current(tick[t].seen)
    BY <1>5, <1>14, <2>2 DEF Mark, Patch
  <2> QED BY <2>1, <2>2
<1>15. CASE Record(t) \/ Confirm(t)
  <2>1. tick[t].seen.courier \in Courier /\ tick[t].seen.pickupPublished
    BY <1>1, <1>15 DEF Record, Confirm, Doing, OffRoute, AfterTelling
  <2>2. Honest("free", tick[t].seen) /\ "free" \in TickStep
    BY <1>1, <1>3, <2>1 DEF Honest, TickStep
  <2> QED BY <1>0, <1>5, <1>7, <1>15, <2>2 DEF Record, Confirm
<1>16. CASE FreeCarrier(t) \/ Publish(t)
  <2>1. tick[t].seen.courier \in Courier /\ tick[t].seen.pickupPublished
    BY <1>1, <1>16 DEF FreeCarrier, Publish, Doing, OffRoute, AfterTelling
  <2>2. /\ Honest("publish", tick[t].seen) /\ "publish" \in TickStep
        /\ Honest("done", tick[t].seen) /\ "done" \in TickStep
    BY <1>1, <1>3, <2>1 DEF Honest, TickStep
  <2> QED BY <1>6, <1>16, <2>2 DEF FreeCarrier, Publish
<1>17. CASE Reconcile(t)
  <2>1. ASSUME NEW x \in {"routes", "freeStuck"}
        PROVE  Honest(x, tick[t].seen) /\ x \in TickStep
    BY <1>1, <1>3 DEF Honest, OffRoute, AfterTelling, TickStep
  <2>2. CASE ListCarrying(t)
    <3>1. PICK c \in Carriers :
            tick' = [tick EXCEPT ![t].step = "routes", ![t].courier = c, ![t].assigned = assignedAt[c]]
      BY <2>2 DEF ListCarrying
    <3>2. c \in Courier /\ assignedAt[c] \in Nat
      BY <1>0 DEF Carriers
    <3>3. Turns(t, "routes", tick[t].seen)
      BY <1>0, <3>1, <3>2, CarryingTurns
    <3> QED BY <1>0, <2>1, <3>3 DEF HonestTurn
  <2>3. CASE ReadRoutes(t) \/ FreeStuck(t)
    BY <1>5, <1>6, <2>1, <2>3 DEF ReadRoutes, FreeStuck
  <2> QED BY <1>17, <2>2, <2>3 DEF Reconcile
<1> QED
  BY <1>8, <1>9, <1>10, <1>11, <1>12, <1>13, <1>14, <1>15, <1>16, <1>17 DEF TickerStep, MoveRoute

(* Every turn keeps its truth: a milestone is never taken back.             *)
LEMMA TurnsKept ==
  ASSUME TypeOK, RouteInv, \A t \in Ticker : TurnInv(tick[t]), events \subseteq events',
         tick' = tick \/ \E t \in Ticker : TickerStep(t)
  PROVE  tick' \in [Ticker -> Turn] /\ \A t \in Ticker : TurnInv(tick[t])'
<1>0. tick \in [Ticker -> Turn]
  BY DEF TypeOK
<1>1. ASSUME NEW t \in Ticker, tick'[t] = tick[t] PROVE TurnInv(tick[t])'
  BY <1>1 DEF TurnInv, Told
<1>2. CASE tick' = tick
  BY <1>0, <1>1, <1>2
<1>3. ASSUME NEW t \in Ticker, TickerStep(t)
      PROVE  tick' \in [Ticker -> Turn] /\ \A u \in Ticker : TurnInv(tick[u])'
  <2>1. PICK x \in TickStep, s \in Route : Turns(t, x, s) /\ Honest(x, s)
    BY <1>3, TurnMoves DEF HonestTurn
  <2>2. PICK w \in Turn : tick' = [tick EXCEPT ![t] = w] /\ w.step = x /\ w.seen = s
    BY <2>1 DEF Turns
  <2>3. /\ tick' \in [Ticker -> Turn] /\ tick'[t] = w
        /\ \A u \in Ticker \ {t} : tick'[u] = tick[u]
    BY <1>0, <2>2
  <2>4. TurnInv(tick[t])'
    BY <2>1, <2>2, <2>3 DEF TurnInv, Honest, Told
  <2> QED BY <1>1, <2>3, <2>4
<1> QED BY <1>2, <1>3

-----------------------------------------------------------------------------
(* The route *)

WithCourier(r, x) == [r EXCEPT !.courier = x]
WithBirth(r, x) == [r EXCEPT !.createdAt = x]
WithTrip(r, x) == [r EXCEPT !.trip = x]

LEMMA NamesOfRoutes ==
  ASSUME NEW a, NEW b, NEW c, NEW e, NEW f, NEW g, NEW h, NEW i, NEW x
  PROVE  /\ WithCourier(RouteOf(a, b, c, e, f, g, h, i), x) = RouteOf(x, b, c, e, f, g, h, i)
         /\ WithBirth(RouteOf(a, b, c, e, f, g, h, i), x) = RouteOf(a, x, c, e, f, g, h, i)
         /\ WithTrip(RouteOf(a, b, c, e, f, g, h, i), x) = RouteOf(a, b, x, e, f, g, h, i)
BY DEF RouteOf, WithCourier, WithBirth, WithTrip

RouteFor(c, at, n) ==
  [NoRoute EXCEPT !.courier = c, !.createdAt = at, !.trip = n, !.state = "MOVING"]

LEMMA NewRoutesAreRoutes ==
  ASSUME NEW c \in Courier, NEW at \in Nat, NEW n \in Nat
  PROVE  \E r \in Route : r = RouteFor(c, at, n) /\ r.courier = c /\ ~r.pickupPublished
<1>1. PICK a \in Courier \cup {NoCourier}, b \in Nat, k \in Nat, e \in RouteStates, f \in Stage,
           g \in BOOLEAN, h \in BOOLEAN, i \in BOOLEAN : NoRoute = RouteOf(a, b, k, e, f, g, h, i)
  BY RoutesHaveFields, NoRouteIsARoute
<1>2. ~h
  BY <1>1, NoRouteIsARoute, FieldsOfRouteOf
<1>3. /\ WithCourier(NoRoute, c) = RouteOf(c, b, k, e, f, g, h, i)
      /\ WithBirth(RouteOf(c, b, k, e, f, g, h, i), at) = RouteOf(c, at, k, e, f, g, h, i)
      /\ WithTrip(RouteOf(c, at, k, e, f, g, h, i), n) = RouteOf(c, at, n, e, f, g, h, i)
  BY <1>1, NamesOfRoutes
<1>4. WithState(RouteOf(c, at, n, e, f, g, h, i), "MOVING") = RouteOf(c, at, n, "MOVING", f, g, h, i)
  BY PatchesOfRoutes
<1>5. RouteOf(c, at, n, "MOVING", f, g, h, i) \in Route
  BY RoutesAreRecords DEF RouteStates
<1> DEFINE r == RouteOf(c, at, n, "MOVING", f, g, h, i)
<1>6. WithState(WithTrip(WithBirth(WithCourier(NoRoute, c), at), n), "MOVING") = r
  BY <1>3, <1>4
<1>7. r \in Route /\ r.courier = c /\ ~r.pickupPublished
  BY <1>2, <1>5, FieldsOfRouteOf
<1> HIDE DEF r
<1>8. r = RouteFor(c, at, n)
  BY <1>6 DEF RouteFor, WithState, WithTrip, WithBirth, WithCourier
<1> QED BY <1>7, <1>8

(* A route is a new one of a courier, or was patched.                      *)
TrueRoute(r) ==
  /\ r \in Route /\ r.courier \in Courier
  /\ r.pickupPublished => PickedUp(r.courier) \in events'

LEMMA DispatcherRoutes ==
  ASSUME TypeOK, RouteInv, NEW d \in Dispatcher, RunInv(run[d]), events' = events,
         Dispatch(d) \/ DispatchFails(d), route' # route
  PROVE  TrueRoute(route')
<1>0. /\ run \in [Dispatcher -> Run] /\ run[d] \in Run /\ route \in Route /\ now \in Nat
      /\ run[d].trip \in Nat /\ run[d].since \in Nat
  BY RunsAreRecords DEF TypeOK
<1>1. CASE InsertRoute(d) \/ ReplaceRoute(d)
  <2>1. run[d].courier \in Courier
    BY <1>1 DEF InsertRoute, ReplaceRoute, At, RunInv, HasCourier
  <2>2. PICK at \in run[d].since..now : route' = NewRoute(d, at)
    BY <1>1 DEF InsertRoute, ReplaceRoute
  <2>3. at \in Nat
    BY <1>0
  <2>4. PICK c \in Courier, n \in Nat : c = run[d].courier /\ n = run[d].trip
    BY <1>0, <2>1
  <2>5. PICK r \in Route : r = RouteFor(c, at, n) /\ r.courier = c /\ ~r.pickupPublished
    BY <2>3, NewRoutesAreRoutes
  <2>6. route' = r
    BY <2>2, <2>4, <2>5 DEF NewRoute, RouteFor
  <2> QED BY <2>5, <2>6 DEF TrueRoute
<1>2. CASE EndRoute(d)
  <2>1. Endable(run[d].stored) /\ route' = WithState(route, "ENDED")
    BY <1>2 DEF EndRoute, WithState
  <2>2. route.courier \in Courier /\ (route.pickupPublished => PickedUp(route.courier) \in events)
    BY <2>1 DEF Endable, Current, RouteInv, Told
  <2>3. "ENDED" \in RouteStates
    BY DEF RouteStates
  <2> QED BY <1>0, <2>1, <2>2, <2>3, PatchKeeps DEF TrueRoute
<1>3. CASE ReadQueue(d) \/ OthersFoundNone(d) \/ Ask(d) \/ Claim(d) \/ Winner(d) \/ FindRoute(d)
           \/ Bind(d) \/ Reread(d) \/ Wait(d)
  BY <1>3 DEF ReadQueue, OthersFoundNone, Ask, Claim, Winner, FindRoute, Bind, Reread, Wait
<1>4. CASE Release(d) \/ Decide(d) \/ EndReread(d) \/ Free(d) \/ DispatchFails(d)
  BY <1>4 DEF Release, Decide, EndReread, Free, DispatchFails
<1> QED BY <1>1, <1>2, <1>3, <1>4 DEF Dispatch

LEMMA TickerRoutes ==
  ASSUME TypeOK, RouteInv, NEW t \in Ticker, TurnInv(tick[t]), events \subseteq events',
         TickerStep(t), route' # route
  PROVE  TrueRoute(route')
<1>0. route \in Route
  BY DEF TypeOK
<1>1. ASSUME Current(tick[t].seen)
      PROVE  /\ route.courier \in Courier /\ route.courier = tick[t].seen.courier
             /\ route.pickupPublished => PickedUp(route.courier) \in events'
  BY <1>1 DEF Current, SameRoute, RouteInv, Told
<1>2. CASE Drop(t) \/ Done(t)
  <2>1. PICK x \in RouteStates : route' = WithState(route, x) /\ Current(tick[t].seen)
    BY <1>2 DEF Drop, Done, Endable, WithState, RouteStates
  <2> QED BY <1>0, <1>1, <2>1, PatchKeeps DEF TrueRoute
<1>3. CASE Pick(t)
  <2>1. route' = WithPickUp(route, TRUE) /\ Current(tick[t].seen)
    BY <1>3 DEF Pick, Patch, WithPickUp
  <2> QED BY <1>0, <1>1, <2>1, PatchKeeps DEF TrueRoute
<1>4. CASE Mark(t)
  <2>1. route' = WithTold(route, TRUE) /\ Current(tick[t].seen)
    BY <1>4 DEF Mark, Patch, WithTold
  <2>2. PickedUp(tick[t].seen.courier) \in events'
    BY <1>4 DEF Mark, Doing, TurnInv
  <2> QED BY <1>0, <1>1, <2>1, <2>2, PatchKeeps DEF TrueRoute
<1>5. CASE Record(t) \/ Confirm(t)
  <2>1. route' = WithDelivery(route, TRUE) /\ Current(tick[t].seen)
    BY <1>5 DEF Record, Confirm, WithDelivery
  <2> QED BY <1>0, <1>1, <2>1, PatchKeeps DEF TrueRoute
<1>6. CASE ListMoving(t) \/ ReadCouriers(t) \/ Advance(t) \/ Tell(t) \/ FreeCarrier(t) \/ Publish(t)
           \/ Reconcile(t) \/ TickFails(t)
  BY <1>6 DEF ListMoving, ReadCouriers, Advance, Tell, FreeCarrier, Publish, Reconcile, ListCarrying,
              ReadRoutes, FreeStuck, TickFails
<1> QED BY <1>2, <1>3, <1>4, <1>5, <1>6 DEF TickerStep, MoveRoute

LEMMA TravelRoutes ==
  ASSUME TypeOK, RouteInv, Travel
  PROVE  TrueRoute(route')
<1>1. PICK x \in Stage : route' = WithStage(route, x)
  BY DEF Travel, WithStage, Stage
<1>2. route \in Route /\ route.courier \in Courier /\ events' = events
      /\ (route.pickupPublished => PickedUp(route.courier) \in events)
  BY DEF TypeOK, Travel, RouteInv, Told
<1> QED BY <1>1, <1>2, PatchKeeps DEF TrueRoute

-----------------------------------------------------------------------------
(* The milestones *)

(* A tell or a publication, and nothing else, adds one.                    *)
LEMMA EventMoves ==
  ASSUME [Next]_vars
  PROVE  events' = events \/ \E t \in Ticker : Tell(t) \/ Publish(t)
<1>1. ASSUME NEW d \in Dispatcher, Dispatch(d) \/ DispatchFails(d) PROVE events' = events
  <2>1. CASE ReadQueue(d) \/ OthersFoundNone(d) \/ Ask(d) \/ Claim(d) \/ Winner(d) \/ FindRoute(d)
             \/ InsertRoute(d) \/ ReplaceRoute(d)
    BY <2>1 DEF ReadQueue, OthersFoundNone, Ask, Claim, Winner, FindRoute, InsertRoute, ReplaceRoute,
                DispatchKeeps
  <2>2. CASE Bind(d) \/ Reread(d) \/ Wait(d) \/ Release(d) \/ Decide(d) \/ EndRoute(d) \/ EndReread(d)
             \/ Free(d) \/ DispatchFails(d)
    BY <2>2 DEF Bind, Reread, Wait, Release, Decide, EndRoute, EndReread, Free, DispatchFails,
                DispatchKeeps
  <2> QED BY <1>1, <2>1, <2>2 DEF Dispatch
<1>2. ASSUME NEW t \in Ticker, TickerStep(t) PROVE events' = events \/ Tell(t) \/ Publish(t)
  <2>1. CASE ListMoving(t) \/ ReadCouriers(t) \/ Drop(t) \/ Advance(t) \/ Pick(t) \/ Mark(t)
    BY <2>1 DEF ListMoving, ReadCouriers, Drop, Advance, Pick, Mark
  <2>2. CASE Record(t) \/ Confirm(t) \/ FreeCarrier(t) \/ Done(t)
    BY <2>2 DEF Record, Confirm, FreeCarrier, Done
  <2>3. CASE Reconcile(t) \/ TickFails(t)
    BY <2>3 DEF Reconcile, ListCarrying, ReadRoutes, FreeStuck, TickFails
  <2> QED BY <1>2, <2>1, <2>2, <2>3 DEF MoveRoute, TickerStep
<1> QED BY <1>1, <1>2 DEF Next, vars, Travel, ComesBack, RecordMilestone, TickerStep

LEMMA EventsKept ==
  ASSUME TypeOK, PickupIsToldFirst, \A t \in Ticker : TurnInv(tick[t]), [Next]_vars
  PROVE  events \subseteq events' /\ events' \subseteq Event /\ PickupIsToldFirst'
<1>0. events \subseteq Event
  BY DEF TypeOK
<1>1. CASE events' = events
  BY <1>0, <1>1 DEF PickupIsToldFirst
<1>2. ASSUME NEW t \in Ticker, Tell(t)
      PROVE  events \subseteq events' /\ events' \subseteq Event /\ PickupIsToldFirst'
  <2>1. tick[t].seen.courier \in Courier
    BY <1>2 DEF Tell, Doing, TurnInv, OffRoute
  <2>2. PICK e : e = PickedUp(tick[t].seen.courier)
    OBVIOUS
  <2>3. events' = events \cup {e}
    BY <1>2, <2>2 DEF Tell, PickedUp
  <2>4. e \in Event /\ e.kind # "delivered"
    BY <2>1, <2>2 DEF Event, PickedUp
  <2> QED BY <1>0, <2>3, <2>4 DEF PickupIsToldFirst
<1>3. ASSUME NEW t \in Ticker, Publish(t)
      PROVE  events \subseteq events' /\ events' \subseteq Event /\ PickupIsToldFirst'
  <2>1. tick[t].seen.courier \in Courier /\ PickedUp(tick[t].seen.courier) \in events
    BY <1>3 DEF Publish, Doing, TurnInv, OffRoute, AfterTelling, Told
  <2>2. PICK e : e = [kind |-> "delivered", courier |-> tick[t].seen.courier]
    OBVIOUS
  <2>3. events' = events \cup {e}
    BY <1>3, <2>2 DEF Publish
  <2>4. e \in Event /\ e.courier = tick[t].seen.courier
    BY <2>1, <2>2 DEF Event
  <2> QED BY <1>0, <2>1, <2>3, <2>4 DEF PickupIsToldFirst, PickedUp
<1> QED BY <1>1, <1>2, <1>3, EventMoves

-----------------------------------------------------------------------------
(* The pool and the rest of the types *)

LEMMA PoolMoves ==
  ASSUME TypeOK, [Next]_vars
  PROVE  /\ courier' \in [Courier -> {"idle", "busy", "away"}]
         /\ assignedAt' \in [Courier -> Nat] /\ trip' \in [Courier -> Nat]
         /\ now' \in Nat
<1>0. /\ courier \in [Courier -> {"idle", "busy", "away"}]
      /\ assignedAt \in [Courier -> Nat] /\ trip \in [Courier -> Nat] /\ now \in Nat
      /\ \A d \in Dispatcher : run[d].since \in Nat
  BY RunsAreRecords DEF TypeOK
<1> DEFINE Typed == /\ courier' \in [Courier -> {"idle", "busy", "away"}]
                    /\ assignedAt' \in [Courier -> Nat] /\ trip' \in [Courier -> Nat]
                    /\ now' \in Nat
<1>1. ASSUME NEW c, Freed(c) PROVE courier' \in [Courier -> {"idle", "busy", "away"}]
  BY <1>0, <1>1 DEF Freed
<1>2. ASSUME NEW d \in Dispatcher, Claim(d) PROVE Typed
  <2>1. CASE UNCHANGED <<pool, now>>
    BY <1>0, <2>1 DEF pool
  <2>2. ASSUME NEW c \in Pool, NEW at \in run[d].since..now,
               courier' = [courier EXCEPT ![c] = "busy"],
               assignedAt' = [assignedAt EXCEPT ![c] = at],
               trip' = [trip EXCEPT ![c] = now], now' = now + 1
        PROVE  Typed
    <3>1. c \in Courier /\ at \in Nat /\ now + 1 \in Nat
      BY <1>0 DEF Pool
    <3> QED BY <1>0, <2>2, <3>1
  <2> QED BY <1>2, <2>1, <2>2 DEF Claim
<1>3. ASSUME NEW d \in Dispatcher, InsertRoute(d) \/ ReplaceRoute(d) PROVE Typed
  <2>1. UNCHANGED pool /\ (now' = now \/ now' = now + 1)
    BY <1>3 DEF InsertRoute, ReplaceRoute
  <2>2. now + 1 \in Nat
    BY <1>0
  <2> QED BY <1>0, <2>1, <2>2 DEF pool
<1>4. ASSUME NEW d \in Dispatcher, Dispatch(d) \/ DispatchFails(d) PROVE Typed
  <2>1. CASE ReadQueue(d) \/ OthersFoundNone(d) \/ Ask(d) \/ Winner(d) \/ FindRoute(d) \/ Bind(d)
             \/ Reread(d) \/ Wait(d)
    BY <1>0, <2>1 DEF ReadQueue, OthersFoundNone, Ask, Winner, FindRoute, Bind, Reread, Wait, pool
  <2>2. CASE Release(d) \/ Decide(d) \/ EndRoute(d) \/ EndReread(d) \/ DispatchFails(d)
    BY <1>0, <2>2 DEF Release, Decide, EndRoute, EndReread, DispatchFails, pool
  <2>3. CASE Free(d)
    BY <1>0, <1>1, <2>3 DEF Free
  <2> QED BY <1>2, <1>3, <1>4, <2>1, <2>2, <2>3 DEF Dispatch
<1>5. ASSUME NEW t \in Ticker, TickerStep(t) PROVE Typed
  <2>1. CASE ListMoving(t) \/ ReadCouriers(t) \/ Drop(t) \/ Advance(t) \/ Pick(t) \/ Tell(t) \/ Mark(t)
    BY <1>0, <2>1 DEF ListMoving, ReadCouriers, Drop, Advance, Pick, Tell, Mark, TickKeeps
  <2>2. CASE Record(t) \/ Confirm(t) \/ Publish(t) \/ Done(t) \/ ListCarrying(t) \/ ReadRoutes(t)
             \/ TickFails(t)
    BY <1>0, <2>2 DEF Record, Confirm, Publish, Done, ListCarrying, ReadRoutes, TickFails, TickKeeps, pool
  <2>3. CASE FreeCarrier(t) \/ FreeStuck(t)
    BY <1>0, <1>1, <2>3 DEF FreeCarrier, FreeStuck, TickKeeps
  <2> QED BY <1>5, <2>1, <2>2, <2>3 DEF MoveRoute, Reconcile, TickerStep
<1>6. CASE (\E e \in Event : RecordMilestone(e)) \/ Travel \/ UNCHANGED vars
  BY <1>0, <1>6 DEF RecordMilestone, Travel, vars, pool
<1>7. ASSUME NEW c \in Courier, ComesBack(c) PROVE Typed
  BY <1>0, <1>7 DEF ComesBack
<1> QED BY <1>4, <1>5, <1>6, <1>7 DEF Next, TickerStep

LEMMA OutcomesTyped ==
  ASSUME TypeOK, \A d \in Dispatcher : RunInv(run[d]), [Next]_vars
  PROVE  outcomes' \subseteq Outcome
<1>0. /\ outcomes \subseteq Outcome
      /\ \A c \in Courier : trip[c] \in Nat
      /\ \A t \in Ticker : tick[t].seen.trip \in Nat
  BY TurnsAreRecords, RoutesAreRecords DEF TypeOK
<1>1. \A n \in Nat, k \in {"released", "delivered"} : [trip |-> n, kind |-> k] \in Outcome
  BY DEF Outcome
<1>2. ASSUME NEW d \in Dispatcher, Free(d) PROVE outcomes' \subseteq Outcome
  <2>1. trip[run[d].courier] \in Nat
    BY <1>0, <1>2 DEF Free, At, RunInv, HasCourier
  <2>2. PICK o : o = [trip |-> trip[run[d].courier], kind |-> "released"]
    OBVIOUS
  <2>3. o \in Outcome
    BY <1>1, <2>1, <2>2
  <2>4. outcomes' \subseteq outcomes \cup {o}
    BY <1>2, <2>2 DEF Free
  <2> QED BY <1>0, <2>3, <2>4
<1>3. ASSUME NEW t \in Ticker, Publish(t) PROVE outcomes' \subseteq Outcome
  <2>1. PICK o : o = [trip |-> tick[t].seen.trip, kind |-> "delivered"]
    OBVIOUS
  <2>2. o \in Outcome
    BY <1>0, <1>1, <2>1
  <2>3. outcomes' = outcomes \cup {o}
    BY <1>3, <2>1 DEF Publish
  <2> QED BY <1>0, <2>2, <2>3
<1>4. ASSUME NEW d \in Dispatcher, Dispatch(d) \/ DispatchFails(d) PROVE outcomes' \subseteq Outcome
  <2>1. CASE ReadQueue(d) \/ OthersFoundNone(d) \/ Ask(d) \/ Claim(d) \/ Winner(d) \/ FindRoute(d)
             \/ InsertRoute(d) \/ ReplaceRoute(d)
    BY <1>0, <2>1 DEF ReadQueue, OthersFoundNone, Ask, Claim, Winner, FindRoute, InsertRoute, ReplaceRoute
  <2>2. CASE Bind(d) \/ Reread(d) \/ Wait(d) \/ Release(d) \/ Decide(d) \/ EndRoute(d) \/ EndReread(d)
             \/ DispatchFails(d)
    BY <1>0, <2>2 DEF Bind, Reread, Wait, Release, Decide, EndRoute, EndReread, DispatchFails
  <2> QED BY <1>2, <1>4, <2>1, <2>2 DEF Dispatch
<1>5. ASSUME NEW t \in Ticker, TickerStep(t) PROVE outcomes' \subseteq Outcome
  <2>1. CASE ListMoving(t) \/ ReadCouriers(t) \/ Drop(t) \/ Advance(t) \/ Pick(t) \/ Tell(t) \/ Mark(t)
    BY <1>0, <2>1 DEF ListMoving, ReadCouriers, Drop, Advance, Pick, Tell, Mark
  <2>2. CASE Record(t) \/ Confirm(t) \/ FreeCarrier(t) \/ Done(t) \/ Reconcile(t) \/ TickFails(t)
    BY <1>0, <2>2 DEF Record, Confirm, FreeCarrier, Done, Reconcile, ListCarrying, ReadRoutes, FreeStuck,
                      TickFails
  <2> QED BY <1>3, <1>5, <2>1, <2>2 DEF MoveRoute, TickerStep
<1> QED BY <1>0, <1>4, <1>5 DEF Next, vars, Travel, ComesBack, RecordMilestone, TickerStep

Failures == [dispatch : 0..MaxDispatchFailures, tick : 0..MaxTickFailures]
CountsRun(r, x) == [r EXCEPT !.dispatch = x]
CountsTurn(r, x) == [r EXCEPT !.tick = x]

LEMMA FailuresCount ==
  ASSUME NEW f \in Failures
  PROVE  /\ \A x \in 0..MaxDispatchFailures :
              CountsRun(f, x) \in Failures /\ CountsRun(f, x).tick = f.tick
         /\ \A x \in 0..MaxTickFailures :
              CountsTurn(f, x) \in Failures /\ CountsTurn(f, x).tick = x
         /\ f.dispatch \in 0..MaxDispatchFailures /\ f.tick \in 0..MaxTickFailures
BY DEF Failures, CountsRun, CountsTurn

LEMMA FailuresTyped ==
  ASSUME TypeOK, [Next]_vars
  PROVE  failures' \in Failures /\ failures'.tick >= failures.tick
<1>0. /\ failures \in Failures /\ failures.dispatch \in 0..MaxDispatchFailures
      /\ failures.tick \in 0..MaxTickFailures
  BY FailuresCount DEF TypeOK, Failures
<1>1. ASSUME NEW d \in Dispatcher, DispatchFails(d)
      PROVE  failures' \in Failures /\ failures'.tick >= failures.tick
  <2>1. failures' = CountsRun(failures, failures.dispatch + 1)
    BY <1>1 DEF DispatchFails, CountsRun
  <2>2. failures.dispatch + 1 \in 0..MaxDispatchFailures
    BY <1>0, <1>1, CourierAssumption DEF DispatchFails
  <2> QED BY <1>0, <2>1, <2>2, FailuresCount
<1>2. ASSUME NEW t \in Ticker, TickFails(t)
      PROVE  failures' \in Failures /\ failures'.tick >= failures.tick
  <2>1. failures' = CountsTurn(failures, failures.tick + 1)
    BY <1>2 DEF TickFails, CountsTurn
  <2>2. failures.tick + 1 \in 0..MaxTickFailures
    BY <1>0, <1>2, CourierAssumption DEF TickFails
  <2> QED BY <1>0, <2>1, <2>2, FailuresCount
<1>3. ASSUME NEW d \in Dispatcher, Dispatch(d) PROVE failures' = failures
  <2>1. CASE ReadQueue(d) \/ OthersFoundNone(d) \/ Ask(d) \/ Claim(d) \/ Winner(d) \/ FindRoute(d)
             \/ InsertRoute(d) \/ ReplaceRoute(d)
    BY <2>1 DEF ReadQueue, OthersFoundNone, Ask, Claim, Winner, FindRoute, InsertRoute, ReplaceRoute,
                DispatchKeeps
  <2>2. CASE Bind(d) \/ Reread(d) \/ Wait(d) \/ Release(d) \/ Decide(d) \/ EndRoute(d) \/ EndReread(d)
             \/ Free(d)
    BY <2>2 DEF Bind, Reread, Wait, Release, Decide, EndRoute, EndReread, Free, DispatchKeeps
  <2> QED BY <1>3, <2>1, <2>2 DEF Dispatch
<1>4. ASSUME NEW t \in Ticker, MoveRoute(t) \/ Reconcile(t) PROVE failures' = failures
  <2>1. CASE ListMoving(t) \/ ReadCouriers(t) \/ Drop(t) \/ Advance(t) \/ Pick(t) \/ Tell(t) \/ Mark(t)
    BY <2>1 DEF ListMoving, ReadCouriers, Drop, Advance, Pick, Tell, Mark, TickKeeps
  <2>2. CASE Record(t) \/ Confirm(t) \/ FreeCarrier(t) \/ Publish(t) \/ Done(t) \/ Reconcile(t)
    BY <2>2 DEF Record, Confirm, FreeCarrier, Publish, Done, Reconcile, ListCarrying, ReadRoutes,
                FreeStuck, TickKeeps
  <2> QED BY <1>4, <2>1, <2>2 DEF MoveRoute
<1>5. CASE failures' = failures
  <2>1. failures.tick \in Nat
    BY <1>0, CourierAssumption
  <2> QED BY <1>0, <1>5, <2>1
<1>6. \/ failures' = failures
      \/ \E d \in Dispatcher : DispatchFails(d)
      \/ \E t \in Ticker : TickFails(t)
  BY <1>3, <1>4 DEF Next, vars, Travel, ComesBack, RecordMilestone
<1> QED BY <1>1, <1>2, <1>5, <1>6

-----------------------------------------------------------------------------
(* The invariant *)

LEMMA RouteKept ==
  ASSUME TypeOK, RouteInv, PickupIsToldFirst, \A d \in Dispatcher : RunInv(run[d]),
         \A t \in Ticker : TurnInv(tick[t]), [Next]_vars
  PROVE  route' \in Route /\ RouteInv'
<1>0. events \subseteq events' /\ route \in Route
  BY EventsKept DEF TypeOK
<1>1. CASE route' = route
  BY <1>0, <1>1 DEF RouteInv, Told
<1>2. CASE route' # route
  <2>1. ASSUME NEW d \in Dispatcher, Dispatch(d) \/ DispatchFails(d) PROVE TrueRoute(route')
    <3>1. events' = events
      <4>1. CASE InsertRoute(d) \/ ReplaceRoute(d) \/ EndRoute(d)
        BY <4>1 DEF InsertRoute, ReplaceRoute, EndRoute, DispatchKeeps
      <4>2. CASE ReadQueue(d) \/ OthersFoundNone(d) \/ Ask(d) \/ Claim(d) \/ Winner(d) \/ FindRoute(d)
                 \/ Bind(d) \/ Reread(d) \/ Wait(d)
        BY <1>2, <4>2 DEF ReadQueue, OthersFoundNone, Ask, Claim, Winner, FindRoute, Bind, Reread, Wait
      <4>3. CASE Release(d) \/ Decide(d) \/ EndReread(d) \/ Free(d) \/ DispatchFails(d)
        BY <1>2, <4>3 DEF Release, Decide, EndReread, Free, DispatchFails
      <4> QED BY <2>1, <4>1, <4>2, <4>3 DEF Dispatch
    <3> QED BY <1>2, <2>1, <3>1, DispatcherRoutes
  <2>2. ASSUME NEW t \in Ticker, TickerStep(t) PROVE TrueRoute(route')
    BY <1>0, <1>2, <2>2, TickerRoutes
  <2>3. TrueRoute(route')
    BY <1>2, <2>1, <2>2, TravelRoutes DEF Next, vars, TickerStep, ComesBack, RecordMilestone
  <2> QED BY <2>3 DEF TrueRoute, RouteInv, Told
<1> QED BY <1>1, <1>2

LEMMA TickMoves ==
  ASSUME [Next]_vars
  PROVE  tick' = tick \/ \E t \in Ticker : TickerStep(t)
<1>1. ASSUME NEW d \in Dispatcher, Dispatch(d) \/ DispatchFails(d) PROVE tick' = tick
  <2>1. CASE ReadQueue(d) \/ OthersFoundNone(d) \/ Ask(d) \/ Claim(d) \/ Winner(d) \/ FindRoute(d)
             \/ InsertRoute(d) \/ ReplaceRoute(d)
    BY <2>1 DEF ReadQueue, OthersFoundNone, Ask, Claim, Winner, FindRoute, InsertRoute, ReplaceRoute,
                DispatchKeeps
  <2>2. CASE Bind(d) \/ Reread(d) \/ Wait(d) \/ Release(d) \/ Decide(d) \/ EndRoute(d) \/ EndReread(d)
             \/ Free(d) \/ DispatchFails(d)
    BY <2>2 DEF Bind, Reread, Wait, Release, Decide, EndRoute, EndReread, Free, DispatchFails,
                DispatchKeeps
  <2> QED BY <1>1, <2>1, <2>2 DEF Dispatch
<1> QED BY <1>1 DEF Next, vars, Travel, ComesBack, RecordMilestone, TickerStep

LEMMA CourierInitially == Init => IInv
<1> SUFFICES ASSUME Init PROVE IInv
  OBVIOUS
<1>1. order \in Order /\ OrderInv
  BY PaidIsAnOrder DEF Init, OrderInv
<1>2. run \in [Dispatcher -> Run] /\ \A d \in Dispatcher : RunInv(run[d])
  <2>1. Idle \in Run /\ Idle.seen = Paid /\ Idle.step \notin HasCourier
    BY IdleIsARun, FieldsOfRunOf DEF HasCourier
  <2>2. RunInv(Idle)
    BY <2>1, PaidIsAnOrder DEF RunInv, Init
  <2> QED BY <2>1, <2>2 DEF Init
<1>3. tick \in [Ticker -> Turn] /\ \A t \in Ticker : TurnInv(tick[t])
  <2>1. ASSUME NEW t \in Ticker PROVE Resting \in Turn /\ TurnInv(Resting)
    <3>1. Resting \in Turn /\ Resting.step = "idle" /\ Resting.seen = NoRoute
      BY RestTurns
    <3> QED BY <3>1, NoRouteIsARoute DEF TurnInv, OffRoute, AfterTelling, Told
  <2> QED BY <2>1 DEF Init
<1>4. route \in Route /\ RouteInv
  BY NoRouteIsARoute DEF Init, RouteInv, Told, NoRoute
<1>5. PickupIsToldFirst
  BY DEF Init, PickupIsToldFirst
<1>6. failures \in [dispatch : 0..MaxDispatchFailures, tick : 0..MaxTickFailures]
  BY CourierAssumption DEF Init
<1>7. /\ courier \in [Courier -> {"idle", "busy", "away"}]
      /\ assignedAt \in [Courier -> Nat] /\ trip \in [Courier -> Nat] /\ now \in Nat
  BY DEF Init
<1>8. events \subseteq Event /\ outcomes \subseteq Outcome
  BY DEF Init
<1> QED BY <1>1, <1>2, <1>3, <1>4, <1>5, <1>6, <1>7, <1>8 DEF IInv, TypeOK

LEMMA CourierKept == IInv /\ [Next]_vars => IInv'
<1> SUFFICES ASSUME IInv, [Next]_vars PROVE IInv'
  OBVIOUS
<1>0. /\ TypeOK /\ OrderInv /\ RouteInv /\ PickupIsToldFirst
      /\ \A d \in Dispatcher : RunInv(run[d])
      /\ \A t \in Ticker : TurnInv(tick[t])
  BY DEF IInv
<1>1. /\ order' \in Order /\ OrderInv' /\ run' \in [Dispatcher -> Run]
      /\ \A d \in Dispatcher : RunInv(run[d])'
  BY <1>0, OrderKept
<1>2. events \subseteq events' /\ events' \subseteq Event /\ PickupIsToldFirst'
  BY <1>0, EventsKept
<1>3. route' \in Route /\ RouteInv'
  BY <1>0, RouteKept
<1>4. tick' \in [Ticker -> Turn] /\ \A t \in Ticker : TurnInv(tick[t])'
  <2>1. tick' = tick \/ \E t \in Ticker : TickerStep(t)
    BY TickMoves
  <2> QED BY <1>0, <1>2, <2>1, TurnsKept
<1>5. TypeOK'
  <2>1. outcomes' \subseteq Outcome
    BY <1>0, OutcomesTyped
  <2>2. failures' \in [dispatch : 0..MaxDispatchFailures, tick : 0..MaxTickFailures]
    BY <1>0, FailuresTyped DEF Failures
  <2> QED BY <1>0, <1>1, <1>2, <1>3, <1>4, <2>1, <2>2, PoolMoves DEF TypeOK
<1> QED BY <1>1, <1>2, <1>3, <1>4, <1>5 DEF IInv

LEMMA CourierInvariant == Spec => []IInv
<1> QED BY CourierInitially, CourierKept, PTL DEF Spec

-----------------------------------------------------------------------------
(* Routes, field by field *)
SameNames(r, s) == r.courier = s.courier /\ r.createdAt = s.createdAt /\ r.trip = s.trip
SameFlags(r, s) ==
  r.pickedUp = s.pickedUp /\ r.pickupPublished = s.pickupPublished /\ r.delivered = s.delivered

LEMMA AllFieldsOfRouteOf ==
  ASSUME NEW a, NEW b, NEW c, NEW e, NEW f, NEW g, NEW h, NEW i
  PROVE  \A r : r = RouteOf(a, b, c, e, f, g, h, i) =>
           /\ r.courier = a /\ r.createdAt = b /\ r.trip = c /\ r.state = e /\ r.stage = f
           /\ r.pickedUp = g /\ r.pickupPublished = h /\ r.delivered = i
BY DEF RouteOf

(* A patch of a route leaves every other field as it was.                  *)
LEMMA PatchedFields ==
  ASSUME NEW r \in Route
  PROVE  /\ \A x \in RouteStates :
              /\ SameNames(WithState(r, x), r) /\ SameFlags(WithState(r, x), r)
              /\ WithState(r, x).state = x /\ WithState(r, x).stage = r.stage
         /\ \A x \in Stage :
              /\ SameNames(WithStage(r, x), r) /\ SameFlags(WithStage(r, x), r)
              /\ WithStage(r, x).state = r.state /\ WithStage(r, x).stage = x
         /\ \A x \in BOOLEAN :
              /\ SameNames(WithPickUp(r, x), r) /\ WithPickUp(r, x).state = r.state
              /\ WithPickUp(r, x).stage = r.stage /\ WithPickUp(r, x).pickedUp = x
              /\ WithPickUp(r, x).pickupPublished = r.pickupPublished
              /\ WithPickUp(r, x).delivered = r.delivered
         /\ \A x \in BOOLEAN :
              /\ SameNames(WithTold(r, x), r) /\ WithTold(r, x).state = r.state
              /\ WithTold(r, x).stage = r.stage /\ WithTold(r, x).pickedUp = r.pickedUp
              /\ WithTold(r, x).pickupPublished = x /\ WithTold(r, x).delivered = r.delivered
         /\ \A x \in BOOLEAN :
              /\ SameNames(WithDelivery(r, x), r) /\ WithDelivery(r, x).state = r.state
              /\ WithDelivery(r, x).stage = r.stage /\ WithDelivery(r, x).pickedUp = r.pickedUp
              /\ WithDelivery(r, x).pickupPublished = r.pickupPublished
              /\ WithDelivery(r, x).delivered = x
<1>1. PICK a \in Courier \cup {NoCourier}, b \in Nat, c \in Nat, e \in RouteStates, f \in Stage,
           g \in BOOLEAN, h \in BOOLEAN, i \in BOOLEAN : r = RouteOf(a, b, c, e, f, g, h, i)
  BY RoutesHaveFields
<1>2. /\ r.courier = a /\ r.createdAt = b /\ r.trip = c /\ r.state = e /\ r.stage = f
      /\ r.pickedUp = g /\ r.pickupPublished = h /\ r.delivered = i
  BY <1>1, AllFieldsOfRouteOf
<1>3. ASSUME NEW x
      PROVE  /\ WithState(r, x) = RouteOf(a, b, c, x, f, g, h, i)
             /\ WithStage(r, x) = RouteOf(a, b, c, e, x, g, h, i)
             /\ WithPickUp(r, x) = RouteOf(a, b, c, e, f, x, h, i)
             /\ WithTold(r, x) = RouteOf(a, b, c, e, f, g, x, i)
             /\ WithDelivery(r, x) = RouteOf(a, b, c, e, f, g, h, x)
  BY <1>1, PatchesOfRoutes
<1> QED BY <1>2, <1>3, AllFieldsOfRouteOf DEF SameNames, SameFlags

LEMMA NewRouteFields ==
  ASSUME NEW c \in Courier, NEW at \in Nat, NEW n \in Nat
  PROVE  /\ RouteFor(c, at, n) \in Route
         /\ RouteFor(c, at, n).courier = c /\ RouteFor(c, at, n).createdAt = at
         /\ RouteFor(c, at, n).trip = n /\ RouteFor(c, at, n).state = "MOVING"
         /\ RouteFor(c, at, n).stage = "toMarket" /\ ~RouteFor(c, at, n).pickedUp
         /\ ~RouteFor(c, at, n).pickupPublished /\ ~RouteFor(c, at, n).delivered
<1>1. PICK no \in BOOLEAN : no = FALSE
  OBVIOUS
<1>2. PICK m : m = "toMarket"
  OBVIOUS
<1>3. NoRoute = RouteOf(NoCourier, 0, 0, "NONE", m, no, no, no)
  BY <1>1, <1>2 DEF NoRoute, RouteOf
<1>4. /\ WithCourier(NoRoute, c) = RouteOf(c, 0, 0, "NONE", m, no, no, no)
      /\ WithBirth(RouteOf(c, 0, 0, "NONE", m, no, no, no), at)
           = RouteOf(c, at, 0, "NONE", m, no, no, no)
      /\ WithTrip(RouteOf(c, at, 0, "NONE", m, no, no, no), n)
           = RouteOf(c, at, n, "NONE", m, no, no, no)
      /\ WithState(RouteOf(c, at, n, "NONE", m, no, no, no), "MOVING")
           = RouteOf(c, at, n, "MOVING", m, no, no, no)
  BY <1>3, NamesOfRoutes, PatchesOfRoutes
<1> DEFINE r == RouteOf(c, at, n, "MOVING", m, no, no, no)
<1>5. r \in Route
  BY <1>2, RoutesAreRecords DEF RouteStates, Stage
<1>6. /\ r.courier = c /\ r.createdAt = at /\ r.trip = n /\ r.state = "MOVING" /\ r.stage = m
      /\ r.pickedUp = no /\ r.pickupPublished = no /\ r.delivered = no
  BY AllFieldsOfRouteOf
<1>7. WithState(WithTrip(WithBirth(WithCourier(NoRoute, c), at), n), "MOVING") = r
  BY <1>4
<1> HIDE DEF r
<1>8. r = RouteFor(c, at, n)
  BY <1>7 DEF RouteFor, WithState, WithTrip, WithBirth, WithCourier
<1> QED BY <1>1, <1>2, <1>5, <1>6, <1>8

LEMMA NoRouteFields ==
  /\ NoRoute.courier = NoCourier /\ NoRoute.createdAt = 0 /\ NoRoute.trip = 0
  /\ NoRoute.state = "NONE" /\ NoRoute.stage = "toMarket"
  /\ ~NoRoute.pickedUp /\ ~NoRoute.pickupPublished /\ ~NoRoute.delivered
BY DEF NoRoute

-----------------------------------------------------------------------------
(* Steps, field by field *)

(* A step of a dispatcher leaves the tickers and the other dispatchers.    *)
OnlyRun(d) ==
  /\ tick' = tick /\ events' = events /\ run'[d] \in Run
  /\ \A e \in Dispatcher \ {d} : run'[e] = run[e]
(* Of pool, route and outcomes it only reads.                              *)
OnlyReads == UNCHANGED <<courier, assignedAt, trip, route, now, outcomes>>

(* It is idle, or asks, binds and waits; only here the order is written.   *)
Asking == {"idle", "ask", "claim", "conflict", "none", "bind", "reread", "wait", "release"}
RunAsks(d) ==
  /\ OnlyReads /\ run'[d].step \in Asking
  /\ run[d].step = "idle" => NeedsCourier(order) /\ order' = order
  /\ run'[d].step = "release" => Terminal(order) /\ order' = order
  /\ run'[d].step \in HasCourier => run[d].step \in HasCourier /\ run'[d].courier = run[d].courier
  /\ order' # order =>
       /\ run'[d].step = "idle" /\ order'.status = "PREPARING"
       /\ order'.courier # NoCourier => run[d].step \in HasCourier /\ order'.courier = run[d].courier
(* It has found the carrier.                                               *)
RunFinds(d, c) ==
  /\ OnlyReads /\ order' = order
  /\ \/ run[d].step \notin {"idle", "release"} /\ run'[d].step = "findRoute"
     \/ run[d].step = "release" /\ run'[d].step = "decide"
  /\ run'[d].courier = c /\ run'[d].assigned = assignedAt[c] /\ run'[d].trip = trip[c]
RunClaims(d, c, at) ==
  /\ UNCHANGED <<order, route, outcomes>> /\ Carriers = {}
  /\ run[d].step = "claim" /\ run'[d].step = "findRoute"
  /\ run'[d].courier = c /\ run'[d].assigned = at /\ run'[d].trip = now
  /\ courier' = [courier EXCEPT ![c] = "busy"]
  /\ assignedAt' = [assignedAt EXCEPT ![c] = at]
  /\ trip' = [trip EXCEPT ![c] = now]
  /\ now' = now + 1
(* It will store a route: there is none for this assignment.               *)
Storing == {"insert", "replace"}
RunPlans(d) ==
  /\ OnlyReads /\ order' = order /\ ~RouteStands(d)
  /\ run[d].step = "findRoute" /\ run'[d].step \in Storing
  /\ run'[d].courier = run[d].courier /\ run'[d].assigned = run[d].assigned
  /\ run'[d].trip = run[d].trip /\ run'[d].since = now
RunStores(d, at) ==
  /\ UNCHANGED <<order, courier, assignedAt, trip, outcomes>>
  /\ run[d].step \in Storing /\ run'[d].step = "bind" /\ run'[d].courier = run[d].courier
  /\ at >= run[d].since /\ at <= now
  /\ route' = RouteFor(run[d].courier, at, run[d].trip)
  /\ now' = now + 1
RunDecides(d) ==
  /\ OnlyReads /\ order' = order /\ run[d].step = "decide" /\ run'[d].courier = run[d].courier
  /\ \/ /\ run'[d].step = "free"
        /\ \/ ~BelongsToAssignment(route, run[d].courier, run[d].assigned)
           \/ ~route.delivered /\ route.state = "ENDED"
     \/ run'[d].step = "end" /\ run'[d].stored = route
RunEnds(d) ==
  /\ UNCHANGED <<order, courier, assignedAt, trip, now, outcomes>>
  /\ run[d].step = "end" /\ run'[d].courier = run[d].courier /\ run'[d].stored = run[d].stored
  /\ \/ Endable(run[d].stored) /\ route' = WithState(route, "ENDED") /\ run'[d].step = "free"
     \/ route' = route /\ run'[d].step = "endReread"
RunRereads(d) ==
  /\ OnlyReads /\ order' = order
  /\ run[d].step = "endReread" /\ run'[d].step = "free" /\ run'[d].courier = run[d].courier
  /\ SameRoute(route, run[d].stored) => route.state = "ENDED"
RunFrees(d) ==
  /\ UNCHANGED <<order, assignedAt, trip, route, now>>
  /\ run[d].step = "free" /\ run'[d].step = "idle"
  /\ Freed(run[d].courier)
  /\ outcomes' = outcomes \cup
       IF Carrying(run[d].courier)
       THEN {[trip |-> trip[run[d].courier], kind |-> "released"]} ELSE {}

RunSteps(d) ==
  \/ RunAsks(d)
  \/ \E c \in Carriers : RunFinds(d, c)
  \/ \E c \in Pool, at \in Nat : at <= now /\ RunClaims(d, c, at)
  \/ RunPlans(d) \/ (\E at \in Nat : RunStores(d, at))
  \/ RunDecides(d) \/ RunEnds(d) \/ RunRereads(d) \/ RunFrees(d)

LEMMA AnswerFields ==
  ASSUME NEW d \in Dispatcher, run \in [Dispatcher -> Run], Answer(d)
  PROVE  \E r \in Run : Become(d, r) /\ r.step = "bind" /\ r.courier = run[d].courier
<1>1. run[d].seen \in Order /\ run[d].courier \in Courier \cup {NoCourier}
  BY RunsAreRecords
<1> DEFINE r == [Idle EXCEPT !.step = "bind", !.seen = run[d].seen, !.courier = run[d].courier,
                             !.attempt = 1]
<1>2. r \in Run /\ r.courier = run[d].courier /\ Become(d, r)
  BY <1>1, IdleBut DEF Answer
<1>3. r = Attempts(Takes(Reads(StepTo(Idle, "bind"), run[d].seen), run[d].courier), 1)
  BY DEF Attempts, Takes, Reads, StepTo
<1>4. r = RunOf("bind", run[d].seen, run[d].courier, 0, 0, 0, NoRoute, 1)
  BY <1>3, IdleIsARun, PatchesOfRuns
<1>5. r.step = "bind"
  <2> HIDE DEF r
  <2> QED BY <1>4, FieldsOfRunOf
<1> HIDE DEF r
<1> QED BY <1>2, <1>5

LEMMA BecomeFields ==
  ASSUME NEW d \in Dispatcher, run \in [Dispatcher -> Run], NEW r \in Run, Become(d, r)
  PROVE  run'[d] = r /\ \A e \in Dispatcher \ {d} : run'[e] = run[e]
BY DEF Become

LEMMA HoldingFields ==
  ASSUME NEW d \in Dispatcher, run \in [Dispatcher -> Run], NEW x, NEW c, NEW e, NEW n, NEW s, NEW q,
         Holding(d, x, c, e, n, s, q)
  PROVE  /\ run'[d] \in Run /\ \A k \in Dispatcher \ {d} : run'[k] = run[k]
         /\ run'[d].step = x /\ run'[d].courier = c /\ run'[d].assigned = e
         /\ run'[d].trip = n /\ run'[d].since = s /\ run'[d].stored = q
BY BecomeFields DEF Holding

LEMMA DispatcherSteps ==
  ASSUME TypeOK, NEW d \in Dispatcher, RunInv(run[d]), Dispatch(d) \/ DispatchFails(d)
  PROVE  OnlyRun(d) /\ RunSteps(d)
<1>0. /\ run \in [Dispatcher -> Run] /\ run[d] \in Run /\ now \in Nat /\ route \in Route
      /\ \A c \in Courier : assignedAt[c] \in Nat /\ trip[c] \in Nat
      /\ Carriers \subseteq Courier /\ Pool \subseteq Courier
      /\ run[d].since \in Nat
  BY RunsAreRecords DEF TypeOK, Carriers, Pool
<1>1. /\ DispatchStep = {"idle", "ask", "bind", "reread", "wait", "release", "claim", "conflict", "none",
                      "findRoute", "insert", "replace", "decide", "end", "endReread", "free"}
  BY DEF DispatchStep, ServiceStep
<1>2. tick' = tick /\ events' = events
  <2>1. CASE ReadQueue(d) \/ OthersFoundNone(d) \/ Ask(d) \/ Claim(d) \/ Winner(d) \/ FindRoute(d)
             \/ InsertRoute(d) \/ ReplaceRoute(d)
    BY <2>1 DEF ReadQueue, OthersFoundNone, Ask, Claim, Winner, FindRoute, InsertRoute,
       ReplaceRoute,
                DispatchKeeps
  <2>2. CASE Bind(d) \/ Reread(d) \/ Wait(d) \/ Release(d) \/ Decide(d) \/ EndRoute(d) \/ EndReread(d)
             \/ Free(d) \/ DispatchFails(d)
    BY <2>2 DEF Bind, Reread, Wait, Release, Decide, EndRoute, EndReread, Free, DispatchFails,
                DispatchKeeps
  <2> QED BY <2>1, <2>2 DEF Dispatch
<1> DEFINE OnlyOne == run'[d] \in Run /\ \A e \in Dispatcher \ {d} : run'[e] = run[e]
<1>3. ASSUME NEW x \in DispatchStep, Goto(d, x)
      PROVE  /\ OnlyOne /\ run'[d].step = x /\ run'[d].courier = run[d].courier
             /\ run'[d].stored = run[d].stored
  <2>1. Holding(d, x, run[d].courier, run[d].assigned, run[d].trip, run[d].since, run[d].stored)
    BY <1>0, <1>3, GotoMoves
  <2> HIDE DEF OnlyOne
  <2> QED BY <1>0, <2>1, HoldingFields DEF OnlyOne
<1>4. ASSUME NEW x \in DispatchStep, NEW c \in Carriers, Found(d, c, x)
      PROVE  /\ OnlyOne /\ run'[d].step = x /\ run'[d].courier = c
             /\ run'[d].assigned = assignedAt[c] /\ run'[d].trip = trip[c]
  <2>1. Holding(d, x, c, assignedAt[c], trip[c], run[d].since, run[d].stored)
    BY <1>0, <1>4, FoundMoves
  <2> HIDE DEF OnlyOne
  <2> QED BY <1>0, <2>1, HoldingFields DEF OnlyOne
<1>5. ASSUME NEW x \in DispatchStep, run' = [run EXCEPT ![d].step = x, ![d].since = now]
      PROVE  /\ OnlyOne /\ run'[d].step = x /\ run'[d].courier = run[d].courier
             /\ run'[d].assigned = run[d].assigned /\ run'[d].trip = run[d].trip /\ run'[d].since = now
  <2>1. Holding(d, x, run[d].courier, run[d].assigned, run[d].trip, now, run[d].stored)
    BY <1>0, <1>5, SinceMoves
  <2> HIDE DEF OnlyOne
  <2> QED BY <1>0, <2>1, HoldingFields DEF OnlyOne
<1>6. ASSUME Finish(d) PROVE OnlyOne /\ run'[d].step = "idle"
  <2>1. Idle \in Run /\ Idle.step = "idle"
    BY IdleIsARun, FieldsOfRunOf
  <2> QED BY <1>0, <1>6, <2>1, BecomeFields DEF Finish
<1>7. ASSUME Answer(d) PROVE OnlyOne /\ run'[d].step = "bind" /\ run'[d].courier = run[d].courier
  BY <1>0, <1>7, AnswerFields, BecomeFields
<1> HIDE DEF OnlyOne
<1>8. ASSUME OnlyReads, order' = order, run'[d].step \in Asking \ HasCourier, run[d].step # "idle",
             run'[d].step # "release"
      PROVE  RunSteps(d)
  BY <1>8 DEF RunSteps, RunAsks
<1>9. CASE ReadQueue(d)
  <2> DEFINE r == [Idle EXCEPT !.step = "ask", !.seen = order]
  <2>1. r \in Run /\ r.step = "ask"
    <3>1. "ask" \in DispatchStep /\ order \in Order
      BY <1>1 DEF TypeOK
    <3> QED BY <3>1, IdleBut, Zenon
  <2>2. Become(d, r) /\ NeedsCourier(order) /\ order' = order /\ OnlyReads
    BY <1>9 DEF ReadQueue, OnlyReads, pool
  <2> HIDE DEF r
  <2>3. OnlyOne /\ run'[d].step = "ask"
    BY <1>0, <2>1, <2>2, BecomeFields DEF OnlyOne
  <2> QED BY <1>2, <2>2, <2>3 DEF OnlyRun, OnlyOne, RunSteps, RunAsks, Asking, HasCourier
<1>10. CASE OthersFoundNone(d)
  <2>1. OnlyOne /\ run'[d].step = "wait" /\ OnlyReads /\ order' = order /\ run[d].step # "idle"
    BY <1>1, <1>3, <1>10 DEF OthersFoundNone, OnlyReads, pool, At
  <2> QED BY <1>2, <1>8, <2>1 DEF OnlyRun, OnlyOne, Asking, HasCourier
<1>11. ASSUME NEW c \in Carriers, Found(d, c, "findRoute"), OnlyReads, order' = order,
              run[d].step \notin {"idle", "release"}
       PROVE  OnlyRun(d) /\ RunSteps(d)
  BY <1>1, <1>2, <1>4, <1>11 DEF OnlyRun, OnlyOne, RunSteps, RunFinds
<1>12. CASE Ask(d)
  <2>1. OnlyReads /\ order' = order /\ run[d].step = "ask"
    BY <1>12 DEF Ask, OnlyReads, pool, At
  <2>2. CASE run' = [run EXCEPT ![d].step = "claim", ![d].since = now]
    <3>1. OnlyOne /\ run'[d].step = "claim"
      BY <1>1, <1>5, <2>2
    <3> QED BY <1>2, <1>8, <2>1, <3>1 DEF OnlyRun, OnlyOne, Asking, HasCourier
  <2> QED BY <1>11, <1>12, <2>1, <2>2 DEF Ask
<1>13. CASE Claim(d)
  <2>1. CASE UNCHANGED <<pool, now>> /\ (Goto(d, "conflict") \/ Goto(d, "none"))
    <3>1. OnlyReads /\ order' = order /\ run[d].step = "claim"
      BY <1>13, <2>1 DEF Claim, OnlyReads, pool, At
    <3>2. OnlyOne /\ run'[d].step \in {"conflict", "none"}
      BY <1>1, <1>3, <2>1
    <3> QED BY <1>2, <1>8, <3>1, <3>2 DEF OnlyRun, OnlyOne, Asking, HasCourier
  <2>2. ASSUME IndexAllows, NEW c \in Pool, NEW at \in run[d].since..now,
               courier' = [courier EXCEPT ![c] = "busy"],
               assignedAt' = [assignedAt EXCEPT ![c] = at],
               trip' = [trip EXCEPT ![c] = now],
               run' = [run EXCEPT ![d].step = "findRoute", ![d].courier = c,
                                  ![d].assigned = at, ![d].trip = now, ![d].since = 0],
               now' = now + 1
        PROVE  OnlyRun(d) /\ RunSteps(d)
    <3>1. at \in Nat /\ at <= now /\ c \in Courier
      BY <1>0
    <3>2. Holding(d, "findRoute", c, at, now, 0, run[d].stored)
      BY <1>0, <2>2, <3>1, ClaimMoves
    <3>3. /\ run'[d] \in Run /\ \A k \in Dispatcher \ {d} : run'[k] = run[k]
          /\ run'[d].step = "findRoute" /\ run'[d].courier = c /\ run'[d].assigned = at
          /\ run'[d].trip = now
      BY <1>0, <3>2, HoldingFields
    <3>4. run[d].step = "claim" /\ UNCHANGED <<order, route, outcomes>>
      BY <1>13 DEF Claim, At
    <3>5. RunClaims(d, c, at)
      BY <2>2, <3>3, <3>4 DEF RunClaims, IndexAllows
    <3> QED BY <1>2, <3>1, <3>3, <3>5 DEF OnlyRun, RunSteps
  <2> QED BY <1>13, <2>1, <2>2 DEF Claim
<1>14. CASE Winner(d)
  <2>1. OnlyReads /\ order' = order /\ run[d].step \in {"conflict", "none"}
    BY <1>14 DEF Winner, OnlyReads, pool, At
  <2>2. CASE Finish(d)
    BY <1>2, <1>6, <1>8, <2>1, <2>2 DEF OnlyRun, OnlyOne, Asking, HasCourier
  <2>3. CASE Become(d, [Idle EXCEPT !.step = "wait", !.seen = run[d].seen])
    <3> DEFINE r == [Idle EXCEPT !.step = "wait", !.seen = run[d].seen]
    <3>1. r \in Run /\ r.step = "wait"
      <4>1. "wait" \in DispatchStep /\ run[d].seen \in Order
        BY <1>0, <1>1, RunsAreRecords
      <4> QED BY <4>1, IdleBut, Zenon
    <3>2. Become(d, r)
      BY <2>3
    <3> HIDE DEF r
    <3>3. OnlyOne /\ run'[d].step = "wait"
      BY <1>0, <3>1, <3>2, BecomeFields DEF OnlyOne
    <3> QED BY <1>2, <1>8, <2>1, <3>3 DEF OnlyRun, OnlyOne, Asking, HasCourier
  <2> QED BY <1>11, <1>14, <2>1, <2>2, <2>3 DEF Winner
<1>15. CASE FindRoute(d)
  <2>1. OnlyReads /\ order' = order /\ run[d].step = "findRoute"
    BY <1>15 DEF FindRoute, OnlyReads, pool, At
  <2>2. CASE RouteStands(d)
    <3>1. OnlyOne /\ run'[d].step = "bind" /\ run'[d].courier = run[d].courier
      BY <1>7, <1>15, <2>2 DEF FindRoute
    <3> QED BY <1>2, <2>1, <3>1 DEF OnlyRun, OnlyOne, RunSteps, RunAsks, Asking, HasCourier
  <2>3. CASE ~RouteStands(d)
    <3>1. PICK x \in {"insert", "replace"} : run' = [run EXCEPT ![d].step = x, ![d].since = now]
      BY <1>15, <2>3 DEF FindRoute
    <3>2. /\ OnlyOne /\ run'[d].step = x /\ run'[d].courier = run[d].courier
          /\ run'[d].assigned = run[d].assigned /\ run'[d].trip = run[d].trip /\ run'[d].since = now
      BY <1>1, <1>5, <3>1
    <3> QED BY <1>2, <2>1, <2>3, <3>2 DEF OnlyRun, OnlyOne, RunSteps, RunPlans, Storing
  <2> QED BY <2>2, <2>3
<1>16. CASE InsertRoute(d) \/ ReplaceRoute(d)
  <2>1. OnlyOne /\ run'[d].step = "bind" /\ run'[d].courier = run[d].courier
    BY <1>7, <1>16 DEF InsertRoute, ReplaceRoute
  <2>2. /\ run[d].step \in Storing /\ order' = order
        /\ UNCHANGED <<courier, assignedAt, trip, outcomes>>
    BY <1>16 DEF InsertRoute, ReplaceRoute, At, Storing, pool
  <2>3. CASE UNCHANGED <<route, now>>
    BY <1>2, <2>1, <2>2, <2>3 DEF OnlyRun, OnlyOne, RunSteps, RunAsks, OnlyReads, Asking, HasCourier,
       Storing
  <2>4. ASSUME NEW at \in run[d].since..now, route' = NewRoute(d, at), now' = now + 1
        PROVE  OnlyRun(d) /\ RunSteps(d)
    <3>1. at \in Nat /\ at >= run[d].since /\ at <= now
      BY <1>0
    <3>2. route' = RouteFor(run[d].courier, at, run[d].trip)
      BY <2>4 DEF NewRoute, RouteFor
    <3>3. RunStores(d, at)
      BY <2>1, <2>2, <2>4, <3>1, <3>2 DEF RunStores
    <3> QED BY <1>2, <2>1, <3>1, <3>3 DEF OnlyRun, OnlyOne, RunSteps
  <2> QED BY <1>16, <2>3, <2>4 DEF InsertRoute, ReplaceRoute
<1>17. CASE Bind(d)
  <2>1. OnlyReads /\ run[d].step = "bind"
    BY <1>17 DEF Bind, OnlyReads, pool, At
  <2>2. CASE Fresh(d)
    <3>1. order' = Preparing(run[d].seen, run[d].courier) /\ OnlyOne /\ run'[d].step = "idle"
      BY <1>6, <1>17, <2>2 DEF Bind
    <3>2. order'.courier = run[d].courier /\ order'.status = "PREPARING"
      BY <3>1 DEF Preparing
    <3> QED BY <1>2, <2>1, <3>1, <3>2 DEF OnlyRun, OnlyOne, RunSteps, RunAsks, Asking, HasCourier
  <2>3. CASE ~Fresh(d)
    <3>1. order' = order /\ OnlyOne /\ run'[d].step = "reread" /\ run'[d].courier = run[d].courier
      BY <1>1, <1>3, <1>17, <2>3 DEF Bind
    <3> QED BY <1>2, <2>1, <3>1 DEF OnlyRun, OnlyOne, RunSteps, RunAsks, Asking, HasCourier
  <2> QED BY <2>2, <2>3
<1>18. CASE Reread(d)
  <2>1. OnlyReads /\ order' = order /\ run[d].step = "reread"
    BY <1>18 DEF Reread, OnlyReads, pool, At
  <2>2. CASE Finish(d)
    BY <1>2, <1>6, <1>8, <2>1, <2>2 DEF OnlyRun, OnlyOne, Asking, HasCourier
  <2>3. CASE Terminal(order) /\ Become(d, [Idle EXCEPT !.step = "release"])
    <3> DEFINE r == [Idle EXCEPT !.step = "release"]
    <3>1. r \in Run /\ r.step = "release"
      BY <1>1, IdleBut
    <3>2. Become(d, r)
      BY <2>3
    <3> HIDE DEF r
    <3>3. OnlyOne /\ run'[d].step = "release"
      BY <1>0, <3>1, <3>2, BecomeFields DEF OnlyOne
    <3> QED BY <1>2, <2>1, <2>3, <3>3 DEF OnlyRun, OnlyOne, RunSteps, RunAsks, Asking, HasCourier
  <2>4. CASE run' = [run EXCEPT ![d].step = "bind", ![d].seen = order, ![d].attempt = @ + 1]
    <3>1. order \in Order
      BY DEF TypeOK
    <3>2. /\ Holding(d, "bind", run[d].courier, run[d].assigned, run[d].trip, run[d].since, run[d].stored)
      BY <1>0, <2>4, <3>1, RereadMoves
    <3>3. /\ run'[d] \in Run /\ \A k \in Dispatcher \ {d} : run'[k] = run[k]
          /\ run'[d].step = "bind" /\ run'[d].courier = run[d].courier
      BY <1>0, <3>2, HoldingFields
    <3> QED BY <1>2, <2>1, <3>3 DEF OnlyRun, RunSteps, RunAsks, Asking, HasCourier
  <2> QED BY <1>18, <2>2, <2>3, <2>4 DEF Reread
<1>19. CASE Wait(d)
  <2>1. OnlyReads /\ run[d].step = "wait" /\ OnlyOne /\ run'[d].step = "idle"
    BY <1>6, <1>19 DEF Wait, OnlyReads, pool, At
  <2>2. order' = order \/ order' = Preparing(run[d].seen, NoCourier)
    BY <1>19 DEF Wait
  <2>3. order' # order => order'.courier = NoCourier /\ order'.status = "PREPARING"
    BY <2>2 DEF Preparing
  <2> QED BY <1>2, <2>1, <2>3 DEF OnlyRun, OnlyOne, RunSteps, RunAsks, Asking, HasCourier
<1>20. CASE Release(d)
  <2>1. OnlyReads /\ order' = order /\ run[d].step = "release"
    BY <1>20 DEF Release, OnlyReads, pool, At
  <2>2. CASE Finish(d)
    BY <1>2, <1>6, <1>8, <2>1, <2>2 DEF OnlyRun, OnlyOne, Asking, HasCourier
  <2>3. ASSUME NEW c \in Carriers, Found(d, c, "decide") PROVE OnlyRun(d) /\ RunSteps(d)
    BY <1>1, <1>2, <1>4, <2>1, <2>3 DEF OnlyRun, OnlyOne, RunSteps, RunFinds
  <2> QED BY <1>20, <2>2, <2>3 DEF Release
<1>21. CASE Decide(d)
  <2>1. OnlyReads /\ order' = order /\ run[d].step = "decide"
    BY <1>21 DEF Decide, OnlyReads, pool, At
  <2>2. CASE Finish(d)
    BY <1>2, <1>6, <1>8, <2>1, <2>2 DEF OnlyRun, OnlyOne, Asking, HasCourier
  <2>3. CASE /\ Goto(d, "free")
             /\ \/ ~BelongsToAssignment(route, run[d].courier, run[d].assigned)
                \/ ~route.delivered /\ route.state = "ENDED"
    <3>1. OnlyOne /\ run'[d].step = "free" /\ run'[d].courier = run[d].courier
      BY <1>1, <1>3, <2>3
    <3> QED BY <1>2, <2>1, <2>3, <3>1 DEF OnlyRun, OnlyOne, RunSteps, RunDecides
  <2>4. CASE run' = [run EXCEPT ![d].step = "end", ![d].stored = route]
    <3>1. Holding(d, "end", run[d].courier, run[d].assigned, run[d].trip, run[d].since, route)
      BY <1>0, <2>4, StoreMoves
    <3>2. /\ run'[d] \in Run /\ \A k \in Dispatcher \ {d} : run'[k] = run[k]
          /\ run'[d].step = "end" /\ run'[d].courier = run[d].courier /\ run'[d].stored = route
      BY <1>0, <3>1, HoldingFields
    <3> QED BY <1>2, <2>1, <3>2 DEF OnlyRun, RunSteps, RunDecides
  <2> QED BY <1>21, <2>2, <2>3, <2>4 DEF Decide
<1>22. CASE EndRoute(d)
  <2>1. /\ UNCHANGED <<order, courier, assignedAt, trip, now, outcomes>> /\ run[d].step = "end"
    BY <1>22 DEF EndRoute, pool, At
  <2>2. CASE Endable(run[d].stored)
    <3>1. Goto(d, "free") /\ route' = WithState(route, "ENDED")
      BY <1>22, <2>2 DEF EndRoute, WithState
    <3>2. /\ OnlyOne /\ run'[d].step = "free" /\ run'[d].courier = run[d].courier
          /\ run'[d].stored = run[d].stored
      BY <1>1, <1>3, <3>1
    <3> QED BY <1>2, <2>1, <2>2, <3>1, <3>2 DEF OnlyRun, OnlyOne, RunSteps, RunEnds
  <2>3. CASE ~Endable(run[d].stored)
    <3>1. Goto(d, "endReread") /\ route' = route
      BY <1>22, <2>3 DEF EndRoute
    <3>2. /\ OnlyOne /\ run'[d].step = "endReread" /\ run'[d].courier = run[d].courier
          /\ run'[d].stored = run[d].stored
      BY <1>1, <1>3, <3>1
    <3> QED BY <1>2, <2>1, <3>1, <3>2 DEF OnlyRun, OnlyOne, RunSteps, RunEnds
  <2> QED BY <2>2, <2>3
<1>23. CASE EndReread(d)
  <2>1. OnlyReads /\ order' = order /\ run[d].step = "endReread"
    BY <1>23 DEF EndReread, OnlyReads, pool, At
  <2>2. CASE Finish(d)
    BY <1>2, <1>6, <1>8, <2>1, <2>2 DEF OnlyRun, OnlyOne, Asking, HasCourier
  <2>3. CASE Goto(d, "free") /\ ~(SameRoute(route, run[d].stored) /\ route.state # "ENDED")
    <3>1. OnlyOne /\ run'[d].step = "free" /\ run'[d].courier = run[d].courier
      BY <1>1, <1>3, <2>3
    <3> QED BY <1>2, <2>1, <2>3, <3>1 DEF OnlyRun, OnlyOne, RunSteps, RunRereads
  <2> QED BY <1>23, <2>2, <2>3 DEF EndReread
<1>24. CASE Free(d)
  <2>1. OnlyOne /\ run'[d].step = "idle"
    BY <1>6, <1>24 DEF Free
  <2>2. RunFrees(d)
    BY <1>24, <2>1 DEF Free, RunFrees, At
  <2> QED BY <1>2, <2>1, <2>2 DEF OnlyRun, OnlyOne, RunSteps
<1>25. CASE DispatchFails(d)
  <2>1. OnlyReads /\ order' = order /\ run[d].step # "idle" /\ Finish(d)
    BY <1>25 DEF DispatchFails, OnlyReads, pool, At
  <2> QED BY <1>2, <1>6, <1>8, <2>1 DEF OnlyRun, OnlyOne, Asking, HasCourier
<1> QED
  BY <1>9, <1>10, <1>12, <1>13, <1>14, <1>15, <1>16, <1>17, <1>18, <1>19, <1>20, <1>21, <1>22,
     <1>23,
     <1>24, <1>25 DEF Dispatch

(* A step of a ticker leaves order, dispatchers and the other tickers.     *)
OnlyTurn(t) ==
  /\ UNCHANGED <<order, run, assignedAt, trip, now>> /\ tick'[t] \in Turn
  /\ \A u \in Ticker \ {t} : tick'[u] = tick[u]
TurnTo(t, step, seen) == tick'[t].step = step /\ tick'[t].seen = seen
TurnEnds(t) == \E x \in {"idle", "list"} : TurnTo(t, x, NoRoute)
TurnReads == UNCHANGED <<courier, route, events, outcomes>>

(* It ends; short of the publication only when something fails.             *)
TurnRests(t) == TurnReads /\ TurnEnds(t) /\ (tick[t].step = "publish" => failures'.tick # 0)
TurnLists(t) ==
  /\ TurnReads /\ tick[t].step \in {"idle", "list"} /\ route.state = "MOVING"
  /\ TurnTo(t, "couriers", route)
TurnReadsCouriers(t) ==
  /\ TurnReads /\ tick[t].step = "couriers"
  /\ \/ TurnTo(t, "advance", tick[t].seen)
     \/ TurnTo(t, "drop", tick[t].seen) /\ ~Carrying(tick[t].seen.courier)
TurnDrops(t) ==
  /\ UNCHANGED <<courier, events, outcomes>> /\ tick[t].step = "drop" /\ TurnEnds(t)
  /\ route' = route \/ (Endable(tick[t].seen) /\ route' = WithState(route, "ENDED"))
(* It goes on with a copy of the route, when there is work left.           *)
GoesOn(t, r) == TurnTo(t, NextWork(r), r) /\ NextWork(r) # "idle"
TurnAdvances(t) ==
  /\ TurnReads /\ tick[t].step = "advance"
  /\ \E x \in Stage :
       /\ x = tick[t].seen.stage \/ (SameRoute(route, tick[t].seen) /\ x = route.stage)
       /\ GoesOn(t, WithStage(tick[t].seen, x))
TurnPatches(t) ==
  /\ UNCHANGED <<courier, events, outcomes>> /\ Current(tick[t].seen)
  /\ \/ tick[t].step = "pick" /\ route' = WithPickUp(route, TRUE)
     \/ tick[t].step = "mark" /\ route' = WithTold(route, TRUE)
  /\ TurnEnds(t) \/ GoesOn(t, WithStage(route', tick[t].seen.stage))
TurnTells(t) ==
  /\ UNCHANGED <<courier, route, outcomes>> /\ tick[t].step = "tell"
  /\ events' = events \cup {PickedUp(tick[t].seen.courier)}
  /\ TurnTo(t, "mark", tick[t].seen)
TurnRecords(t) ==
  /\ UNCHANGED <<courier, events, outcomes>> /\ Current(tick[t].seen)
  /\ tick[t].step \in {"record", "confirm"} /\ route' = WithDelivery(route, TRUE)
  /\ TurnTo(t, "free", tick[t].seen)
TurnFrees(t) ==
  /\ UNCHANGED <<route, events, outcomes>> /\ tick[t].step = "free"
  /\ Freed(tick[t].seen.courier) /\ TurnTo(t, "publish", tick[t].seen)
TurnPublishes(t) ==
  /\ UNCHANGED <<courier, route>> /\ tick[t].step = "publish"
  /\ events' = events \cup {[kind |-> "delivered", courier |-> tick[t].seen.courier]}
  /\ outcomes' = outcomes \cup {[trip |-> tick[t].seen.trip, kind |-> "delivered"]}
  /\ TurnTo(t, "done", tick[t].seen)
TurnFinishes(t) ==
  /\ UNCHANGED <<courier, events, outcomes>> /\ tick[t].step = "done" /\ TurnEnds(t)
  /\ route' = route \/ (Current(tick[t].seen) /\ route' = WithState(route, "DONE"))
(* The reconciliation.                                                     *)
TurnLooks(t) ==
  /\ TurnReads /\ tick[t].step = "idle" /\ TurnTo(t, "routes", tick[t].seen)
  /\ tick'[t].courier \in Carriers
TurnFinds(t) ==
  /\ TurnReads /\ tick[t].step = "routes" /\ TurnTo(t, "freeStuck", tick[t].seen)
  /\ tick'[t].courier = tick[t].courier
  /\ route.courier = tick[t].courier /\ route.state \in {"ENDED", "DONE"}
TurnFreesStuck(t) ==
  /\ UNCHANGED <<route, events, outcomes>> /\ tick[t].step = "freeStuck"
  /\ Freed(tick[t].courier) /\ TurnEnds(t)

TurnSteps(t) ==
  \/ TurnRests(t) \/ TurnLists(t) \/ TurnReadsCouriers(t) \/ TurnDrops(t) \/ TurnAdvances(t)
  \/ TurnPatches(t) \/ TurnTells(t) \/ TurnRecords(t) \/ TurnFrees(t) \/ TurnPublishes(t)
  \/ TurnFinishes(t) \/ TurnLooks(t) \/ TurnFinds(t) \/ TurnFreesStuck(t)

LEMMA TurnFields ==
  ASSUME NEW t \in Ticker, tick \in [Ticker -> Turn], NEW w \in Turn, tick' = [tick EXCEPT ![t] = w]
  PROVE  tick'[t] = w /\ \A u \in Ticker \ {t} : tick'[u] = tick[u]
OBVIOUS

LEMMA TickerSteps ==
  ASSUME TypeOK, NEW t \in Ticker, TickerStep(t)
  PROVE  OnlyTurn(t) /\ TurnSteps(t)
<1>0. /\ tick \in [Ticker -> Turn] /\ tick[t] \in Turn /\ tick[t].seen \in Route /\ route \in Route
      /\ tick[t].seen.stage \in Stage /\ route.stage \in Stage
      /\ \A c \in Courier : assignedAt[c] \in Nat
  BY TurnsAreRecords, RoutesAreRecords DEF TypeOK
<1>1. TickStep = {"idle", "list", "couriers", "advance", "drop", "pick", "tell", "mark", "record",
                  "confirm", "free", "publish", "done", "routes", "freeStuck"}
  BY DEF TickStep
<1> DEFINE Others == tick'[t] \in Turn /\ \A u \in Ticker \ {t} : tick'[u] = tick[u]
           Kept == UNCHANGED <<order, run, assignedAt, trip, now>>
<1>2. ASSUME NEW x \in TickStep, NEW s \in Route, Turns(t, x, s) PROVE Others /\ TurnTo(t, x, s)
  BY <1>0, <1>2, TurnFields DEF Turns, TurnTo
<1>3. ASSUME NEW x \in TickStep, Proceed(t, x)
      PROVE  Others /\ TurnTo(t, x, tick[t].seen) /\ tick'[t].courier = tick[t].courier
  <2>1. LooksFor(t, x, tick[t].seen, tick[t].courier)
    BY <1>0, <1>3, ProceedTurns
  <2> QED BY <1>0, <2>1, TurnFields DEF LooksFor, TurnTo
<1>4. ASSUME NEW x \in TickStep, NEW s \in Route, Carry(t, x, s) PROVE Others /\ TurnTo(t, x, s)
  BY <1>0, <1>2, <1>4, CarryTurns
<1>5. ASSUME Rest(t) \/ ToList(t) PROVE Others /\ TurnEnds(t)
  BY <1>1, <1>2, <1>5, RestTurns, NoRouteIsARoute DEF TurnEnds
<1>6. ASSUME NEW r \in Route, Continue(t, r) PROVE Others /\ (TurnEnds(t) \/ GoesOn(t, r))
  <2>1. PICK x : x = NextWork(r)
    OBVIOUS
  <2>2. x \in TickStep
    BY <1>1, <2>1, NextWorkNeedsTelling, Zenon
  <2>3. CASE x = "idle"
    BY <1>5, <1>6, <2>1, <2>3 DEF Continue
  <2>4. CASE x # "idle"
    <3>1. Carry(t, x, r)
      BY <1>6, <2>1, <2>4 DEF Continue
    <3> QED BY <1>4, <2>1, <2>2, <2>4, <3>1 DEF GoesOn
  <2> QED BY <2>3, <2>4
<1>7. ASSUME NEW r \in Route, Patch(t, r)
      PROVE  /\ Others
             /\ \/ /\ Current(tick[t].seen) /\ route' = r
                   /\ TurnEnds(t) \/ GoesOn(t, WithStage(r, tick[t].seen.stage))
                \/ route' = route /\ TurnEnds(t)
  <2>1. CASE Current(tick[t].seen)
    <3>1. PICK q : q = WithStage(r, tick[t].seen.stage)
      OBVIOUS
    <3>2. q \in Route
      BY <1>0, <3>1, PatchKeeps
    <3>3. Continue(t, q) /\ route' = r
      BY <1>7, <2>1, <3>1 DEF Patch, WithStage
    <3> QED BY <1>6, <2>1, <3>1, <3>2, <3>3
  <2>2. CASE ~Current(tick[t].seen)
    BY <1>5, <1>7, <2>2 DEF Patch
  <2> QED BY <2>1, <2>2
<1>8. Others /\ Kept => OnlyTurn(t)
  BY DEF OnlyTurn
<1>9. TurnReads /\ TurnEnds(t) /\ tick[t].step # "publish" => TurnSteps(t)
  BY DEF TurnSteps, TurnRests
<1> HIDE DEF Others
<1>10. CASE ListMoving(t)
  <2>1. Kept /\ TurnReads /\ tick[t].step \in {"idle", "list"}
    BY <1>10 DEF ListMoving, TickKeeps, TurnReads, Doing
  <2>2. CASE Rest(t)
    BY <1>5, <1>8, <1>9, <2>1, <2>2
  <2>3. CASE Carry(t, "couriers", route) /\ route.state = "MOVING"
    BY <1>0, <1>1, <1>4, <1>8, <2>1, <2>3 DEF TurnSteps, TurnLists
  <2> QED BY <1>10, <2>2, <2>3 DEF ListMoving
<1>11. CASE ReadCouriers(t)
  <2>1. Kept /\ TurnReads /\ tick[t].step = "couriers"
    BY <1>11 DEF ReadCouriers, TickKeeps, TurnReads, Doing
  <2>2. \/ Proceed(t, "advance")
        \/ Proceed(t, "drop") /\ ~Carrying(tick[t].seen.courier)
    BY <1>11 DEF ReadCouriers
  <2> QED BY <1>1, <1>3, <1>8, <2>1, <2>2 DEF TurnSteps, TurnReadsCouriers
<1>12. CASE Drop(t)
  <2>1. Others /\ TurnEnds(t)
    BY <1>5, <1>12 DEF Drop
  <2>2. route' = route \/ (Endable(tick[t].seen) /\ route' = WithState(route, "ENDED"))
    BY <1>12 DEF Drop, WithState
  <2>3. Kept /\ UNCHANGED <<courier, events, outcomes>> /\ tick[t].step = "drop"
    BY <1>12 DEF Drop, TickKeeps, Doing
  <2> QED BY <1>8, <2>1, <2>2, <2>3 DEF TurnSteps, TurnDrops
<1>13. CASE Advance(t)
  <2>1. Kept /\ TurnReads /\ tick[t].step = "advance"
    BY <1>13 DEF Advance, TickKeeps, TurnReads, Doing
  <2>2. PICK x \in Stage : /\ x = tick[t].seen.stage \/ (SameRoute(route, tick[t].seen) /\ x = route.stage)
                           /\ Continue(t, WithStage(tick[t].seen, x))
    <3>1. PICK x : /\ x = IF SameRoute(route, tick[t].seen) THEN route.stage ELSE tick[t].seen.stage
                   /\ Continue(t, WithStage(tick[t].seen, x))
      BY <1>13 DEF Advance, WithStage
    <3>2. x \in Stage /\ (x = tick[t].seen.stage \/ (SameRoute(route, tick[t].seen) /\ x = route.stage))
      BY <1>0, <3>1
    <3> QED BY <3>1, <3>2
  <2>3. WithStage(tick[t].seen, x) \in Route
    BY <1>0, PatchKeeps
  <2>4. Others /\ (TurnEnds(t) \/ GoesOn(t, WithStage(tick[t].seen, x)))
    BY <1>6, <2>2, <2>3
  <2> QED BY <1>8, <1>9, <2>1, <2>2, <2>4 DEF TurnSteps, TurnAdvances
<1>14. CASE Pick(t) \/ Mark(t)
  <2>1. /\ Kept /\ UNCHANGED <<courier, events, outcomes>>
        /\ tick[t].step # "publish"
    BY <1>14 DEF Pick, Mark, TickKeeps, Doing
  <2>2. PICK q \in Route : /\ Patch(t, q)
                           /\ \/ tick[t].step = "pick" /\ q = WithPickUp(route, TRUE)
                              \/ tick[t].step = "mark" /\ q = WithTold(route, TRUE)
    <3>1. WithPickUp(route, TRUE) \in Route /\ WithTold(route, TRUE) \in Route
      BY <1>0, PatchKeeps
    <3> QED BY <1>14, <3>1 DEF Pick, Mark, Doing, WithPickUp, WithTold
  <2>3. /\ Others
        /\ \/ /\ Current(tick[t].seen) /\ route' = q
              /\ TurnEnds(t) \/ GoesOn(t, WithStage(q, tick[t].seen.stage))
           \/ route' = route /\ TurnEnds(t)
    BY <1>7, <2>2
  <2>4. TurnPatches(t) \/ (TurnReads /\ TurnEnds(t))
    BY <2>1, <2>2, <2>3 DEF TurnPatches, TurnReads
  <2> QED BY <1>8, <1>9, <2>1, <2>3, <2>4 DEF TurnSteps
<1>15. CASE Tell(t)
  <2>1. Others /\ TurnTo(t, "mark", tick[t].seen)
    BY <1>1, <1>3, <1>15 DEF Tell
  <2>2. Kept /\ TurnTells(t)
    BY <1>15, <2>1 DEF Tell, TickKeeps, TurnTells, Doing, PickedUp
  <2> QED BY <1>8, <2>1, <2>2 DEF TurnSteps
<1>16. CASE Record(t) \/ Confirm(t)
  <2>1. /\ Kept /\ UNCHANGED <<courier, events, outcomes>> /\ tick[t].step \in {"record", "confirm"}
    BY <1>16 DEF Record, Confirm, TickKeeps, Doing
  <2>2. CASE Current(tick[t].seen)
    <3>1. route' = WithDelivery(route, TRUE) /\ Carry(t, "free", tick[t].seen)
      BY <1>16, <2>2 DEF Record, Confirm, WithDelivery
    <3>2. Others /\ TurnTo(t, "free", tick[t].seen)
      BY <1>0, <1>1, <1>4, <3>1
    <3> QED BY <1>8, <2>1, <2>2, <3>1, <3>2 DEF TurnSteps, TurnRecords
  <2>3. CASE ~Current(tick[t].seen)
    <3>1. route' = route /\ Rest(t)
      BY <1>16, <2>3 DEF Record, Confirm
    <3> QED BY <1>5, <1>8, <1>9, <2>1, <3>1 DEF TurnReads
  <2> QED BY <2>2, <2>3
<1>17. CASE FreeCarrier(t)
  <2>1. Others /\ TurnTo(t, "publish", tick[t].seen)
    BY <1>1, <1>3, <1>17 DEF FreeCarrier
  <2>2. Kept /\ TurnFrees(t)
    BY <1>17, <2>1 DEF FreeCarrier, TickKeeps, TurnFrees, Doing
  <2> QED BY <1>8, <2>1, <2>2 DEF TurnSteps
<1>18. CASE Publish(t)
  <2>1. Others /\ TurnTo(t, "done", tick[t].seen)
    BY <1>1, <1>3, <1>18 DEF Publish
  <2>2. Kept /\ TurnPublishes(t)
    BY <1>18, <2>1 DEF Publish, TickKeeps, TurnPublishes, Doing
  <2> QED BY <1>8, <2>1, <2>2 DEF TurnSteps
<1>19. CASE Done(t)
  <2>1. Others /\ TurnEnds(t)
    BY <1>5, <1>19 DEF Done
  <2>2. route' = route \/ (Current(tick[t].seen) /\ route' = WithState(route, "DONE"))
    BY <1>19 DEF Done, WithState
  <2>3. Kept /\ UNCHANGED <<courier, events, outcomes>> /\ tick[t].step = "done"
    BY <1>19 DEF Done, TickKeeps, Doing
  <2> QED BY <1>8, <2>1, <2>2, <2>3 DEF TurnSteps, TurnFinishes
<1>20. CASE ListCarrying(t)
  <2>1. PICK c \in Carriers :
          tick' = [tick EXCEPT ![t].step = "routes", ![t].courier = c, ![t].assigned = assignedAt[c]]
    BY <1>20 DEF ListCarrying
  <2>2. c \in Courier /\ assignedAt[c] \in Nat
    BY <1>0 DEF Carriers
  <2>3. LooksFor(t, "routes", tick[t].seen, c)
    BY <1>0, <2>1, <2>2, CarryingTurns
  <2>4. Others /\ TurnTo(t, "routes", tick[t].seen) /\ tick'[t].courier = c
    BY <1>0, <2>3, TurnFields DEF LooksFor, TurnTo, Others
  <2>5. Kept /\ TurnLooks(t)
    BY <1>20, <2>4 DEF ListCarrying, TickKeeps, TurnLooks, TurnReads, Doing
  <2> QED BY <1>8, <2>4, <2>5 DEF TurnSteps
<1>21. CASE ReadRoutes(t)
  <2>1. Kept /\ TurnReads /\ tick[t].step = "routes"
    BY <1>21 DEF ReadRoutes, TickKeeps, TurnReads, Doing
  <2>2. CASE Stuck(t)
    <3>1. Proceed(t, "freeStuck")
      BY <1>21, <2>2 DEF ReadRoutes
    <3>2. /\ Others /\ TurnTo(t, "freeStuck", tick[t].seen) /\ tick'[t].courier = tick[t].courier
      BY <1>1, <1>3, <3>1
    <3>3. TurnFinds(t)
      BY <2>1, <2>2, <3>2 DEF TurnFinds, Stuck, BelongsToAssignment
    <3> QED BY <1>8, <2>1, <3>2, <3>3 DEF TurnSteps
  <2>3. CASE ~Stuck(t)
    BY <1>5, <1>8, <1>9, <1>21, <2>1, <2>3 DEF ReadRoutes
  <2> QED BY <2>2, <2>3
<1>22. CASE FreeStuck(t)
  <2>1. Others /\ TurnEnds(t)
    BY <1>5, <1>22 DEF FreeStuck
  <2>2. Kept /\ TurnFreesStuck(t)
    BY <1>22, <2>1 DEF FreeStuck, TickKeeps, TurnFreesStuck, Doing
  <2> QED BY <1>8, <2>1, <2>2 DEF TurnSteps
<1>23. CASE TickFails(t)
  <2>1. Others /\ TurnEnds(t)
    BY <1>5, <1>23 DEF TickFails
  <2>2. failures'.tick # 0
    <3>1. failures \in Failures /\ failures.tick \in 0..MaxTickFailures
      BY FailuresCount DEF TypeOK, Failures
    <3>2. failures' = CountsTurn(failures, failures.tick + 1)
      BY <1>23 DEF TickFails, CountsTurn
    <3>3. failures.tick + 1 \in 0..MaxTickFailures /\ failures.tick + 1 # 0
      BY <1>23, <3>1, CourierAssumption DEF TickFails
    <3> QED BY <3>1, <3>2, <3>3, FailuresCount
  <2>3. Kept /\ TurnRests(t)
    BY <1>23, <2>1, <2>2 DEF TickFails, TurnRests, TurnReads, pool
  <2> QED BY <1>8, <2>1, <2>3 DEF TurnSteps
<1> QED
  BY <1>10, <1>11, <1>12, <1>13, <1>14, <1>15, <1>16, <1>17, <1>18, <1>19, <1>20, <1>21, <1>22,
     <1>23
  DEF TickerStep, MoveRoute, Reconcile

(* The courier gets further: no call of a dispatcher is inside courier-service. *)
Travels ==
  /\ UNCHANGED <<order, courier, assignedAt, trip, events, run, tick, now, outcomes>>
  /\ PromptCalls => \A d \in Dispatcher : run[d].step \notin ServiceStep
  /\ route.state = "MOVING"
  /\ \E x \in {"toCustomer", "arrived"} : route' = WithStage(route, x)
(* A milestone is recorded, a courier comes back, or nothing happens.      *)
Elsewhere ==
  /\ UNCHANGED <<assignedAt, trip, route, events, run, tick, now, outcomes>>
  /\ order'.courier = order.courier /\ (order' # order => order.courier # NoCourier)
  /\ \A c \in Courier : courier'[c] = "busy" <=> courier[c] = "busy"

LEMMA StepsAre ==
  ASSUME IInv, [Next]_vars
  PROVE  \/ \E d \in Dispatcher : OnlyRun(d) /\ RunSteps(d)
         \/ \E t \in Ticker : OnlyTurn(t) /\ TurnSteps(t)
         \/ Travels \/ Elsewhere
<1>0. TypeOK /\ \A d \in Dispatcher : RunInv(run[d])
  BY DEF IInv
<1>1. CASE Travel
  <2>1. PICK x \in {"toCustomer", "arrived"} : route' = WithStage(route, x)
    BY <1>1 DEF Travel, WithStage
  <2> QED BY <1>1, <2>1 DEF Travel, Travels, pool
<1>2. ASSUME NEW e \in Event, RecordMilestone(e) PROVE Elsewhere
  <2>1. order.courier = e.courier /\ e.courier \in Courier
    BY <1>2 DEF RecordMilestone, Concerns, Event
  <2>2. order.courier # NoCourier
    BY <2>1, CourierAssumption
  <2>3. order'.courier = order.courier
    <3>1. order' # order => Writes
      BY <1>0, OrderMoves DEF IInv
    <3> QED BY <2>2, <3>1 DEF Writes
  <2> QED BY <1>2, <2>2, <2>3 DEF RecordMilestone, Elsewhere, pool
<1>3. ASSUME NEW c \in Courier, ComesBack(c) PROVE Elsewhere
  <2>1. courier \in [Courier -> {"idle", "busy", "away"}]
    BY <1>0 DEF TypeOK
  <2> QED BY <1>3, <2>1 DEF ComesBack, Elsewhere
<1>4. CASE UNCHANGED vars
  BY <1>4 DEF vars, Elsewhere
<1> QED BY <1>0, <1>1, <1>2, <1>3, <1>4, DispatcherSteps, TickerSteps DEF Next, TickerStep

(* An order that is over is not written any more.                          *)
LEMMA TerminalStays ==
  ASSUME IInv, [Next]_vars, Terminal(order)
  PROVE  order' = order
<1>0. TypeOK /\ OrderInv /\ \A d \in Dispatcher : RunInv(run[d])
  BY DEF IInv
<1>1. ~NeedsCourier(order) /\ order.status = "DELIVERED"
  BY DEF Terminal, NeedsCourier
<1>2. ASSUME NEW d \in Dispatcher, Dispatch(d) \/ DispatchFails(d) PROVE order' = order
  <2>1. Fresh(d) => NeedsCourier(order)
    BY <1>0 DEF Fresh, RunInv
  <2>2. CASE Bind(d) \/ Wait(d)
    BY <1>1, <2>1, <2>2 DEF Bind, Wait
  <2>3. CASE ReadQueue(d) \/ OthersFoundNone(d) \/ Ask(d) \/ Claim(d) \/ Winner(d) \/ FindRoute(d)
             \/ InsertRoute(d) \/ ReplaceRoute(d)
    BY <2>3 DEF ReadQueue, OthersFoundNone, Ask, Claim, Winner, FindRoute, InsertRoute, ReplaceRoute
  <2>4. CASE Reread(d) \/ Release(d) \/ Decide(d) \/ EndRoute(d) \/ EndReread(d) \/ Free(d)
             \/ DispatchFails(d)
    BY <2>4 DEF Reread, Release, Decide, EndRoute, EndReread, Free, DispatchFails
  <2> QED BY <1>2, <2>2, <2>3, <2>4 DEF Dispatch
<1>3. ASSUME NEW t \in Ticker, TickerStep(t) PROVE order' = order
  BY <1>0, <1>3, TickerSteps DEF OnlyTurn
<1>4. ASSUME NEW e \in Event, RecordMilestone(e) PROVE FALSE
  <2>1. Milestone(e) = <<order.status, 0>>
    BY <1>1 DEF Milestone
  <2> QED BY <1>4, <2>1 DEF RecordMilestone
<1> QED BY <1>2, <1>3, <1>4 DEF Next, vars, Travel, ComesBack, TickerStep

-----------------------------------------------------------------------------
(* Who was claimed delivers *)

(* The delivery of a courier is told, or about to be; or the order is over. *)
Delivered(c) == [kind |-> "delivered", courier |-> c]
Heard(c) ==
  \/ Delivered(c) \in events
  \/ \E t \in Ticker : tick[t].step = "publish" /\ tick[t].seen.courier = c
Settled(c) == Heard(c) \/ Terminal(order)
Claimed(c) == trip[c] > 0

Releasing == {"release", "decide", "end", "endReread", "free"}
RunClaimed(r) ==
  /\ r.step \in HasCourier => Claimed(r.courier)
  /\ r.step \in Releasing => Terminal(order)
TurnClaimed(w) ==
  /\ w.step \notin OffRoute => Claimed(w.seen.courier)
  /\ w.step \in {"routes", "freeStuck"} => w.courier \in Courier /\ Claimed(w.courier)
  /\ w.step = "drop" => Settled(w.seen.courier)
  /\ w.step = "done" => Delivered(w.seen.courier) \in events
  /\ w.step = "freeStuck" => Settled(w.courier)
RouteClaimed ==
  /\ route.state # "NONE" => Claimed(route.courier)
  /\ route.state = "DONE" => Delivered(route.courier) \in events
  /\ route.state = "ENDED" => Settled(route.courier)
PoolClaimed ==
  /\ now >= 1
  /\ \A c \in Courier : Carrying(c) => Claimed(c)
  /\ \A c \in Courier : Claimed(c) => Carrying(c) \/ Settled(c)
OrderClaimed == order.courier # NoCourier => Claimed(order.courier)

ClaimsInv ==
  /\ PoolClaimed /\ OrderClaimed /\ RouteClaimed
  /\ \A d \in Dispatcher : RunClaimed(run[d])
  /\ \A t \in Ticker : TurnClaimed(tick[t])

LEMMA ClaimedStays ==
  ASSUME IInv, now >= 1, [Next]_vars, NEW c \in Courier, Claimed(c)
  PROVE  Claimed(c)'
<1>0. trip \in [Courier -> Nat] /\ now \in Nat
  BY DEF IInv, TypeOK
<1>1. trip' = trip \/ \E k \in Courier : trip' = [trip EXCEPT ![k] = now]
  BY StepsAre DEF RunSteps, RunAsks, RunFinds, RunClaims, RunPlans, RunStores, RunDecides, RunEnds,
                  RunRereads, RunFrees, OnlyReads, OnlyTurn, Travels, Elsewhere, Pool
<1> QED BY <1>0, <1>1 DEF Claimed

LEMMA SettledStays ==
  ASSUME IInv, [Next]_vars, failures'.tick = 0, NEW c, Settled(c)
  PROVE  Settled(c)' /\ (Heard(c) => Heard(c)')
<1>0. events \subseteq events'
  BY EventsKept DEF IInv
<1>1. Terminal(order) => Terminal(order')
  BY TerminalStays
<1>2. Delivered(c) \in events => Delivered(c) \in events'
  BY <1>0
<1>3. ASSUME NEW t \in Ticker, tick[t].step = "publish", tick[t].seen.courier = c
      PROVE  Heard(c)'
  <2>1. CASE tick'[t] = tick[t]
    BY <1>3, <2>1 DEF Heard
  <2>2. CASE tick'[t] # tick[t]
    <3>1. OnlyTurn(t) /\ TurnSteps(t)
      BY <2>2, StepsAre DEF OnlyRun, OnlyTurn, Travels, Elsewhere
    <3>2. TurnRests(t) \/ TurnPublishes(t)
      BY <1>3, <3>1 DEF TurnSteps, TurnLists, TurnReadsCouriers, TurnDrops, TurnAdvances,
         TurnPatches, TurnTells,
            TurnRecords, TurnFrees, TurnFinishes, TurnLooks, TurnFinds, TurnFreesStuck
    <3> QED BY <1>0, <1>3, <3>2 DEF TurnRests, TurnPublishes, Heard, Delivered
  <2> QED BY <2>1, <2>2
<1> QED BY <1>1, <1>2, <1>3 DEF Settled, Heard, Terminal

LEMMA ClaimsInitially == Init => ClaimsInv
<1> SUFFICES ASSUME Init PROVE ClaimsInv
  OBVIOUS
<1>2. \A c \in Courier : ~Carrying(c) /\ ~Claimed(c)
  BY DEF Init, Carrying, Claimed
<1>3. \A d \in Dispatcher : run[d].step = "idle"
  BY IdleIsARun, FieldsOfRunOf DEF Init
<1>4. \A t \in Ticker : tick[t].step = "idle"
  BY RestTurns DEF Init
<1>5. order.courier = NoCourier /\ route.state = "NONE" /\ now = 1
  BY NoRouteFields DEF Init, Paid
<1>6. \A d \in Dispatcher : RunClaimed(run[d])
  BY <1>3 DEF RunClaimed, HasCourier, Releasing
<1>7. \A t \in Ticker : TurnClaimed(tick[t])
  BY <1>4 DEF TurnClaimed, OffRoute
<1> QED BY <1>2, <1>5, <1>6, <1>7 DEF ClaimsInv, PoolClaimed, OrderClaimed, RouteClaimed

(* What every step may rely on.                                            *)
LEMMA ClaimsStand ==
  ASSUME IInv, ClaimsInv, [Next]_vars, failures'.tick = 0
  PROVE  /\ \A c \in Courier : Claimed(c) => Claimed(c)'
         /\ \A c : Settled(c) => Settled(c)'
         /\ \A c : Heard(c) => Heard(c)'
         /\ Terminal(order) => Terminal(order)'
         /\ events \subseteq events'
<1>1. now >= 1
  BY DEF ClaimsInv, PoolClaimed
<1>2. \A c \in Courier : Claimed(c) => Claimed(c)'
  BY <1>1, ClaimedStays
<1>3. \A c : Settled(c) => Settled(c)' /\ (Heard(c) => Heard(c)')
  BY SettledStays
<1>4. Terminal(order) => Terminal(order)'
  BY TerminalStays DEF Terminal
<1> QED BY <1>2, <1>3, <1>4, EventsKept DEF IInv, Settled

LEMMA RunsStayClaimed ==
  ASSUME IInv, ClaimsInv, [Next]_vars, failures'.tick = 0
  PROVE  (\A d \in Dispatcher : RunClaimed(run[d]))' /\ OrderClaimed'
<1>0. /\ \A c \in Courier : Claimed(c) => Claimed(c)'
      /\ Terminal(order) => Terminal(order)'
      /\ \A d \in Dispatcher : RunClaimed(run[d])
      /\ OrderClaimed /\ PoolClaimed
      /\ trip \in [Courier -> Nat] /\ now \in Nat
  BY ClaimsStand DEF ClaimsInv, IInv, TypeOK
<1>1. /\ \A d \in Dispatcher : run[d].step \in HasCourier => run[d].courier \in Courier
      /\ order.courier \in Courier \cup {NoCourier}
  BY DEF IInv, RunInv, TypeOK, Order
<1>2. ASSUME NEW e \in Dispatcher, run'[e] = run[e] PROVE RunClaimed(run[e])'
  BY <1>0, <1>1, <1>2 DEF RunClaimed
<1>3. ASSUME order'.courier = order.courier PROVE OrderClaimed'
  BY <1>0, <1>1, <1>3 DEF OrderClaimed
<1>4. ASSUME NEW d \in Dispatcher, OnlyRun(d), RunSteps(d)
      PROVE  RunClaimed(run[d])' /\ OrderClaimed'
  <2>1. CASE RunAsks(d)
    <3>1. run'[d].step \in Releasing => Terminal(order)
      BY <2>1 DEF RunAsks, Asking, Releasing
    <3>2. run'[d].step \in HasCourier => Claimed(run[d].courier)' /\ run'[d].courier = run[d].courier
      BY <1>0, <1>1, <2>1 DEF RunAsks, RunClaimed
    <3>3. OrderClaimed'
      <4>1. CASE order' = order
        BY <1>3, <4>1
      <4>2. CASE order' # order
        BY <1>0, <1>1, <2>1, <4>2 DEF RunAsks, OrderClaimed, RunClaimed
      <4> QED BY <4>1, <4>2
    <3> QED BY <1>0, <3>1, <3>2, <3>3 DEF RunClaimed
  <2>2. ASSUME NEW c \in Carriers, RunFinds(d, c) PROVE RunClaimed(run[d])' /\ OrderClaimed'
    <3>1. c \in Courier /\ Claimed(c)
      BY <1>0 DEF Carriers, PoolClaimed
    <3>2. run'[d].step \in Releasing => Terminal(order)
      BY <1>0, <2>2 DEF RunFinds, RunClaimed, Releasing
    <3> QED BY <1>0, <1>3, <2>2, <3>1, <3>2 DEF RunFinds, RunClaimed
  <2>3. ASSUME NEW c \in Pool, NEW at \in Nat, RunClaims(d, c, at)
        PROVE  RunClaimed(run[d])' /\ OrderClaimed'
    <3>1. c \in Courier /\ Claimed(c)'
      BY <1>0, <2>3 DEF Pool, RunClaims, Claimed, PoolClaimed
    <3> QED BY <1>3, <2>3, <3>1 DEF RunClaims, RunClaimed, Releasing
  <2>4. CASE RunPlans(d) \/ \E at \in Nat : RunStores(d, at)
    <3>1. order' = order /\ run'[d].courier = run[d].courier /\ run[d].step \in HasCourier
      BY <2>4 DEF RunPlans, RunStores, HasCourier, Storing
    <3>2. run'[d].step \notin Releasing
      BY <2>4 DEF RunPlans, RunStores, Releasing, Storing
    <3> QED BY <1>0, <1>1, <1>3, <3>1, <3>2 DEF RunClaimed
  <2>5. CASE RunDecides(d) \/ RunEnds(d) \/ RunRereads(d)
    <3>1. /\ order' = order /\ run'[d].courier = run[d].courier
          /\ run[d].step \in HasCourier /\ run[d].step \in Releasing
      BY <2>5 DEF RunDecides, RunEnds, RunRereads, HasCourier, Releasing
    <3> QED BY <1>0, <1>1, <1>3, <3>1 DEF RunClaimed
  <2>6. CASE RunFrees(d)
    BY <1>3, <2>6 DEF RunFrees, RunClaimed, HasCourier, Releasing
  <2> QED BY <1>4, <2>1, <2>2, <2>3, <2>4, <2>5, <2>6 DEF RunSteps
<1>5. CASE \E d \in Dispatcher : OnlyRun(d) /\ RunSteps(d)
  BY <1>2, <1>4, <1>5 DEF OnlyRun
<1>6. CASE (\E t \in Ticker : OnlyTurn(t) /\ TurnSteps(t)) \/ Travels \/ Elsewhere
  BY <1>2, <1>3, <1>6 DEF OnlyTurn, Travels, Elsewhere
<1> QED BY <1>5, <1>6, StepsAre

LEMMA PoolStaysClaimed ==
  ASSUME IInv, ClaimsInv, [Next]_vars, failures'.tick = 0
  PROVE  PoolClaimed'
<1>0. /\ \A c \in Courier : Claimed(c) => Claimed(c)'
      /\ \A c : Settled(c) => Settled(c)'
      /\ \A c : Heard(c) => Heard(c)'
      /\ Terminal(order) => Terminal(order)'
      /\ PoolClaimed /\ now \in Nat /\ trip \in [Courier -> Nat]
      /\ courier \in [Courier -> {"idle", "busy", "away"}]
  BY ClaimsStand DEF ClaimsInv, IInv, TypeOK
<1> DEFINE Same == /\ trip' = trip /\ now' >= 1
                   /\ \A c \in Courier : courier'[c] = "busy" <=> courier[c] = "busy"
<1>1. ASSUME Same PROVE PoolClaimed'
  BY <1>0, <1>1 DEF PoolClaimed, Carrying, Claimed
<1>2. ASSUME NEW k \in Courier, Freed(k), trip' = trip, now' = now, Settled(k)' PROVE PoolClaimed'
  <2>1. \A c \in Courier : /\ courier'[c] = "busy" => courier[c] = "busy"
                           /\ c # k => courier'[c] = courier[c]
    BY <1>0, <1>2 DEF Freed
  <2> QED BY <1>0, <1>2, <2>1 DEF PoolClaimed, Carrying, Claimed
<1>3. ASSUME NEW d \in Dispatcher, OnlyRun(d), RunSteps(d) PROVE PoolClaimed'
  <2>1. CASE RunAsks(d) \/ (\E c \in Carriers : RunFinds(d, c)) \/ RunPlans(d) \/ RunDecides(d)
             \/ RunRereads(d)
    BY <1>0, <1>1, <2>1 DEF RunAsks, RunFinds, RunPlans, RunDecides, RunRereads, OnlyReads,
       PoolClaimed
  <2>2. CASE RunEnds(d) \/ \E at \in Nat : RunStores(d, at)
    BY <1>0, <1>1, <2>2 DEF RunEnds, RunStores, PoolClaimed
  <2>3. ASSUME NEW c \in Pool, NEW at \in Nat, RunClaims(d, c, at) PROVE PoolClaimed'
    <3>1. /\ c \in Courier /\ courier' = [courier EXCEPT ![c] = "busy"]
          /\ trip' = [trip EXCEPT ![c] = now] /\ now' = now + 1
      BY <2>3 DEF RunClaims, Pool
    <3>2. now >= 1 /\ now' >= 1
      BY <1>0, <3>1 DEF PoolClaimed
    <3>3. \A k \in Courier : k # c => courier'[k] = courier[k] /\ trip'[k] = trip[k]
      BY <1>0, <3>1
    <3>4. courier'[c] = "busy" /\ trip'[c] = now
      BY <1>0, <3>1
    <3> QED BY <1>0, <3>2, <3>3, <3>4 DEF PoolClaimed, Carrying, Claimed
  <2>4. CASE RunFrees(d)
    <3>1. run[d].courier \in Courier /\ Terminal(order)
      BY <2>4 DEF RunFrees, ClaimsInv, RunClaimed, IInv, RunInv, HasCourier, Releasing
    <3> QED BY <1>0, <1>2, <2>4, <3>1 DEF RunFrees, Settled
  <2> QED BY <1>3, <2>1, <2>2, <2>3, <2>4 DEF RunSteps
<1>4. ASSUME NEW t \in Ticker, OnlyTurn(t), TurnSteps(t) PROVE PoolClaimed'
  <2>0. trip' = trip /\ now' = now
    BY <1>4 DEF OnlyTurn
  <2>1. CASE courier' = courier
    BY <1>0, <1>1, <2>0, <2>1 DEF PoolClaimed
  <2>2. CASE TurnFrees(t)
    <3>1. PICK k \in Courier : k = tick[t].seen.courier
      BY <2>2 DEF TurnFrees, IInv, TurnInv, OffRoute
    <3>2. Heard(k)'
      BY <2>2, <3>1 DEF TurnFrees, TurnTo, Heard
    <3> QED BY <1>2, <2>0, <2>2, <3>1, <3>2 DEF TurnFrees, Settled
  <2>3. CASE TurnFreesStuck(t)
    <3>1. PICK k \in Courier : k = tick[t].courier /\ Settled(k)
      BY <2>3 DEF TurnFreesStuck, ClaimsInv, TurnClaimed
    <3> QED BY <1>0, <1>2, <2>0, <2>3, <3>1 DEF TurnFreesStuck
  <2> QED BY <1>4, <2>1, <2>2, <2>3 DEF TurnSteps, TurnReads, TurnRests, TurnLists,
             TurnReadsCouriers,
            TurnDrops, TurnAdvances, TurnPatches, TurnTells, TurnRecords, TurnPublishes, TurnFinishes,
            TurnLooks, TurnFinds
<1>5. CASE Travels \/ Elsewhere
  BY <1>0, <1>1, <1>5 DEF Travels, Elsewhere, PoolClaimed
<1> QED BY <1>3, <1>4, <1>5, StepsAre

LEMMA RouteStaysClaimed ==
  ASSUME IInv, ClaimsInv, [Next]_vars, failures'.tick = 0
  PROVE  RouteClaimed'
<1>0. /\ \A c \in Courier : Claimed(c) => Claimed(c)'
      /\ \A c : Settled(c) => Settled(c)'
      /\ Terminal(order) => Terminal(order)' /\ events \subseteq events'
      /\ RouteClaimed /\ route \in Route
      /\ route.state # "NONE" => route.courier \in Courier
      /\ "ENDED" \in RouteStates /\ "DONE" \in RouteStates
  BY ClaimsStand DEF ClaimsInv, IInv, TypeOK, RouteInv, RouteStates
<1>b. events \subseteq events'
  BY ClaimsStand
<1>a. ASSUME NEW k, Delivered(k) \in events PROVE Delivered(k) \in events'
  BY <1>a, <1>b
<1>1. ASSUME route' = route PROVE RouteClaimed'
  <2>1. PICK c : c = route.courier
    OBVIOUS
  <2>2. route.state # "NONE" => Claimed(c)'
    BY <1>0, <2>1 DEF RouteClaimed
  <2>3. route.state = "DONE" => Delivered(c) \in events'
    BY <1>0, <1>a, <2>1 DEF RouteClaimed
  <2>4. route.state = "ENDED" => Settled(c)'
    BY <1>0, <2>1 DEF RouteClaimed
  <2> QED BY <1>1, <2>1, <2>2, <2>3, <2>4 DEF RouteClaimed
<1>2. ASSUME route.state = "MOVING", route'.courier = route.courier, route'.state = "MOVING"
      PROVE  RouteClaimed'
  BY <1>0, <1>2 DEF RouteClaimed
<1>3. ASSUME NEW k \in Courier, route.state = "MOVING", route.courier = k,
             \/ route' = WithState(route, "ENDED") /\ Settled(k)
             \/ route' = WithState(route, "DONE") /\ Delivered(k) \in events
      PROVE  RouteClaimed'
  <2>1. route'.courier = k /\ Claimed(k)'
    BY <1>0, <1>3, PatchedFields DEF SameNames, RouteClaimed
  <2>2. CASE route' = WithState(route, "ENDED") /\ Settled(k)
    <3>1. route'.state = "ENDED"
      BY <1>0, <2>2, PatchedFields
    <3> QED BY <1>0, <2>1, <2>2, <3>1 DEF RouteClaimed
  <2>3. CASE route' = WithState(route, "DONE") /\ Delivered(k) \in events
    <3>1. route'.state = "DONE"
      BY <1>0, <2>3, PatchedFields
    <3>2. Delivered(k) \in events'
      BY <1>a, <2>3
    <3> QED BY <2>1, <3>1, <3>2 DEF RouteClaimed
  <2> QED BY <1>3, <2>2, <2>3
<1>4. ASSUME NEW d \in Dispatcher, OnlyRun(d), RunSteps(d) PROVE RouteClaimed'
  <2>1. CASE route' = route
    BY <1>1, <2>1
  <2>2. ASSUME NEW at \in Nat, RunStores(d, at) PROVE RouteClaimed'
    <3>1. run[d].courier \in Courier /\ Claimed(run[d].courier)
      BY <2>2 DEF RunStores, Storing, ClaimsInv, RunClaimed, HasCourier, IInv, RunInv
    <3>2. PICK k \in Courier : k = run[d].courier /\ Claimed(k)
      BY <3>1
    <3>3. run[d].trip \in Nat
      BY RunsAreRecords DEF IInv, TypeOK
    <3>4. route'.courier = k /\ route'.state = "MOVING"
      BY <2>2, <3>2, <3>3, NewRouteFields DEF RunStores
    <3> QED BY <1>0, <3>2, <3>4 DEF RouteClaimed
  <2>3. CASE RunEnds(d) /\ route' # route
    <3>1. Endable(run[d].stored) /\ route' = WithState(route, "ENDED") /\ Terminal(order)
      BY <2>3 DEF RunEnds, ClaimsInv, RunClaimed, Releasing
    <3> QED BY <1>0, <1>3, <3>1 DEF Endable, Current, Settled
  <2> QED BY <1>4, <2>1, <2>2, <2>3 DEF RunSteps, RunAsks, RunFinds, RunClaims, RunPlans,
             RunDecides,
            RunRereads, RunFrees, OnlyReads
<1>5. ASSUME NEW t \in Ticker, OnlyTurn(t), TurnSteps(t) PROVE RouteClaimed'
  <2>0. Current(tick[t].seen) => /\ route.state = "MOVING" /\ route.courier \in Courier
                                 /\ route.courier = tick[t].seen.courier
    BY <1>0 DEF Current, SameRoute
  <2>1. CASE route' = route
    BY <1>1, <2>1
  <2>2. CASE TurnDrops(t) /\ route' # route
    <3>1. Settled(tick[t].seen.courier)
      BY <2>2 DEF TurnDrops, ClaimsInv, TurnClaimed
    <3> QED BY <1>3, <2>0, <2>2, <3>1 DEF TurnDrops, Endable
  <2>3. CASE TurnFinishes(t) /\ route' # route
    <3>1. Delivered(tick[t].seen.courier) \in events
      BY <2>3 DEF TurnFinishes, ClaimsInv, TurnClaimed
    <3> QED BY <1>3, <2>0, <2>3, <3>1 DEF TurnFinishes
  <2>4. CASE TurnPatches(t) \/ TurnRecords(t)
    <3>1. route.state = "MOVING" /\ \/ route' = WithPickUp(route, TRUE)
                                    \/ route' = WithTold(route, TRUE)
                                    \/ route' = WithDelivery(route, TRUE)
      BY <2>0, <2>4 DEF TurnPatches, TurnRecords
    <3>2. route'.courier = route.courier /\ route'.state = "MOVING"
      <4>1. CASE route' = WithPickUp(route, TRUE)
        BY <1>0, <3>1, <4>1, PatchedFields DEF SameNames
      <4>2. CASE route' = WithTold(route, TRUE)
        BY <1>0, <3>1, <4>2, PatchedFields DEF SameNames
      <4>3. CASE route' = WithDelivery(route, TRUE)
        BY <1>0, <3>1, <4>3, PatchedFields DEF SameNames
      <4> QED BY <3>1, <4>1, <4>2, <4>3
    <3> QED BY <1>2, <3>1, <3>2
  <2> QED BY <1>5, <2>1, <2>2, <2>3, <2>4 DEF TurnSteps, TurnReads, TurnRests, TurnLists,
            TurnReadsCouriers, TurnAdvances, TurnTells, TurnFrees, TurnPublishes, TurnLooks, TurnFinds,
            TurnFreesStuck
<1>6. CASE Travels
  <2>1. PICK x \in Stage : route' = WithStage(route, x)
    BY <1>6 DEF Travels, Stage
  <2>2. route'.courier = route.courier /\ route'.state = route.state
    BY <1>0, <2>1, PatchedFields DEF SameNames
  <2> QED BY <1>2, <1>6, <2>2 DEF Travels
<1>7. CASE Elsewhere
  BY <1>1, <1>7 DEF Elsewhere
<1> QED BY <1>4, <1>5, <1>6, <1>7, StepsAre

LEMMA TurnsStayClaimed ==
  ASSUME IInv, ClaimsInv, [Next]_vars, failures'.tick = 0
  PROVE  (\A t \in Ticker : TurnClaimed(tick[t]))'
<1>0. /\ \A c \in Courier : Claimed(c) => Claimed(c)'
      /\ \A c : Settled(c) => Settled(c)'
      /\ events \subseteq events'
      /\ \A t \in Ticker : TurnClaimed(tick[t])
      /\ \A t \in Ticker : tick[t].step \notin OffRoute => tick[t].seen.courier \in Courier
      /\ PoolClaimed /\ RouteClaimed
      /\ route \in Route /\ \A t \in Ticker : tick[t].seen \in Route /\ tick[t].seen.stage \in Stage
  BY ClaimsStand, TurnsAreRecords, RoutesAreRecords DEF ClaimsInv, IInv, TypeOK, TurnInv
<1>1. ASSUME NEW u \in Ticker, tick'[u] = tick[u] PROVE TurnClaimed(tick[u])'
  <2>1. PICK w : w = tick[u]
    OBVIOUS
  <2>2. /\ w.step \notin OffRoute => Claimed(w.seen.courier)'
        /\ w.step \in {"routes", "freeStuck"} => w.courier \in Courier /\ Claimed(w.courier)'
        /\ w.step = "drop" => Settled(w.seen.courier)'
        /\ w.step = "done" => Delivered(w.seen.courier) \in events'
        /\ w.step = "freeStuck" => Settled(w.courier)'
    BY <1>0, <2>1 DEF TurnClaimed
  <2> QED BY <1>1, <2>1, <2>2 DEF TurnClaimed
<1>2. ASSUME NEW t \in Ticker, NEW x, NEW c \in Courier, tick'[t].step = x, tick'[t].seen.courier = c,
             x \notin {"routes", "freeStuck", "drop", "done"}, Claimed(c)
      PROVE  TurnClaimed(tick[t])'
  BY <1>0, <1>2 DEF TurnClaimed
<1>3. ASSUME NEW t \in Ticker, TurnEnds(t) PROVE TurnClaimed(tick[t])'
  BY <1>3 DEF TurnEnds, TurnTo, TurnClaimed, OffRoute
<1>4. ASSUME NEW t \in Ticker, OnlyTurn(t), TurnSteps(t) PROVE TurnClaimed(tick[t])'
  <2>1. CASE TurnRests(t) \/ TurnDrops(t) \/ TurnFinishes(t) \/ TurnFreesStuck(t)
    BY <1>3, <2>1 DEF TurnRests, TurnDrops, TurnFinishes, TurnFreesStuck
  <2>2. CASE TurnLists(t)
    <3>1. route.courier \in Courier /\ Claimed(route.courier)
      BY <1>0, <2>2 DEF TurnLists, RouteClaimed, IInv, RouteInv
    <3>2. tick'[t].step = "couriers" /\ tick'[t].seen.courier = route.courier
      BY <2>2 DEF TurnLists, TurnTo
    <3> QED BY <1>2, <3>1, <3>2
  <2>3. ASSUME tick[t].step \notin OffRoute
        PROVE  tick[t].seen.courier \in Courier /\ Claimed(tick[t].seen.courier)
    BY <1>0, <2>3 DEF TurnClaimed
  <2>4. CASE TurnReadsCouriers(t)
    <3>1. PICK c \in Courier : c = tick[t].seen.courier /\ Claimed(c)
      BY <2>3, <2>4 DEF TurnReadsCouriers, OffRoute
    <3>2. tick'[t].seen.courier = c
      BY <2>4, <3>1 DEF TurnReadsCouriers, TurnTo
    <3>3. CASE tick'[t].step = "advance"
      BY <1>2, <3>1, <3>2, <3>3
    <3>4. CASE tick'[t].step = "drop" /\ ~Carrying(c)
      <4>1. Settled(c)'
        BY <1>0, <3>1, <3>4 DEF PoolClaimed
      <4> QED BY <1>0, <3>1, <3>2, <3>4, <4>1 DEF TurnClaimed
    <3> QED BY <2>4, <3>1, <3>3, <3>4 DEF TurnReadsCouriers, TurnTo
  <2>5. CASE TurnAdvances(t)
    <3>1. PICK c \in Courier : c = tick[t].seen.courier /\ Claimed(c)
      BY <2>3, <2>5 DEF TurnAdvances, OffRoute
    <3>2. PICK x \in Stage : GoesOn(t, WithStage(tick[t].seen, x))
      BY <2>5 DEF TurnAdvances
    <3>3. PICK r : r = WithStage(tick[t].seen, x)
      OBVIOUS
    <3>4. r.courier = c
      BY <1>0, <3>1, <3>3, PatchedFields DEF SameNames
    <3>5. tick'[t].seen.courier = c /\ tick'[t].step = NextWork(r)
      BY <3>2, <3>3, <3>4 DEF GoesOn, TurnTo
    <3>6. NextWork(r) \notin {"routes", "freeStuck", "drop", "done"}
      BY NextWorkNeedsTelling
    <3> QED BY <1>2, <3>1, <3>5, <3>6
  <2>6. CASE TurnPatches(t)
    <3>1. PICK c \in Courier : c = tick[t].seen.courier /\ Claimed(c)
      BY <2>3, <2>6 DEF TurnPatches, OffRoute
    <3>2. route'.courier = c /\ route' \in Route
      <4>1. route.courier = c
        BY <2>6, <3>1 DEF TurnPatches, Current, SameRoute
      <4>2. CASE route' = WithPickUp(route, TRUE)
        BY <1>0, <4>1, <4>2, PatchKeeps
      <4>3. CASE route' = WithTold(route, TRUE)
        BY <1>0, <4>1, <4>3, PatchKeeps
      <4> QED BY <2>6, <4>2, <4>3 DEF TurnPatches
    <3>3. CASE TurnEnds(t)
      BY <1>3, <3>3
    <3>4. CASE GoesOn(t, WithStage(route', tick[t].seen.stage))
      <4>1. PICK r : r = WithStage(route', tick[t].seen.stage)
        OBVIOUS
      <4>2. r.courier = c
        BY <1>0, <3>2, <4>1, PatchedFields DEF SameNames
      <4>3. tick'[t].seen.courier = c /\ tick'[t].step = NextWork(r)
        BY <3>4, <4>1, <4>2 DEF GoesOn, TurnTo
      <4>4. NextWork(r) \notin {"routes", "freeStuck", "drop", "done"}
        BY NextWorkNeedsTelling
      <4> QED BY <1>2, <3>1, <4>3, <4>4
    <3> QED BY <2>6, <3>3, <3>4 DEF TurnPatches
  <2>7. CASE TurnTells(t) \/ TurnRecords(t) \/ TurnFrees(t)
    <3>1. PICK c \in Courier : c = tick[t].seen.courier /\ Claimed(c)
      BY <2>3, <2>7 DEF TurnTells, TurnRecords, TurnFrees, OffRoute
    <3>2. PICK x \in {"mark", "free", "publish"} : tick'[t].step = x /\ tick'[t].seen.courier = c
      BY <2>7, <3>1 DEF TurnTells, TurnRecords, TurnFrees, TurnTo
    <3> QED BY <1>2, <3>1, <3>2
  <2>8. CASE TurnPublishes(t)
    <3>1. PICK c \in Courier : c = tick[t].seen.courier /\ Claimed(c)
      BY <2>3, <2>8 DEF TurnPublishes, OffRoute
    <3>2. tick'[t].step = "done" /\ tick'[t].seen.courier = c /\ Delivered(c) \in events'
      BY <2>8, <3>1 DEF TurnPublishes, TurnTo, Delivered
    <3> QED BY <1>0, <3>1, <3>2 DEF TurnClaimed
  <2>9. CASE TurnLooks(t)
    <3>1. PICK c \in Courier : c = tick'[t].courier /\ Claimed(c)
      BY <1>0, <2>9 DEF TurnLooks, Carriers, PoolClaimed
    <3>2. tick'[t].step = "routes"
      BY <2>9 DEF TurnLooks, TurnTo
    <3> QED BY <1>0, <3>1, <3>2 DEF TurnClaimed, OffRoute
  <2>10. CASE TurnFinds(t)
    <3>1. PICK c \in Courier : c = tick[t].courier /\ Claimed(c)
      BY <1>0, <2>10 DEF TurnFinds, TurnClaimed
    <3>2. Settled(c)
      BY <1>0, <2>10, <3>1 DEF TurnFinds, RouteClaimed, Settled, Heard
    <3>3. tick'[t].step = "freeStuck" /\ tick'[t].courier = c
      BY <2>10, <3>1 DEF TurnFinds, TurnTo
    <3> QED BY <1>0, <3>1, <3>2, <3>3 DEF TurnClaimed, OffRoute
  <2> QED BY <1>4, <2>1, <2>2, <2>4, <2>5, <2>6, <2>7, <2>8, <2>9, <2>10 DEF TurnSteps
<1>5. CASE \E t \in Ticker : OnlyTurn(t) /\ TurnSteps(t)
  BY <1>1, <1>4, <1>5 DEF OnlyTurn
<1>6. CASE (\E d \in Dispatcher : OnlyRun(d) /\ RunSteps(d)) \/ Travels \/ Elsewhere
  BY <1>1, <1>6 DEF OnlyRun, Travels, Elsewhere
<1> QED BY <1>5, <1>6, StepsAre

LEMMA ClaimsKept ==
  IInv /\ (failures.tick = 0 => ClaimsInv) /\ [Next]_vars => (failures.tick = 0 => ClaimsInv)'
<1> SUFFICES ASSUME IInv, failures.tick = 0 => ClaimsInv, [Next]_vars, failures'.tick = 0
             PROVE  ClaimsInv'
  OBVIOUS
<1>1. failures.tick = 0
  <2>1. failures'.tick >= failures.tick /\ failures.tick \in 0..MaxTickFailures
    BY FailuresTyped, FailuresCount DEF IInv, TypeOK, Failures
  <2> QED BY <2>1, CourierAssumption
<1> QED BY <1>1, RunsStayClaimed, PoolStaysClaimed, RouteStaysClaimed, TurnsStayClaimed
           DEF ClaimsInv

-----------------------------------------------------------------------------
(* A trip has one outcome *)

(* Two dispatchers at the most: that many ask before the courier is written *)
(* on the order, and one of them is done when it is.                       *)
AtMostTwoDispatch == \A a, b, c \in Dispatcher : a = b \/ b = c \/ a = c

Bound == order.courier # NoCourier
Underway(d) == run[d].step # "idle"

(* Once the courier is written on the order, one dispatcher is underway.   *)
AloneInv ==
  /\ Bound => \A d, e \in Dispatcher : Underway(d) /\ Underway(e) => d = e
  /\ Terminal(order) \/ order.status = "ON_THE_WAY" => Bound
  /\ \A d \in Dispatcher : run[d].step \in Releasing => Terminal(order)

(* One courier carries at a time, and every claim has a number of its own. *)
PoolInv ==
  /\ now >= 1
  /\ \A c, k \in Carriers : c = k
  /\ \A c \in Courier : trip[c] < now /\ assignedAt[c] < now
  /\ \A c \in Carriers : trip[c] >= 1

(* A route, or a copy of one, carries the names of its claim.              *)
OfClaim(r) ==
  /\ r.trip < now /\ r.createdAt < now
  /\ \A c \in Carriers : trip[c] = r.trip => r.courier = c /\ r.createdAt >= assignedAt[c]
RunOfClaim(r) ==
  /\ r.step \in Storing \cup {"findRoute"} =>
       /\ r.trip < now /\ r.assigned < now
       /\ \A c \in Carriers : trip[c] = r.trip => r.courier = c /\ r.assigned = assignedAt[c]
  /\ r.step \in Storing => r.assigned <= r.since
NamesInv ==
  /\ OfClaim(route) /\ \A t \in Ticker : OfClaim(tick[t].seen)
  /\ \A d \in Dispatcher : RunOfClaim(run[d])

(* The courier has left the market; who stores a route planned it later.   *)
Left(r) == r.stage # "toMarket"
AfterLeaving == {"pick", "tell", "mark", "record", "confirm", "free"}
OlderThanStore(r) ==
  Left(r) => \A d \in Dispatcher : run[d].step \in Storing => r.createdAt < run[d].since
FlagsFit(r) == r.pickedUp \/ r.pickupPublished \/ r.delivered => Left(r)
CopyFits(w) ==
  /\ OlderThanStore(w.seen) /\ FlagsFit(w.seen)
  /\ Left(w.seen) /\ SameRoute(route, w.seen) => Left(route)
  /\ w.step \in AfterLeaving => Left(w.seen)
(* The route and its copies agree on whether the courier has left.         *)
StageInv ==
  /\ OlderThanStore(route) /\ FlagsFit(route)
  /\ route.delivered => route.state \in {"MOVING", "DONE"}
  /\ \A t \in Ticker : CopyFits(tick[t])

(* The route of the claim under way has left: nobody stores another one.   *)
Ours(r) == \E c \in Carriers : trip[c] = r.trip
Stays(r) ==
  Ours(r) /\ SameRoute(route, r) /\ Left(route) =>
    \A d \in Dispatcher :
      /\ run[d].step \notin Storing
      /\ run[d].step = "findRoute" => RouteStands(d)
OnTheTrip(w) ==
  /\ Stays(w.seen)
  /\ Ours(w.seen) /\ Left(w.seen) => SameRoute(route, w.seen)
  /\ Ours(w.seen) /\ w.step = "free" => route.delivered
  /\ w.step = "publish" => ~Ours(w.seen)
TripInv == Stays(route) /\ \A t \in Ticker : OnTheTrip(tick[t])

(* Nobody will record the delivery of the trip any more.                   *)
Spent(n) ==
  /\ \A t \in Ticker : tick[t].step = "free" => tick[t].seen.trip # n
  /\ route.state = "MOVING" =>
       /\ route.trip # n
       /\ \A t \in Ticker : SameRoute(route, tick[t].seen) => tick[t].seen.trip # n
(* Who is about to free a courier of the trip knows that it is spent.      *)
ReleaseInv ==
  \A d \in Dispatcher :
    /\ run[d].step = "decide" /\ run[d].courier \in Carriers =>
         run[d].assigned = assignedAt[run[d].courier]
    /\ run[d].step \in {"end", "endReread"} => SameRoute(route, run[d].stored)
    /\ run[d].step = "free" /\ run[d].courier \in Carriers => Spent(trip[run[d].courier])

(* A recorded outcome stays the only one of its trip: nobody carries a     *)
(* delivered trip any more, and nobody will deliver a released one.        *)
Closed(x) ==
  /\ x.trip < now
  /\ x.kind = "delivered" => \A c \in Carriers : trip[c] # x.trip
  /\ x.kind = "released" =>
       /\ Bound /\ \A d \in Dispatcher : ~Underway(d)
       /\ Spent(x.trip)
       /\ \A t \in Ticker : tick[t].step = "publish" => tick[t].seen.trip # x.trip
OutcomeInv == (\A x \in outcomes : Closed(x)) /\ OneOutcome

TripsInv == AloneInv /\ PoolInv /\ NamesInv /\ StageInv /\ TripInv /\ ReleaseInv /\ OutcomeInv

LEMMA Typed ==
  ASSUME IInv
  PROVE  /\ route \in Route /\ now \in Nat /\ outcomes \subseteq Outcome
         /\ trip \in [Courier -> Nat] /\ assignedAt \in [Courier -> Nat]
         /\ courier \in [Courier -> {"idle", "busy", "away"}]
         /\ Carriers \subseteq Courier /\ Pool \subseteq Courier
         /\ \A t \in Ticker : tick[t].seen \in Route
         /\ \A d \in Dispatcher : /\ run[d].trip \in Nat /\ run[d].assigned \in Nat
                                  /\ run[d].since \in Nat
                                  /\ run[d].courier \in Courier \cup {NoCourier}
                                  /\ run[d].step \in HasCourier => run[d].courier \in Courier
         /\ NoRoute \in Route
         /\ route.state = "MOVING" => route.courier \in Courier
BY RunsAreRecords, TurnsAreRecords, NoRouteIsARoute DEF IInv, TypeOK, RunInv, RouteInv, Carriers,
   Pool

LEMMA RouteTyped ==
  ASSUME NEW r \in Route
  PROVE  /\ r.trip \in Nat /\ r.createdAt \in Nat /\ r.courier \in Courier \cup {NoCourier}
         /\ r.stage \in Stage /\ r.state \in RouteStates
         /\ r.pickedUp \in BOOLEAN /\ r.pickupPublished \in BOOLEAN /\ r.delivered \in BOOLEAN
BY RoutesAreRecords

(* A patch of the route: the names and the stage are as they were.         *)
RoutePatched ==
  /\ route' \in Route /\ SameNames(route', route) /\ route'.stage = route.stage
  /\ route.delivered => route'.delivered
  /\ route'.state = "MOVING" => route.state = "MOVING"

LEMMA RunPatches ==
  ASSUME IInv, NEW d \in Dispatcher, RunSteps(d), route' \in Route
  PROVE  \/ \E at \in Nat : RunStores(d, at)
         \/ RoutePatched /\ (route' = route \/ RunEnds(d))
<1>0. route \in Route /\ "ENDED" \in RouteStates
  BY Typed DEF RouteStates
<1>1. ASSUME route' = route PROVE RoutePatched
  BY <1>0, <1>1 DEF RoutePatched, SameNames
<1>2. CASE RunEnds(d)
  <2>1. CASE route' = WithState(route, "ENDED")
    <3>1. /\ SameNames(route', route) /\ SameFlags(route', route) /\ route'.state = "ENDED"
          /\ route'.stage = route.stage
      BY <1>0, <2>1, PatchedFields
    <3> QED BY <1>2, <3>1 DEF RoutePatched, SameFlags
  <2> QED BY <1>1, <1>2, <2>1 DEF RunEnds
<1>3. CASE route' = route
  BY <1>1, <1>3
<1> QED BY <1>2, <1>3 DEF RunSteps, RunAsks, RunFinds, RunClaims, RunPlans, RunDecides, RunRereads,
           RunFrees, OnlyReads

LEMMA TurnPatchesRoute ==
  ASSUME IInv, NEW t \in Ticker, TurnSteps(t), route' \in Route
  PROVE  RoutePatched
<1>0. route \in Route /\ "ENDED" \in RouteStates /\ "DONE" \in RouteStates
  BY Typed DEF RouteStates
<1>1. CASE route' = route
  BY <1>0, <1>1 DEF RoutePatched, SameNames
<1>2. ASSUME NEW x \in {"ENDED", "DONE"}, route' = WithState(route, x) PROVE RoutePatched
  <2>1. /\ SameNames(route', route) /\ SameFlags(route', route) /\ route'.state = x
        /\ route'.stage = route.stage
    BY <1>0, <1>2, PatchedFields
  <2> QED BY <1>2, <2>1 DEF RoutePatched, SameFlags
<1>3. CASE \/ route' = WithPickUp(route, TRUE) \/ route' = WithTold(route, TRUE)
           \/ route' = WithDelivery(route, TRUE)
  <2>1. CASE route' = WithPickUp(route, TRUE)
    BY <1>0, <2>1, PatchedFields DEF RoutePatched
  <2>2. CASE route' = WithTold(route, TRUE)
    BY <1>0, <2>2, PatchedFields DEF RoutePatched
  <2>3. CASE route' = WithDelivery(route, TRUE)
    BY <1>0, <2>3, PatchedFields DEF RoutePatched
  <2> QED BY <1>3, <2>1, <2>2, <2>3
<1> QED BY <1>1, <1>2, <1>3 DEF TurnSteps, TurnReads, TurnRests, TurnLists, TurnReadsCouriers,
           TurnDrops,
          TurnAdvances, TurnPatches, TurnTells, TurnRecords, TurnFrees, TurnPublishes, TurnFinishes,
          TurnLooks, TurnFinds, TurnFreesStuck

LEMMA TravelPatchesRoute ==
  ASSUME IInv, Travels, route' \in Route
  PROVE  /\ SameNames(route', route) /\ SameFlags(route', route) /\ route'.state = route.state
         /\ Left(route')
<1>1. PICK x \in {"toCustomer", "arrived"} : route' = WithStage(route, x)
  BY DEF Travels
<1>2. x \in Stage /\ route \in Route
  BY Typed DEF Stage
<1> QED BY <1>1, <1>2, PatchedFields DEF Left

(* What a ticker works on has the names of no route, of the route as it is, *)
(* or of what it worked on before.                                         *)
LEMMA SeenIsCopied ==
  ASSUME IInv, NEW t \in Ticker, TurnSteps(t), route' \in Route
  PROVE  \/ tick'[t].seen = NoRoute
         \/ SameNames(tick'[t].seen, route)
         \/ SameNames(tick'[t].seen, tick[t].seen)
<1>0. route \in Route /\ tick[t].seen \in Route /\ RoutePatched
  BY Typed, TurnPatchesRoute
<1>1. ASSUME tick'[t].seen = route PROVE SameNames(tick'[t].seen, route)
  BY <1>1 DEF SameNames
<1>2. ASSUME tick'[t].seen = tick[t].seen PROVE SameNames(tick'[t].seen, tick[t].seen)
  BY <1>2 DEF SameNames
<1>3. CASE TurnAdvances(t)
  <2>1. PICK x \in Stage : tick'[t].seen = WithStage(tick[t].seen, x)
    BY <1>3 DEF TurnAdvances, GoesOn, TurnTo
  <2> QED BY <1>0, <2>1, PatchedFields
<1>4. CASE TurnPatches(t)
  <2>1. CASE TurnEnds(t)
    BY <2>1 DEF TurnEnds, TurnTo
  <2>2. CASE GoesOn(t, WithStage(route', tick[t].seen.stage))
    <3>1. tick[t].seen.stage \in Stage
      BY <1>0, RouteTyped
    <3>2. SameNames(tick'[t].seen, route')
      BY <2>2, <3>1, PatchedFields DEF GoesOn, TurnTo
    <3> QED BY <1>0, <3>2 DEF RoutePatched, SameNames
  <2> QED BY <1>4, <2>1, <2>2 DEF TurnPatches
<1>5. CASE TurnRests(t) \/ TurnDrops(t) \/ TurnFinishes(t) \/ TurnFreesStuck(t)
  BY <1>5 DEF TurnRests, TurnDrops, TurnFinishes, TurnFreesStuck, TurnEnds, TurnTo
<1>6. CASE TurnLists(t)
  BY <1>1, <1>6 DEF TurnLists, TurnTo
<1>7. CASE TurnReadsCouriers(t) \/ TurnTells(t) \/ TurnRecords(t) \/ TurnFrees(t) \/ TurnPublishes(t)
           \/ TurnLooks(t) \/ TurnFinds(t)
  BY <1>2, <1>7 DEF TurnReadsCouriers, TurnTells, TurnRecords, TurnFrees, TurnPublishes, TurnLooks,
     TurnFinds, TurnTo
<1> QED BY <1>3, <1>4, <1>5, <1>6, <1>7 DEF TurnSteps

(* Who carries the order after a step carried it before, with the same     *)
(* stamp, except for the one that is claimed.                              *)
SameCarriers ==
  /\ now' >= now /\ now' \in Nat
  /\ \A c \in Carriers' : c \in Carriers /\ trip'[c] = trip[c] /\ assignedAt'[c] = assignedAt[c]
ClaimedNow(c, at) ==
  /\ now' = now + 1 /\ Carriers = {} /\ Carriers' = {c} /\ c \in Courier
  /\ trip'[c] = now /\ assignedAt'[c] = at /\ at \in Nat /\ at <= now

LEMMA FewerCarriers ==
  ASSUME IInv, NEW c, Freed(c), UNCHANGED <<trip, assignedAt, now>>
  PROVE  SameCarriers /\ c \notin Carriers'
<1>1. courier \in [Courier -> {"idle", "busy", "away"}] /\ now \in Nat
  BY Typed
<1>2. \A k \in Courier : courier'[k] = "busy" => courier[k] = "busy" /\ k # c
  BY <1>1 DEF Freed, Carrying
<1> QED BY <1>1, <1>2 DEF SameCarriers, Carriers, Carrying

LEMMA CarriersMove ==
  ASSUME IInv, [Next]_vars
  PROVE  \/ SameCarriers
         \/ \E d \in Dispatcher, c \in Pool, at \in Nat :
              OnlyRun(d) /\ RunClaims(d, c, at) /\ ClaimedNow(c, at)
<1>0. /\ courier \in [Courier -> {"idle", "busy", "away"}] /\ now \in Nat
      /\ trip \in [Courier -> Nat] /\ assignedAt \in [Courier -> Nat] /\ Pool \subseteq Courier
  BY Typed
<1>1. ASSUME UNCHANGED <<courier, trip, assignedAt>>, now' = now \/ now' = now + 1
      PROVE  SameCarriers
  BY <1>0, <1>1 DEF SameCarriers, Carriers, Carrying
<1>2. ASSUME NEW d \in Dispatcher, OnlyRun(d), RunSteps(d)
      PROVE  SameCarriers \/ \E c \in Pool, at \in Nat : RunClaims(d, c, at) /\ ClaimedNow(c, at)
  <2>1. CASE RunFrees(d)
    BY <2>1, FewerCarriers DEF RunFrees
  <2>2. ASSUME NEW c \in Pool, NEW at \in Nat, at <= now, RunClaims(d, c, at)
        PROVE  ClaimedNow(c, at)
    <3>1. Carriers = {} /\ now' = now + 1 /\ c \in Courier
      BY <1>0, <2>2 DEF RunClaims
    <3>2. trip'[c] = now /\ assignedAt'[c] = at
      BY <1>0, <2>2, <3>1 DEF RunClaims
    <3>3. \A k \in Courier : courier'[k] = "busy" <=> k = c
      BY <1>0, <2>2, <3>1 DEF RunClaims, Carriers, Carrying
    <3> QED BY <2>2, <3>1, <3>2, <3>3 DEF ClaimedNow, Carriers, Carrying
  <2> QED BY <1>1, <1>2, <2>1, <2>2 DEF RunSteps, RunAsks, RunFinds, RunPlans, RunStores,
             RunDecides, RunEnds,
            RunRereads, OnlyReads
<1>3. ASSUME NEW t \in Ticker, OnlyTurn(t), TurnSteps(t) PROVE SameCarriers
  <2>1. CASE TurnFrees(t)
    BY <1>3, <2>1, FewerCarriers DEF TurnFrees, OnlyTurn
  <2>2. CASE TurnFreesStuck(t)
    BY <1>3, <2>2, FewerCarriers DEF TurnFreesStuck, OnlyTurn
  <2> QED BY <1>1, <1>3, <2>1, <2>2 DEF OnlyTurn, TurnSteps, TurnReads, TurnRests, TurnLists,
             TurnReadsCouriers,
            TurnDrops, TurnAdvances, TurnPatches, TurnTells, TurnRecords, TurnPublishes, TurnFinishes,
            TurnLooks, TurnFinds
<1>4. CASE Travels
  BY <1>1, <1>4 DEF Travels
<1>5. CASE Elsewhere
  <2>1. Carriers' = Carriers
    BY <1>5 DEF Elsewhere, Carriers, Carrying
  <2> QED BY <1>0, <1>5, <2>1 DEF Elsewhere, SameCarriers
<1> QED BY <1>2, <1>3, <1>4, <1>5, StepsAre

LEMMA PoolKept ==
  ASSUME IInv, PoolInv, [Next]_vars
  PROVE  PoolInv'
<1>0. /\ now \in Nat /\ trip \in [Courier -> Nat] /\ assignedAt \in [Courier -> Nat]
      /\ now' \in Nat /\ trip' \in [Courier -> Nat] /\ assignedAt' \in [Courier -> Nat]
      /\ PoolInv /\ Carriers \subseteq Courier /\ Pool \subseteq Courier
  BY Typed, CourierKept DEF IInv, TypeOK
<1>1. ASSUME UNCHANGED <<trip, assignedAt>>, SameCarriers PROVE PoolInv'
  BY <1>0, <1>1 DEF PoolInv, SameCarriers
<1>2. ASSUME NEW d \in Dispatcher, NEW c \in Pool, NEW at \in Nat, RunClaims(d, c, at), ClaimedNow(c, at)
      PROVE  PoolInv'
  <2>1. \A k \in Courier : k # c => trip'[k] = trip[k] /\ assignedAt'[k] = assignedAt[k]
    BY <1>0, <1>2 DEF RunClaims
  <2> QED BY <1>0, <1>2, <2>1 DEF PoolInv, ClaimedNow
<1>3. UNCHANGED <<trip, assignedAt>> \/ \E d \in Dispatcher, c \in Pool, at \in Nat : RunClaims(d, c, at)
  BY StepsAre DEF OnlyTurn, Travels, Elsewhere, RunSteps, RunAsks, RunFinds, RunPlans, RunStores,
     RunDecides,
     RunEnds, RunRereads, RunFrees, OnlyReads
<1>4. ASSUME NEW d \in Dispatcher, NEW c \in Pool, NEW at \in Nat, RunClaims(d, c, at)
      PROVE  ~SameCarriers
  <2>1. courier'[c] = "busy" /\ c \in Courier /\ Carriers = {}
    BY <1>0, <1>4, Typed DEF RunClaims
  <2> QED BY <2>1 DEF SameCarriers, Carriers, Carrying
<1> QED BY <1>1, <1>2, <1>3, <1>4, CarriersMove

(* The names of a route stay those of its claim, and an old claim that is   *)
(* not under way any more is never again.                                  *)
LEMMA NamesStay ==
  ASSUME IInv, [Next]_vars, NEW r \in Route, OfClaim(r)
  PROVE  OfClaim(r)' /\ (Ours(r)' => Ours(r))
<1>0. /\ now \in Nat /\ trip \in [Courier -> Nat] /\ r.trip \in Nat /\ r.createdAt \in Nat
      /\ Carriers \subseteq Courier
  BY Typed, RouteTyped
<1>1. PICK n \in Nat, b \in Nat, k \in {r.courier} : n = r.trip /\ b = r.createdAt /\ k = r.courier
  BY <1>0
<1>2. CASE SameCarriers
  <2>1. \A c \in Carriers : trip[c] = n => k = c /\ b >= assignedAt[c]
    BY <1>1 DEF OfClaim
  <2>2. n < now' /\ b < now'
    BY <1>0, <1>1, <1>2 DEF OfClaim, SameCarriers
  <2>3. \A c \in Carriers' : trip'[c] = n => k = c /\ b >= assignedAt'[c]
    BY <1>2, <2>1 DEF SameCarriers
  <2> QED BY <1>1, <1>2, <2>2, <2>3 DEF OfClaim, Ours, SameCarriers
<1>3. ASSUME NEW c \in Pool, NEW at \in Nat, ClaimedNow(c, at) PROVE OfClaim(r)' /\ ~Ours(r)'
  <2>1. n < now /\ b < now
    BY <1>0, <1>1 DEF OfClaim
  <2>2. n < now' /\ b < now'
    BY <1>0, <1>3, <2>1 DEF ClaimedNow
  <2>3. \A x \in Carriers' : trip'[x] # n
    BY <1>0, <1>3, <2>1 DEF ClaimedNow
  <2> QED BY <1>1, <2>2, <2>3 DEF OfClaim, Ours
<1> QED BY <1>2, <1>3, CarriersMove

LEMMA RunNamesStay ==
  ASSUME IInv, [Next]_vars, NEW r \in Run, RunOfClaim(r)
  PROVE  RunOfClaim(r)'
<1>0. /\ now \in Nat /\ trip \in [Courier -> Nat] /\ r.trip \in Nat /\ r.assigned \in Nat
      /\ Carriers \subseteq Courier
  BY Typed, RunsAreRecords
<1>1. PICK n \in Nat, b \in Nat, k \in {r.courier} : n = r.trip /\ b = r.assigned /\ k = r.courier
  BY <1>0
<1>2. CASE r.step \in Storing \cup {"findRoute"}
  <2>0. n < now /\ b < now /\ \A c \in Carriers : trip[c] = n => k = c /\ b = assignedAt[c]
    BY <1>1, <1>2 DEF RunOfClaim
  <2>1. CASE SameCarriers
    <3>1. \A c \in Carriers' : trip'[c] = n => k = c /\ b = assignedAt'[c]
      BY <2>0, <2>1 DEF SameCarriers
    <3>2. n < now' /\ b < now'
      BY <1>0, <2>0, <2>1 DEF SameCarriers
    <3> QED BY <1>1, <3>1, <3>2 DEF RunOfClaim
  <2>2. ASSUME NEW c \in Pool, NEW at \in Nat, ClaimedNow(c, at) PROVE RunOfClaim(r)'
    <3>1. n < now' /\ b < now'
      BY <1>0, <2>0, <2>2 DEF ClaimedNow
    <3>2. \A x \in Carriers' : trip'[x] # n
      BY <1>0, <2>0, <2>2 DEF ClaimedNow
    <3> QED BY <1>1, <3>1, <3>2 DEF RunOfClaim
  <2> QED BY <2>1, <2>2, CarriersMove
<1>3. CASE r.step \notin Storing \cup {"findRoute"}
  BY <1>3 DEF RunOfClaim
<1> QED BY <1>2, <1>3

LEMMA NamesKept ==
  ASSUME IInv, PoolInv, NamesInv, [Next]_vars
  PROVE  NamesInv'
<1>0. /\ route \in Route /\ route' \in Route /\ NoRoute \in Route /\ now \in Nat /\ now' \in Nat
      /\ \A t \in Ticker : tick[t].seen \in Route
      /\ \A d \in Dispatcher : run[d] \in Run
      /\ Carriers \subseteq Courier /\ Pool \subseteq Courier
      /\ trip \in [Courier -> Nat] /\ assignedAt \in [Courier -> Nat]
      /\ PoolInv /\ NamesInv
  BY Typed, CourierKept DEF IInv, TypeOK
<1>1. OfClaim(NoRoute)
  BY <1>0, NoRouteFields DEF OfClaim, PoolInv
<1>2. ASSUME NEW r, NEW s \in Route, OfClaim(s), SameNames(r, s) PROVE OfClaim(r)'
  <2>1. OfClaim(s)'
    BY <1>2, NamesStay
  <2> QED BY <1>2, <2>1 DEF OfClaim, SameNames
<1>3. ASSUME NEW r \in Route, OfClaim(r) PROVE OfClaim(r)'
  BY <1>3, NamesStay
<1>4. ASSUME NEW d \in Dispatcher, run'[d] = run[d] PROVE RunOfClaim(run[d])'
  <2>1. PICK r \in Run : r = run[d]
    BY <1>0
  <2>2. RunOfClaim(r)'
    BY <1>0, <2>1, RunNamesStay DEF NamesInv
  <2> QED BY <1>4, <2>1, <2>2
<1>5. ASSUME NEW t \in Ticker, tick'[t] = tick[t] PROVE OfClaim(tick[t].seen)'
  <2>1. PICK r \in Route : r = tick[t].seen
    BY <1>0
  <2>2. OfClaim(r)'
    BY <1>0, <1>3, <2>1 DEF NamesInv
  <2> QED BY <1>5, <2>1, <2>2
<1>6. ASSUME SameNames(route', route) PROVE OfClaim(route)'
  <2>1. PICK r : r = route'
    OBVIOUS
  <2>2. OfClaim(r)'
    BY <1>0, <1>2, <1>6, <2>1 DEF NamesInv
  <2> QED BY <2>1, <2>2
<1>7. ASSUME NEW d \in Dispatcher, OnlyRun(d), RunSteps(d) PROVE NamesInv'
  <2>1. OfClaim(route)'
    <3>1. CASE RoutePatched
      BY <1>6, <3>1 DEF RoutePatched
    <3>2. ASSUME NEW at \in Nat, RunStores(d, at) PROVE OfClaim(route)'
      <4>1. PICK c, n, b, s : /\ c = run[d].courier /\ n = run[d].trip
                              /\ b = run[d].assigned /\ s = run[d].since
        OBVIOUS
      <4>2. c \in Courier /\ n \in Nat /\ b \in Nat /\ s \in Nat
        BY <3>2, <4>1, Typed DEF RunStores, Storing, HasCourier
      <4>3. route'.courier = c /\ route'.trip = n /\ route'.createdAt = at
        BY <3>2, <4>1, <4>2, NewRouteFields DEF RunStores
      <4>4. n < now /\ b <= s /\ s <= at /\ at <= now /\ now' = now + 1
            /\ \A k \in Carriers : trip[k] = n => c = k /\ b = assignedAt[k]
        BY <1>0, <3>2, <4>1 DEF RunStores, NamesInv, RunOfClaim
      <4>5. n < now' /\ at < now' /\ b <= at
        BY <1>0, <4>2, <4>4
      <4>6. Carriers' = Carriers /\ trip' = trip /\ assignedAt' = assignedAt
        BY <3>2 DEF RunStores, Carriers, Carrying
      <4>7. \A k \in Carriers : trip[k] = n => c = k /\ at >= assignedAt[k]
        BY <1>0, <4>2, <4>4, <4>5
      <4> QED BY <4>3, <4>5, <4>6, <4>7 DEF OfClaim
    <3> QED BY <1>0, <1>7, <3>1, <3>2, RunPatches
  <2>2. RunOfClaim(run[d])'
    <3>1. CASE run'[d].step \notin Storing \cup {"findRoute"}
      BY <3>1 DEF RunOfClaim
    <3>2. ASSUME NEW c \in Carriers, RunFinds(d, c) PROVE RunOfClaim(run[d])'
      <4>1. trip[c] < now /\ assignedAt[c] < now /\ \A k \in Carriers : k = c
        BY <1>0 DEF PoolInv
      <4>2. Carriers' = Carriers /\ trip' = trip /\ assignedAt' = assignedAt /\ now' = now
        BY <3>2 DEF RunFinds, OnlyReads, Carriers, Carrying
      <4>3. /\ run'[d].step \notin Storing /\ run'[d].courier = c /\ run'[d].trip = trip[c]
            /\ run'[d].assigned = assignedAt[c]
        BY <3>2 DEF RunFinds, Storing
      <4> QED BY <4>1, <4>2, <4>3 DEF RunOfClaim
    <3>3. ASSUME NEW c \in Pool, NEW at \in Nat, at <= now, RunClaims(d, c, at)
          PROVE  RunOfClaim(run[d])'
      <4>1. c \in Courier /\ now' = now + 1 /\ trip'[c] = now /\ assignedAt'[c] = at
        BY <1>0, <3>3 DEF RunClaims
      <4>2. \A k \in Carriers' : k = c
        BY <1>0, <3>3, Typed DEF RunClaims, Carriers, Carrying
      <4>3. now < now' /\ at < now'
        BY <1>0, <3>3, <4>1
      <4>4. /\ run'[d].step = "findRoute" /\ run'[d].courier = c /\ run'[d].trip = now
            /\ run'[d].assigned = at
        BY <3>3 DEF RunClaims
      <4> QED BY <4>1, <4>2, <4>3, <4>4 DEF RunOfClaim, Storing
    <3>4. CASE RunPlans(d)
      <4>1. /\ run'[d].courier = run[d].courier /\ run'[d].trip = run[d].trip
            /\ run'[d].assigned = run[d].assigned
            /\ run'[d].since = now /\ run[d].step = "findRoute"
        BY <3>4 DEF RunPlans
      <4>2. run[d].trip < now /\ run[d].assigned < now /\ run[d].assigned \in Nat
            /\ \A k \in Carriers : trip[k] = run[d].trip =>
                                     run[d].courier = k /\ run[d].assigned = assignedAt[k]
        BY <1>0, <4>1, Typed DEF NamesInv, RunOfClaim
      <4>3. Carriers' = Carriers /\ trip' = trip /\ assignedAt' = assignedAt /\ now' = now
        BY <3>4 DEF RunPlans, OnlyReads, Carriers, Carrying
      <4>4. run[d].assigned <= now
        BY <1>0, <4>2
      <4> QED BY <4>1, <4>2, <4>3, <4>4 DEF RunOfClaim
    <3> QED BY <1>7, <3>1, <3>2, <3>3, <3>4 DEF RunSteps, RunAsks, Asking, RunStores, Storing,
               RunDecides, RunEnds, RunRereads, RunFrees
  <2> QED BY <1>4, <1>5, <1>7, <2>1, <2>2 DEF OnlyRun, NamesInv
<1>8. ASSUME NEW t \in Ticker, OnlyTurn(t), TurnSteps(t) PROVE NamesInv'
  <2>1. OfClaim(route)'
    BY <1>0, <1>6, <1>8, TurnPatchesRoute DEF RoutePatched
  <2>2. OfClaim(tick[t].seen)'
    <3>1. PICK r : r = tick'[t].seen
      OBVIOUS
    <3>2. CASE r = NoRoute
      BY <1>0, <1>1, <1>3, <3>1, <3>2
    <3>3. CASE SameNames(r, route)
      <4>1. OfClaim(r)'
        BY <1>0, <1>2, <3>3 DEF NamesInv
      <4> QED BY <3>1, <4>1
    <3>4. CASE SameNames(r, tick[t].seen)
      <4>1. OfClaim(r)'
        BY <1>0, <1>2, <3>4 DEF NamesInv
      <4> QED BY <3>1, <4>1
    <3> QED BY <1>0, <1>8, <3>1, <3>2, <3>3, <3>4, SeenIsCopied
  <2> QED BY <1>4, <1>5, <1>8, <2>1, <2>2 DEF OnlyTurn, NamesInv
<1>9. CASE Travels
  BY <1>0, <1>4, <1>5, <1>6, <1>9, TravelPatchesRoute DEF Travels, NamesInv
<1>10. CASE Elsewhere
  <2>1. SameNames(route', route)
    BY <1>10 DEF Elsewhere, SameNames
  <2> QED BY <1>4, <1>5, <1>6, <1>10, <2>1 DEF Elsewhere, NamesInv
<1> QED BY <1>7, <1>8, <1>9, <1>10, StepsAre

(* No turn of a dispatcher begins once the courier is written.             *)
LEMMA NoRunBegins ==
  ASSUME IInv, NEW d \in Dispatcher, RunSteps(d), Bound
  PROVE  Underway(d)
<1>1. ~NeedsCourier(order)
  BY DEF Bound, NeedsCourier, IInv, OrderInv, Paid
<1> QED BY <1>1 DEF Underway, RunSteps, RunAsks, RunFinds, RunClaims, RunPlans, RunStores, Storing,
           RunDecides, RunEnds, RunRereads, RunFrees

LEMMA BoundStays ==
  ASSUME IInv, [Next]_vars, Bound
  PROVE  Bound'
BY OrderMoves DEF IInv, Writes, Bound

LEMMA AloneKept ==
  ASSUME IInv, AloneInv, AtMostTwoDispatch, [Next]_vars
  PROVE  AloneInv'
<1>0. AloneInv /\ (Bound => Bound')
  BY BoundStays
<1>1. (\A d \in Dispatcher : run[d].step \in Releasing => Terminal(order))'
  <2>1. Terminal(order) => Terminal(order)'
    BY TerminalStays DEF Terminal
  <2>2. ASSUME NEW d \in Dispatcher, run'[d] = run[d]
        PROVE  (run[d].step \in Releasing => Terminal(order))'
    BY <1>0, <2>1, <2>2 DEF AloneInv
  <2>3. ASSUME NEW d \in Dispatcher, RunSteps(d) PROVE run'[d].step \in Releasing => Terminal(order)
    BY <1>0, <2>3 DEF AloneInv, RunSteps, RunAsks, Asking, RunFinds, RunClaims, RunPlans,
       RunStores, Storing,
       RunDecides, RunEnds, RunRereads, RunFrees, Releasing
  <2> QED BY <2>1, <2>2, <2>3, StepsAre DEF OnlyRun, OnlyTurn, Travels, Elsewhere
<1>2. (Terminal(order) \/ order.status = "ON_THE_WAY")' => Bound'
  <2>1. CASE order' = order
    BY <1>0, <2>1 DEF AloneInv, Terminal
  <2>2. ASSUME NEW d \in Dispatcher, RunSteps(d), order' # order PROVE order'.status = "PREPARING"
    BY <2>2 DEF RunSteps, RunAsks, RunFinds, RunClaims, RunPlans, RunStores, RunDecides, RunEnds,
       RunRereads, RunFrees
  <2>3. CASE Elsewhere /\ order' # order
    BY <1>0, <2>3 DEF Elsewhere, Bound
  <2> QED BY <2>1, <2>2, <2>3, StepsAre DEF OnlyTurn, Travels, Terminal
<1>3. (Bound => \A d, e \in Dispatcher : Underway(d) /\ Underway(e) => d = e)'
  <2>1. ASSUME NEW d \in Dispatcher, OnlyRun(d), RunSteps(d), Bound
        PROVE  \A e \in Dispatcher : Underway(e)' => Underway(e)
    BY <2>1, NoRunBegins DEF OnlyRun, Underway
  <2>2. ASSUME NEW d \in Dispatcher, OnlyRun(d), RunSteps(d), ~Bound, Bound'
        PROVE  ~Underway(d)'
    <3>1. order' # order
      BY <2>2 DEF Bound
    <3> QED BY <2>2, <3>1 DEF RunSteps, RunAsks, RunFinds, RunClaims, RunPlans, RunStores,
               RunDecides, RunEnds, RunRereads, RunFrees, Underway
  <2>3. CASE \E d \in Dispatcher : OnlyRun(d) /\ RunSteps(d)
    <3>1. CASE Bound
      BY <1>0, <2>1, <2>3, <3>1 DEF AloneInv
    <3>2. CASE ~Bound
      BY <2>2, <2>3, <3>2 DEF AtMostTwoDispatch
    <3> QED BY <3>1, <3>2
  <2>4. CASE run' = run /\ order'.courier = order.courier
    BY <1>0, <2>4 DEF AloneInv, Bound, Underway
  <2> QED BY <2>3, <2>4, StepsAre DEF OnlyTurn, Travels, Elsewhere
<1> QED BY <1>1, <1>2, <1>3 DEF AloneInv

(* Only who has seen that no route stands comes to store one.              *)
LEMMA StoringBegins ==
  ASSUME IInv, NEW d \in Dispatcher, RunSteps(d), run'[d].step \in Storing
  PROVE  RunPlans(d)
BY DEF RunSteps, RunAsks, Asking, RunFinds, RunClaims, RunPlans, RunStores, Storing, RunDecides,
   RunEnds,
   RunRereads, RunFrees

LEMMA OlderStays ==
  ASSUME IInv, [Next]_vars, NEW r \in Route, OfClaim(r), OlderThanStore(r)
  PROVE  OlderThanStore(r)'
<1>0. now \in Nat /\ r.createdAt \in Nat /\ r.createdAt < now
  BY Typed, RouteTyped DEF OfClaim
<1>1. PICK b \in Nat, x \in {r.stage} : b = r.createdAt /\ x = r.stage
  BY <1>0
<1>2. CASE x # "toMarket"
  <2>1. ASSUME NEW d \in Dispatcher, run'[d] = run[d], run'[d].step \in Storing
        PROVE  b < run'[d].since
    BY <1>1, <1>2, <2>1 DEF OlderThanStore, Left
  <2>2. ASSUME NEW d \in Dispatcher, RunSteps(d), run'[d].step \in Storing PROVE b < run'[d].since
    <3>1. run'[d].since = now
      BY <2>2, StoringBegins DEF RunPlans
    <3> QED BY <1>0, <1>1, <3>1
  <2>3. \A d \in Dispatcher : run'[d].step \in Storing => b < run'[d].since
    BY <2>1, <2>2, StepsAre DEF OnlyRun, OnlyTurn, Travels, Elsewhere
  <2> QED BY <1>1, <2>3 DEF OlderThanStore
<1>3. CASE x = "toMarket"
  BY <1>1, <1>3 DEF OlderThanStore, Left
<1> QED BY <1>2, <1>3

(* The work that comes next for a route that fits needs it to have left.   *)
LEMMA WorkComesAfterLeaving ==
  ASSUME NEW r, FlagsFit(r), NextWork(r) \in AfterLeaving
  PROVE  Left(r)
BY DEF NextWork, FlagsFit, Left, AfterLeaving

LEMMA StageInitially ==
  /\ FlagsFit(NoRoute) /\ ~Left(NoRoute) /\ OlderThanStore(NoRoute)
BY NoRouteFields DEF FlagsFit, Left, OlderThanStore

LEMMA RouteStageKept ==
  ASSUME IInv, PromptCalls, PoolInv, NamesInv, StageInv, [Next]_vars
  PROVE  /\ OlderThanStore(route)' /\ FlagsFit(route)'
         /\ (route.delivered => route.state \in {"MOVING", "DONE"})'
<1>0. /\ route \in Route /\ route' \in Route /\ OfClaim(route)
      /\ \A t \in Ticker : tick[t].seen \in Route
      /\ StageInv /\ "ENDED" \in RouteStates /\ "DONE" \in RouteStates
  BY Typed, CourierKept DEF IInv, TypeOK, NamesInv, RouteStates
<1> DEFINE Fits == /\ FlagsFit(route') 
                   /\ route'.delivered => route'.state \in {"MOVING", "DONE"}
<1>1. OlderThanStore(route)'
  <2>0. PICK r \in Route : r = route
    BY <1>0
  <2>1. OlderThanStore(r)'
    BY <1>0, <2>0, OlderStays DEF StageInv
  <2>2. CASE RoutePatched
    BY <1>0, <2>0, <2>1, <2>2 DEF RoutePatched, OlderThanStore, Left, SameNames
  <2>3. CASE Travels
    <3>1. \A d \in Dispatcher : run'[d].step \notin Storing
      BY <2>3 DEF Travels, ServiceStep, Storing
    <3> QED BY <3>1 DEF OlderThanStore
  <2>4. ASSUME NEW d \in Dispatcher, NEW at \in Nat, RunStores(d, at) PROVE OlderThanStore(route)'
    <3>1. route'.stage = "toMarket"
      BY <2>4, NewRouteFields, Typed DEF RunStores, Storing, HasCourier
    <3> QED BY <3>1 DEF OlderThanStore, Left
  <2>5. CASE Elsewhere
    BY <2>0, <2>1, <2>5 DEF Elsewhere
  <2> QED BY <1>0, <2>2, <2>3, <2>4, <2>5, StepsAre, RunPatches, TurnPatchesRoute
<1>2. ASSUME route' = route PROVE Fits
  BY <1>0, <1>2 DEF StageInv
<1>3. ASSUME NEW x \in {"ENDED", "DONE"}, route' = WithState(route, x), x = "ENDED" => ~route.delivered
      PROVE  Fits
  <2>1. SameFlags(route', route) /\ route'.state = x /\ route'.stage = route.stage
    BY <1>0, <1>3, PatchedFields
  <2> QED BY <1>0, <1>3, <2>1 DEF StageInv, FlagsFit, Left, SameFlags
<1>4. ASSUME Left(route), route.state = "MOVING",
             \/ route' = WithPickUp(route, TRUE) \/ route' = WithTold(route, TRUE)
             \/ route' = WithDelivery(route, TRUE)
      PROVE  Fits
  <2>1. route'.stage = route.stage /\ route'.state = route.state
    <3>1. CASE route' = WithPickUp(route, TRUE)
      BY <1>0, <3>1, PatchedFields
    <3>2. CASE route' = WithTold(route, TRUE)
      BY <1>0, <3>2, PatchedFields
    <3>3. CASE route' = WithDelivery(route, TRUE)
      BY <1>0, <3>3, PatchedFields
    <3> QED BY <1>4, <3>1, <3>2, <3>3
  <2> QED BY <1>4, <2>1 DEF FlagsFit, Left
<1>5. ASSUME NEW d \in Dispatcher, RunSteps(d) PROVE Fits
  <2>1. ASSUME NEW at \in Nat, RunStores(d, at) PROVE Fits
    <3>1. ~route'.pickedUp /\ ~route'.pickupPublished /\ ~route'.delivered
      BY <2>1, NewRouteFields, Typed DEF RunStores, Storing, HasCourier
    <3> QED BY <3>1 DEF FlagsFit
  <2>2. CASE RunEnds(d) /\ route' # route
    <3>1. route' = WithState(route, "ENDED") /\ ~route.delivered
      BY <2>2 DEF RunEnds, Endable
    <3> QED BY <1>3, <3>1
  <2> QED BY <1>0, <1>2, <1>5, <2>1, <2>2, RunPatches
<1>6. ASSUME NEW t \in Ticker, TurnSteps(t) PROVE Fits
  <2>0. Current(tick[t].seen) => /\ route.state = "MOVING"
                                 /\ (tick[t].step \in AfterLeaving => Left(route))
    BY <1>0 DEF Current, StageInv, CopyFits
  <2>1. CASE route' = route
    BY <1>2, <2>1
  <2>2. CASE TurnDrops(t) /\ route' # route
    BY <1>3, <2>2 DEF TurnDrops, Endable
  <2>3. CASE TurnFinishes(t) /\ route' # route
    BY <1>3, <2>3 DEF TurnFinishes
  <2>4. CASE TurnPatches(t) \/ TurnRecords(t)
    BY <1>4, <2>0, <2>4 DEF TurnPatches, TurnRecords, AfterLeaving
  <2> QED BY <1>6, <2>1, <2>2, <2>3, <2>4 DEF TurnSteps, TurnReads, TurnRests, TurnLists,
            TurnReadsCouriers, TurnAdvances, TurnTells, TurnFrees, TurnPublishes, TurnLooks, TurnFinds,
            TurnFreesStuck
<1>7. ASSUME Travels PROVE Fits
  <2>1. SameFlags(route', route) /\ route'.state = route.state /\ Left(route')
    BY <1>0, <1>7, TravelPatchesRoute
  <2> QED BY <1>0, <2>1 DEF StageInv, FlagsFit, SameFlags
<1>8. ASSUME Elsewhere PROVE Fits
  BY <1>2, <1>8 DEF Elsewhere
<1>9. Fits
  BY <1>5, <1>6, <1>7, <1>8, StepsAre
<1> QED BY <1>1, <1>9 DEF FlagsFit, Left

(* A route that has left and is known to have left is not replaced by one  *)
(* of the same names that has not.                                         *)
LeftTogether(r) == Left(r) /\ SameRoute(route, r) => Left(route)

LEMMA LeftTogetherStays ==
  ASSUME IInv, NEW r \in Route, OlderThanStore(r), LeftTogether(r), [Next]_vars
  PROVE  LeftTogether(r)'
<1>0. route' \in Route
  BY CourierKept DEF IInv, TypeOK
<1>1. PICK b \in Nat, x \in {r.stage}, c \in {r.courier} : b = r.createdAt /\ x = r.stage /\ c = r.courier
  BY RouteTyped
<1>2. CASE RoutePatched
  BY <1>1, <1>2 DEF RoutePatched, LeftTogether, SameNames, SameRoute, Left
<1>3. CASE Travels
  BY <1>0, <1>3, TravelPatchesRoute DEF LeftTogether
<1>4. ASSUME NEW d \in Dispatcher, NEW at \in Nat, RunStores(d, at), x # "toMarket"
      PROVE  route'.createdAt # b
  <2>0. run[d].courier \in Courier /\ run[d].trip \in Nat
    BY <1>4, Typed DEF RunStores, Storing, HasCourier
  <2>1. route'.createdAt = at
    <3>1. route' = RouteFor(run[d].courier, at, run[d].trip)
      BY <1>4 DEF RunStores
    <3> QED BY <1>4, <2>0, <3>1, NewRouteFields
  <2>2. b < run[d].since /\ at >= run[d].since /\ run[d].since \in Nat
    BY <1>1, <1>4, Typed DEF RunStores, OlderThanStore, Left
  <2> QED BY <2>1, <2>2
<1>5. ASSUME NEW d \in Dispatcher, NEW at \in Nat, RunStores(d, at) PROVE LeftTogether(r)'
  BY <1>1, <1>4, <1>5 DEF LeftTogether, Left, SameRoute
<1>6. CASE Elsewhere
  BY <1>1, <1>6 DEF Elsewhere, LeftTogether, SameRoute, Left
<1> QED BY <1>0, <1>2, <1>3, <1>5, <1>6, StepsAre, RunPatches, TurnPatchesRoute

LEMMA SeenIsOfClaim ==
  ASSUME IInv, PoolInv, NamesInv, NEW t \in Ticker, TurnSteps(t),
         route' \in Route, tick'[t].seen \in Route
  PROVE  OfClaim(tick'[t].seen)
<1>1. OfClaim(NoRoute)
  BY NoRouteFields, Typed DEF OfClaim, PoolInv
<1>2. OfClaim(route) /\ OfClaim(tick[t].seen)
  BY DEF NamesInv
<1> QED BY <1>1, <1>2, SeenIsCopied DEF OfClaim, SameNames

LEMMA SeenFits ==
  ASSUME IInv, PoolInv, NamesInv, StageInv, NEW t \in Ticker, TurnSteps(t),
         route' \in Route, FlagsFit(route'), tick'[t] \in Turn
  PROVE  /\ OlderThanStore(tick'[t].seen) /\ FlagsFit(tick'[t].seen) /\ LeftTogether(tick'[t].seen)
         /\ tick'[t].step \in AfterLeaving => Left(tick'[t].seen)
<1> DEFINE Fits(r) == OlderThanStore(r) /\ FlagsFit(r) /\ LeftTogether(r)
           Goal == Fits(tick'[t].seen) /\ (tick'[t].step \in AfterLeaving => Left(tick'[t].seen))
<1>0. /\ route \in Route /\ tick[t].seen \in Route /\ RoutePatched
      /\ route.stage \in Stage /\ tick[t].seen.stage \in Stage
  BY Typed, RouteTyped, TurnPatchesRoute
<1>1. Fits(NoRoute)
  BY StageInitially DEF LeftTogether
<1>2. Fits(route)
  BY DEF StageInv, LeftTogether
<1>3. Fits(tick[t].seen) /\ (tick[t].step \in AfterLeaving => Left(tick[t].seen))
  BY DEF StageInv, CopyFits, LeftTogether
<1>4. ASSUME NEW x, NEW r, TurnTo(t, x, r), Fits(r), x \in AfterLeaving => Left(r) PROVE Goal
  BY <1>4 DEF TurnTo
<1>5. ASSUME NEW r, GoesOn(t, r), Fits(r) PROVE Goal
  <2>1. NextWork(r) \in AfterLeaving => Left(r)
    BY <1>5, WorkComesAfterLeaving
  <2> HIDE DEF Goal, Fits
  <2> QED BY <1>4, <1>5, <2>1 DEF GoesOn
<1>6. ASSUME TurnEnds(t) PROVE Goal
  <2>1. PICK x \in {"idle", "list"} : TurnTo(t, x, NoRoute)
    BY <1>6 DEF TurnEnds
  <2>2. x \notin AfterLeaving
    BY DEF AfterLeaving
  <2> HIDE DEF Goal, Fits
  <2> QED BY <1>1, <1>4, <2>1, <2>2
<1>7. ASSUME TurnAdvances(t) PROVE Goal
  <2>1. PICK x \in Stage : /\ x = tick[t].seen.stage \/ (SameRoute(route, tick[t].seen) /\ x = route.stage)
                           /\ GoesOn(t, WithStage(tick[t].seen, x))
    BY <1>7 DEF TurnAdvances
  <2>2. PICK r : r = WithStage(tick[t].seen, x)
    OBVIOUS
  <2>3. SameNames(r, tick[t].seen) /\ SameFlags(r, tick[t].seen) /\ r.stage = x
    BY <1>0, <2>2, PatchedFields
  <2>4. CASE x = tick[t].seen.stage
    <3>1. Fits(r)
      BY <1>3, <2>3, <2>4 DEF SameNames, SameFlags, OlderThanStore, FlagsFit, LeftTogether, Left,
         SameRoute
    <3> HIDE DEF Goal, Fits
    <3> QED BY <1>5, <2>1, <2>2, <3>1
  <2>5. CASE SameRoute(route, tick[t].seen) /\ x = route.stage
    <3>1. OlderThanStore(r)
      BY <1>2, <2>3, <2>5 DEF SameNames, OlderThanStore, Left, SameRoute
    <3>2. Left(tick[t].seen) => Left(r)
      BY <1>3, <2>3, <2>5 DEF LeftTogether, Left
    <3>3. FlagsFit(r)
      BY <1>3, <2>3, <3>2 DEF FlagsFit, SameFlags
    <3>4. LeftTogether(r)
      BY <2>3, <2>5 DEF LeftTogether, Left
    <3>5. Fits(r)
      BY <3>1, <3>3, <3>4
    <3> HIDE DEF Goal, Fits
    <3> QED BY <1>5, <2>1, <2>2, <3>5
  <2> QED BY <2>1, <2>4, <2>5
<1>8. ASSUME TurnPatches(t) PROVE Goal
  <2>1. CASE TurnEnds(t)
    BY <1>6, <2>1
  <2>2. CASE GoesOn(t, WithStage(route', tick[t].seen.stage))
    <3>1. PICK r : r = WithStage(route', tick[t].seen.stage)
      OBVIOUS
    <3>2. SameNames(r, route') /\ SameFlags(r, route') /\ r.stage = tick[t].seen.stage
      BY <1>0, <3>1, PatchedFields
    <3>3. SameNames(route', route) /\ SameRoute(route, tick[t].seen) /\ Left(tick[t].seen)
      BY <1>0, <1>3, <1>8 DEF RoutePatched, TurnPatches, Current, AfterLeaving
    <3>4. OlderThanStore(r)
      BY <1>3, <3>2, <3>3 DEF SameNames, OlderThanStore, Left, SameRoute
    <3>5. FlagsFit(r)
      BY <3>2, <3>3 DEF FlagsFit, Left
    <3>6. LeftTogether(r)
      BY <1>3, <3>3 DEF LeftTogether
    <3>7. Fits(r)
      BY <3>4, <3>5, <3>6
    <3> HIDE DEF Goal, Fits
    <3> QED BY <1>5, <2>2, <3>1, <3>7
  <2> QED BY <1>8, <2>1, <2>2 DEF TurnPatches
<1>9. ASSUME TurnRests(t) \/ TurnDrops(t) \/ TurnFinishes(t) \/ TurnFreesStuck(t) PROVE Goal
  BY <1>6, <1>9 DEF TurnRests, TurnDrops, TurnFinishes, TurnFreesStuck
<1>10. ASSUME TurnLists(t) PROVE Goal
  <2>1. TurnTo(t, "couriers", route) /\ "couriers" \notin AfterLeaving
    BY <1>10 DEF TurnLists, AfterLeaving
  <2> HIDE DEF Goal, Fits
  <2> QED BY <1>2, <1>4, <2>1
<1>11. ASSUME TurnReadsCouriers(t) \/ TurnTells(t) \/ TurnRecords(t) \/ TurnFrees(t) \/ TurnPublishes(t)
           \/ TurnLooks(t) \/ TurnFinds(t)
      PROVE  Goal
  <2>1. PICK x : x = tick'[t].step
    OBVIOUS
  <2>2. TurnTo(t, x, tick[t].seen) /\ (x \in AfterLeaving => tick[t].step \in AfterLeaving)
    <3>1. CASE TurnReadsCouriers(t) \/ TurnFrees(t) \/ TurnPublishes(t) \/ TurnLooks(t) \/ TurnFinds(t)
      <4>1. /\ TurnTo(t, x, tick[t].seen)
            /\ x \in {"advance", "drop", "publish", "done", "routes", "freeStuck"}
        BY <2>1, <3>1 DEF TurnReadsCouriers, TurnFrees, TurnPublishes, TurnLooks, TurnFinds, TurnTo
      <4> QED BY <4>1 DEF AfterLeaving
    <3>2. CASE TurnTells(t) \/ TurnRecords(t)
      <4>1. TurnTo(t, x, tick[t].seen) /\ tick[t].step \in {"tell", "record", "confirm"}
        BY <2>1, <3>2 DEF TurnTells, TurnRecords, TurnTo
      <4> QED BY <4>1 DEF AfterLeaving
    <3> QED BY <1>11, <3>1, <3>2
  <2>3. x \in AfterLeaving => Left(tick[t].seen)
    BY <1>3, <2>2
  <2> HIDE DEF Goal, Fits
  <2> QED BY <1>3, <1>4, <2>2, <2>3
<1> QED BY <1>7, <1>8, <1>9, <1>10, <1>11 DEF TurnSteps

LEMMA StageKept ==
  ASSUME IInv, PromptCalls, PoolInv, NamesInv, StageInv, [Next]_vars
  PROVE  StageInv'
<1>0. /\ route' \in Route
      /\ \A t \in Ticker : tick[t].seen \in Route /\ tick'[t].seen \in Route /\ tick'[t] \in Turn
      /\ StageInv /\ NamesInv
  BY Typed, CourierKept, TurnsAreRecords DEF IInv, TypeOK
<1>1. /\ OlderThanStore(route)' /\ FlagsFit(route)'
      /\ (route.delivered => route.state \in {"MOVING", "DONE"})'
  BY RouteStageKept
<1>2. ASSUME NEW w, w.seen \in Route, OfClaim(w.seen), OlderThanStore(w.seen), FlagsFit(w.seen),
             LeftTogether(w.seen), w.step \in AfterLeaving => Left(w.seen)
      PROVE  CopyFits(w)'
  <2>1. PICK r \in Route, x \in {w.step} : r = w.seen /\ x = w.step
    BY <1>2
  <2>2. OlderThanStore(r)' /\ LeftTogether(r)'
    BY <1>2, <2>1, OlderStays, LeftTogetherStays
  <2>3. FlagsFit(r) /\ (x \in AfterLeaving => Left(r))
    BY <1>2, <2>1
  <2> QED BY <2>1, <2>2, <2>3 DEF CopyFits, LeftTogether, FlagsFit, Left
<1>3. ASSUME NEW t \in Ticker, tick'[t] = tick[t] PROVE CopyFits(tick[t])'
  <2>1. PICK w : w = tick[t]
    OBVIOUS
  <2>2. CopyFits(w)'
    BY <1>0, <1>2, <2>1 DEF StageInv, CopyFits, NamesInv, LeftTogether
  <2> QED BY <1>3, <2>1, <2>2
<1>4. ASSUME NEW t \in Ticker, TurnSteps(t) PROVE CopyFits(tick[t])'
  <2>1. PICK w : w = tick'[t]
    OBVIOUS
  <2>2. OfClaim(w.seen)
    BY <1>0, <1>4, <2>1, SeenIsOfClaim
  <2>3. FlagsFit(route')
    BY <1>1
  <2>4. /\ OlderThanStore(w.seen) /\ FlagsFit(w.seen) /\ LeftTogether(w.seen)
        /\ w.step \in AfterLeaving => Left(w.seen)
    BY <1>0, <1>4, <2>1, <2>3, SeenFits
  <2>5. CopyFits(w)'
    BY <1>0, <1>2, <2>1, <2>2, <2>4
  <2> QED BY <2>1, <2>5
<1>5. (\A t \in Ticker : CopyFits(tick[t]))'
  BY <1>3, <1>4, StepsAre DEF OnlyRun, OnlyTurn, Travels, Elsewhere
<1> QED BY <1>1, <1>5 DEF StageInv

LEMMA FreeBegins ==
  ASSUME NEW t \in Ticker, TurnSteps(t)
  PROVE  /\ tick'[t].step = "free" => TurnRecords(t)
         /\ tick'[t].step = "publish" => TurnFrees(t)
<1>1. ASSUME NEW r, GoesOn(t, r) PROVE tick'[t].step \notin {"free", "publish"}
  BY <1>1, NextWorkNeedsTelling DEF GoesOn, TurnTo
<1>2. ASSUME TurnEnds(t) PROVE tick'[t].step \notin {"free", "publish"}
  BY <1>2 DEF TurnEnds, TurnTo
<1>3. CASE TurnAdvances(t) \/ TurnPatches(t)
  BY <1>1, <1>2, <1>3 DEF TurnAdvances, TurnPatches
<1>4. CASE TurnRests(t) \/ TurnDrops(t) \/ TurnFinishes(t) \/ TurnFreesStuck(t)
  BY <1>2, <1>4 DEF TurnRests, TurnDrops, TurnFinishes, TurnFreesStuck
<1>5. CASE TurnLists(t) \/ TurnReadsCouriers(t) \/ TurnTells(t) \/ TurnPublishes(t) \/ TurnLooks(t)
           \/ TurnFinds(t)
  BY <1>5 DEF TurnLists, TurnReadsCouriers, TurnTells, TurnPublishes, TurnLooks, TurnFinds, TurnTo
<1>6. CASE TurnRecords(t) \/ TurnFrees(t)
  BY <1>6 DEF TurnRecords, TurnFrees, TurnTo
<1> QED BY <1>3, <1>4, <1>5, <1>6 DEF TurnSteps

(* The route of the trip stands or a new one is stored, never both.        *)
LEMMA StaysOn ==
  ASSUME IInv, PromptCalls, PoolInv, NEW r \in Route, OfClaim(r), Stays(r), [Next]_vars
  PROVE  Stays(r)'
<1>0. /\ route \in Route /\ route' \in Route /\ (Ours(r)' => Ours(r))
      /\ Carriers \subseteq Courier
  BY Typed, CourierKept, NamesStay DEF IInv, TypeOK
<1>1. PICK b \in Nat, n \in Nat, c \in {r.courier} : b = r.createdAt /\ n = r.trip /\ c = r.courier
  BY RouteTyped
<1>2. ASSUME NEW d \in Dispatcher, run'[d] = run[d], RoutePatched,
             Ours(r), SameRoute(route, r), Left(route)
      PROVE  /\ run'[d].step \notin Storing
             /\ run'[d].step = "findRoute" => RouteStands(d)'
  <2>1. /\ run'[d].step \notin Storing
        /\ run'[d].step = "findRoute" => RouteStands(d)
    BY <1>2 DEF Stays
  <2> QED BY <1>2, <2>1 DEF RouteStands, BelongsToAssignment, RoutePatched, SameNames
<1>3. ASSUME NEW d \in Dispatcher, RunSteps(d), RoutePatched,
             Ours(r)', Ours(r), SameRoute(route, r), Left(route)
      PROVE  /\ run'[d].step \notin Storing
             /\ run'[d].step = "findRoute" => RouteStands(d)'
  <2>1. CASE RunPlans(d)
    BY <1>3, <2>1 DEF RunPlans, Stays
  <2>2. ASSUME NEW k \in Carriers, RunFinds(d, k)
        PROVE  run'[d].step \notin Storing /\ RouteStands(d)'
    <3>1. trip[k] = r.trip
      BY <1>3 DEF Ours, PoolInv
    <3>2. r.courier = k /\ r.createdAt >= assignedAt[k]
      BY <3>1 DEF OfClaim
    <3>3. route'.courier = k /\ route'.createdAt >= assignedAt[k]
      BY <1>3, <3>2 DEF SameRoute, RoutePatched, SameNames
    <3> QED BY <2>2, <3>3 DEF RunFinds, RouteStands, BelongsToAssignment, Storing
  <2>3. ASSUME NEW k \in Pool, NEW at \in Nat, RunClaims(d, k, at) PROVE FALSE
    BY <1>3, <2>3 DEF RunClaims, Ours
  <2>4. CASE RunAsks(d) \/ (\E at \in Nat : RunStores(d, at)) \/ RunDecides(d) \/ RunEnds(d)
             \/ RunRereads(d) \/ RunFrees(d)
    BY <2>4 DEF RunAsks, Asking, RunStores, RunDecides, RunEnds, RunRereads, RunFrees, Storing
  <2> QED BY <1>3, <2>1, <2>2, <2>3, <2>4 DEF RunSteps
<1>4. CASE RoutePatched
  <2>1. SameRoute(route, r)' /\ Left(route)' => SameRoute(route, r) /\ Left(route)
    BY <1>1, <1>4 DEF RoutePatched, SameNames, SameRoute, Left
  <2> QED BY <1>0, <1>2, <1>3, <1>4, <2>1, StepsAre DEF Stays, OnlyRun, OnlyTurn, Travels, Elsewhere
<1>5. CASE Travels
  <2>1. \A d \in Dispatcher : run'[d].step \notin Storing /\ run'[d].step # "findRoute"
    BY <1>5 DEF Travels, ServiceStep, Storing
  <2> QED BY <2>1 DEF Stays
<1>6. ASSUME NEW d \in Dispatcher, NEW at \in Nat, RunStores(d, at) PROVE Stays(r)'
  <2>1. run[d].courier \in Courier /\ run[d].trip \in Nat
    BY <1>6, Typed DEF RunStores, Storing, HasCourier
  <2>2. route'.stage = "toMarket"
    BY <1>6, <2>1, NewRouteFields DEF RunStores
  <2> QED BY <2>2 DEF Stays, Left
<1>7. CASE Elsewhere
  <2>1. RoutePatched
    BY <1>0, <1>7 DEF Elsewhere, RoutePatched, SameNames
  <2> QED BY <1>4, <2>1
<1> QED BY <1>0, <1>4, <1>5, <1>6, <1>7, StepsAre, RunPatches, TurnPatchesRoute

(* While the route of the trip is known to have left, none is stored.      *)
LEMMA NoStoreOnTrip ==
  ASSUME IInv, NEW r \in Route, Stays(r), LeftTogether(r), Ours(r), Left(r), SameRoute(route, r),
         NEW d \in Dispatcher, NEW at \in Nat, RunStores(d, at)
  PROVE  FALSE
BY DEF LeftTogether, Stays, RunStores

LEMMA NotOurs ==
  ASSUME IInv, PoolInv
  PROVE  ~Ours(NoRoute)
BY NoRouteFields, Typed DEF PoolInv, Ours

LEMMA StaysByName ==
  ASSUME NEW r, NEW s, SameNames(r, s), Stays(s)
  PROVE  Stays(r)
BY DEF Stays, SameNames, Ours, SameRoute

(* A copy of the trip that has left is one of the route as it is.          *)
LatestTrip(r) == Ours(r) /\ Left(r) => SameRoute(route, r)

LEMMA SeenIsLatest ==
  ASSUME IInv, PoolInv, StageInv, TripInv, NEW t \in Ticker, TurnSteps(t), route' \in Route
  PROVE  Stays(tick'[t].seen) /\ LatestTrip(tick'[t].seen)
<1>0. /\ route \in Route /\ tick[t].seen \in Route /\ RoutePatched
      /\ Stays(route) /\ Stays(tick[t].seen) /\ LatestTrip(tick[t].seen)
      /\ route.stage \in Stage /\ tick[t].seen.stage \in Stage
  BY Typed, RouteTyped, TurnPatchesRoute DEF TripInv, OnTheTrip, LatestTrip
<1>1. Stays(NoRoute) /\ LatestTrip(NoRoute)
  BY NotOurs DEF Stays, LatestTrip
<1>2. Stays(tick'[t].seen)
  BY <1>0, <1>1, SeenIsCopied, StaysByName
<1>3. ASSUME SameNames(tick'[t].seen, route) PROVE LatestTrip(tick'[t].seen)
  BY <1>3 DEF SameNames, LatestTrip, SameRoute
<1>4. ASSUME tick'[t].seen = tick[t].seen PROVE LatestTrip(tick'[t].seen)
  BY <1>0, <1>4
<1>5. ASSUME TurnEnds(t) PROVE LatestTrip(tick'[t].seen)
  BY <1>1, <1>5 DEF TurnEnds, TurnTo
<1>6. ASSUME TurnAdvances(t) PROVE LatestTrip(tick'[t].seen)
  <2>1. PICK x \in Stage : /\ x = tick[t].seen.stage \/ (SameRoute(route, tick[t].seen) /\ x = route.stage)
                           /\ tick'[t].seen = WithStage(tick[t].seen, x)
    BY <1>6 DEF TurnAdvances, GoesOn, TurnTo
  <2>2. SameNames(tick'[t].seen, tick[t].seen) /\ tick'[t].seen.stage = x
    BY <1>0, <2>1, PatchedFields
  <2> QED BY <1>0, <2>1, <2>2 DEF LatestTrip, SameNames, SameRoute, Ours, Left
<1>7. ASSUME TurnPatches(t) PROVE LatestTrip(tick'[t].seen)
  <2>1. CASE GoesOn(t, WithStage(route', tick[t].seen.stage))
    <3>1. SameNames(tick'[t].seen, route')
      BY <1>0, <2>1, PatchedFields DEF GoesOn, TurnTo
    <3> QED BY <1>0, <1>3, <3>1 DEF RoutePatched, SameNames
  <2> QED BY <1>5, <1>7, <2>1 DEF TurnPatches
<1>8. ASSUME TurnLists(t) PROVE LatestTrip(tick'[t].seen)
  BY <1>3, <1>8 DEF TurnLists, TurnTo, SameNames
<1>9. CASE TurnRests(t) \/ TurnDrops(t) \/ TurnFinishes(t) \/ TurnFreesStuck(t)
  BY <1>2, <1>5, <1>9 DEF TurnRests, TurnDrops, TurnFinishes, TurnFreesStuck
<1>10. CASE TurnReadsCouriers(t) \/ TurnTells(t) \/ TurnRecords(t) \/ TurnFrees(t) \/ TurnPublishes(t)
           \/ TurnLooks(t) \/ TurnFinds(t)
  <2>1. tick'[t].seen = tick[t].seen
    BY <1>10 DEF TurnReadsCouriers, TurnTells, TurnRecords, TurnFrees, TurnPublishes, TurnLooks,
       TurnFinds, TurnTo
  <2> QED BY <1>2, <1>4, <2>1
<1> QED BY <1>2, <1>6, <1>7, <1>8, <1>9, <1>10 DEF TurnSteps

LEMMA LatestStays ==
  ASSUME IInv, PoolInv, NEW r \in Route, OfClaim(r), Stays(r), LeftTogether(r), LatestTrip(r), [Next]_vars
  PROVE  LatestTrip(r)'
<1>0. route \in Route /\ route' \in Route /\ (Ours(r)' => Ours(r))
  BY Typed, CourierKept, NamesStay DEF IInv, TypeOK
<1>1. PICK b \in Nat, x \in {r.stage}, c \in {r.courier} : b = r.createdAt /\ x = r.stage /\ c = r.courier
  BY RouteTyped
<1>2. CASE SameNames(route', route)
  BY <1>0, <1>1, <1>2 DEF LatestTrip, SameNames, SameRoute, Left
<1>3. ASSUME NEW d \in Dispatcher, NEW at \in Nat, RunStores(d, at) PROVE LatestTrip(r)'
  <2>1. ~(Ours(r) /\ Left(r))
    BY <1>3, NoStoreOnTrip DEF LatestTrip
  <2> QED BY <1>0, <1>1, <2>1 DEF LatestTrip, Left
<1>4. (\E d \in Dispatcher, at \in Nat : RunStores(d, at)) \/ SameNames(route', route)
  BY <1>0, StepsAre, RunPatches, TurnPatchesRoute, TravelPatchesRoute
     DEF RoutePatched, Elsewhere, SameNames
<1> QED BY <1>2, <1>3, <1>4

LEMMA TripKept ==
  ASSUME IInv, PromptCalls, PoolInv, NamesInv, StageInv, TripInv, [Next]_vars
  PROVE  TripInv'
<1>0. /\ route \in Route /\ route' \in Route
      /\ \A t \in Ticker : /\ tick[t].seen \in Route /\ tick'[t].seen \in Route /\ tick'[t] \in Turn
                           /\ OfClaim(tick[t].seen) /\ LeftTogether(tick[t].seen) /\ OnTheTrip(tick[t])
                           /\ tick[t].step = "free" => Left(tick[t].seen)
      /\ OfClaim(route) /\ Stays(route)
  BY Typed, CourierKept, TurnsAreRecords DEF IInv, TypeOK, NamesInv, StageInv, CopyFits,
     LeftTogether, TripInv,
     AfterLeaving
<1>1. Stays(route)'
  <2>1. PICK r \in Route : r = route
    BY <1>0
  <2>2. Stays(r)'
    BY <1>0, <2>1, StaysOn
  <2>3. CASE SameNames(route', route)
    <3>1. SameNames(route', r)
      BY <2>1, <2>3
    <3> QED BY <2>2, <3>1 DEF Stays, SameNames, Ours, SameRoute
  <2>4. ASSUME NEW d \in Dispatcher, NEW at \in Nat, RunStores(d, at) PROVE Stays(route)'
    <3>1. run[d].courier \in Courier /\ run[d].trip \in Nat
      BY <2>4, Typed DEF RunStores, Storing, HasCourier
    <3>2. route'.stage = "toMarket"
      BY <2>4, <3>1, NewRouteFields DEF RunStores
    <3> QED BY <3>2 DEF Stays, Left
  <2>5. (\E d \in Dispatcher, at \in Nat : RunStores(d, at)) \/ SameNames(route', route)
    BY <1>0, StepsAre, RunPatches, TurnPatchesRoute, TravelPatchesRoute
       DEF RoutePatched, Elsewhere, SameNames
  <2> QED BY <2>3, <2>4, <2>5
<1>2. ASSUME NEW t \in Ticker, tick'[t] = tick[t] PROVE OnTheTrip(tick[t])'
  <2>1. PICK r \in Route, x \in {tick[t].step} : r = tick[t].seen /\ x = tick[t].step
    BY <1>0
  <2>2. /\ OfClaim(r) /\ Stays(r) /\ LeftTogether(r) /\ LatestTrip(r)
        /\ Ours(r) /\ x = "free" => route.delivered
        /\ x = "publish" => ~Ours(r)
        /\ x = "free" => Left(r)
    BY <1>0, <2>1 DEF OnTheTrip, LatestTrip
  <2>3. Stays(r)' /\ LatestTrip(r)' /\ (Ours(r)' => Ours(r))
    BY <2>2, StaysOn, LatestStays, NamesStay
  <2>4. ASSUME Ours(r)', x = "free" PROVE route'.delivered
    <3>1. CASE route.delivered => route'.delivered
      BY <2>2, <2>3, <2>4, <3>1
    <3>2. ASSUME NEW d \in Dispatcher, NEW at \in Nat, RunStores(d, at) PROVE FALSE
      <4>1. Ours(r) /\ Left(r) /\ SameRoute(route, r)
        BY <2>2, <2>3, <2>4 DEF LatestTrip
      <4> QED BY <2>2, <3>2, <4>1, NoStoreOnTrip
    <3>3. (\E d \in Dispatcher, at \in Nat : RunStores(d, at)) \/ (route.delivered => route'.delivered)
      BY <1>0, StepsAre, RunPatches, TurnPatchesRoute, TravelPatchesRoute
         DEF RoutePatched, Elsewhere, SameFlags
    <3> QED BY <3>1, <3>2, <3>3
  <2>5. x = "publish" => ~Ours(r)'
    BY <2>2, <2>3
  <2> QED BY <1>2, <2>1, <2>3, <2>4, <2>5 DEF OnTheTrip, LatestTrip
<1>3. ASSUME NEW t \in Ticker, OnlyTurn(t), TurnSteps(t) PROVE OnTheTrip(tick[t])'
  <2>1. PICK r \in Route : r = tick'[t].seen
    BY <1>0
  <2>2. Stays(r) /\ LatestTrip(r)
    BY <1>0, <1>3, <2>1, SeenIsLatest
  <2>3. OfClaim(r)
    BY <1>0, <1>3, <2>1, SeenIsOfClaim
  <2>4. Stays(r)'
    BY <2>2, <2>3, StaysOn
  <2>5. LatestTrip(r)'
    <3>1. RoutePatched /\ (Ours(r)' => Ours(r))
      BY <1>0, <1>3, <2>3, TurnPatchesRoute, NamesStay
    <3>2. PICK b, x, c : b = r.createdAt /\ x = r.stage /\ c = r.courier
      OBVIOUS
    <3> QED BY <2>2, <3>1, <3>2 DEF LatestTrip, RoutePatched, SameNames, SameRoute, Left
  <2>6. tick'[t].step = "free" => route'.delivered
    <3>1. ASSUME TurnRecords(t) PROVE route'.delivered
      BY <1>0, <3>1, PatchedFields DEF TurnRecords
    <3> QED BY <1>3, <3>1, FreeBegins
  <2>7. tick'[t].step = "publish" => ~Ours(r)'
    <3>1. ASSUME TurnFrees(t) PROVE ~Ours(r)'
      <4>1. r = tick[t].seen
        BY <2>1, <3>1 DEF TurnFrees, TurnTo
      <4>2. PICK n \in Nat, k \in {r.courier} : k = r.courier /\ n = r.trip
        BY RouteTyped
      <4>3. Freed(k) /\ UNCHANGED <<trip, assignedAt, now>>
        BY <1>3, <3>1, <4>1, <4>2 DEF TurnFrees, OnlyTurn
      <4>4. SameCarriers /\ k \notin Carriers'
        BY <4>3, FewerCarriers
      <4>5. \A c \in Carriers : trip[c] = n => k = c
        BY <2>3, <4>2 DEF OfClaim
      <4>6. \A c \in Carriers' : trip'[c] # n
        BY <4>4, <4>5 DEF SameCarriers
      <4> QED BY <4>2, <4>6 DEF Ours
    <3> QED BY <1>3, <3>1, FreeBegins
  <2> QED BY <2>1, <2>4, <2>5, <2>6, <2>7 DEF OnTheTrip, LatestTrip
<1>4. (\A t \in Ticker : OnTheTrip(tick[t]))'
  BY <1>2, <1>3, StepsAre DEF OnlyRun, OnlyTurn, Travels, Elsewhere
<1> QED BY <1>1, <1>4 DEF TripInv

LEMMA RouteNamesStay ==
  ASSUME IInv, [Next]_vars
  PROVE  \/ \E d \in Dispatcher, at \in Nat : OnlyRun(d) /\ RunSteps(d) /\ RunStores(d, at)
         \/ /\ SameNames(route', route)
            /\ route'.state = "MOVING" => route.state = "MOVING"
<1>0. route \in Route /\ route' \in Route
  BY Typed, CourierKept DEF IInv, TypeOK
<1>1. ASSUME NEW d \in Dispatcher, OnlyRun(d), RunSteps(d)
      PROVE  (\E at \in Nat : RunStores(d, at)) \/ RoutePatched
  BY <1>0, <1>1, RunPatches
<1>2. ASSUME NEW t \in Ticker, TurnSteps(t) PROVE RoutePatched
  BY <1>0, <1>2, TurnPatchesRoute
<1>3. CASE Travels
  BY <1>0, <1>3, TravelPatchesRoute
<1>4. CASE Elsewhere
  BY <1>4 DEF Elsewhere, SameNames
<1> QED BY <1>1, <1>2, <1>3, <1>4, StepsAre DEF RoutePatched

(* A spent trip stays spent, unless a route is stored.                     *)
LEMMA SpentStays ==
  ASSUME IInv, NEW n \in Nat, Spent(n), [Next]_vars,
         SameNames(route', route), route'.state = "MOVING" => route.state = "MOVING"
  PROVE  Spent(n)'
<1>0. /\ route \in Route /\ route' \in Route
      /\ route.state = "MOVING" => route.courier \in Courier
      /\ \A t \in Ticker : tick[t].seen \in Route
  BY Typed, CourierKept DEF IInv, TypeOK
<1>1. ASSUME NEW t \in Ticker, tick'[t] = tick[t]
      PROVE  /\ tick'[t].step = "free" => tick'[t].seen.trip # n
             /\ route'.state = "MOVING" /\ SameRoute(route', tick'[t].seen) => tick'[t].seen.trip # n
  BY <1>1 DEF Spent, SameRoute, SameNames
<1>2. ASSUME NEW t \in Ticker, TurnSteps(t)
      PROVE  /\ tick'[t].step = "free" => tick'[t].seen.trip # n
             /\ route'.state = "MOVING" /\ SameRoute(route', tick'[t].seen) => tick'[t].seen.trip # n
  <2>1. ASSUME TurnRecords(t) PROVE tick'[t].seen.trip # n
    BY <2>1 DEF TurnRecords, TurnTo, Current, Spent
  <2>2. tick'[t].step = "free" => TurnRecords(t)
    BY <1>2, FreeBegins
  <2>3. ASSUME route'.state = "MOVING", SameRoute(route', tick'[t].seen)
        PROVE  tick'[t].seen.trip # n
    <3>1. route.state = "MOVING" /\ SameRoute(route, tick'[t].seen) /\ route.courier \in Courier
      BY <1>0, <2>3 DEF SameNames, SameRoute
    <3>2. CASE tick'[t].seen = NoRoute
      BY <3>1, <3>2, NoRouteFields, CourierAssumption DEF SameRoute
    <3>3. CASE SameNames(tick'[t].seen, route)
      BY <3>1, <3>3 DEF Spent, SameNames
    <3>4. CASE SameNames(tick'[t].seen, tick[t].seen)
      BY <3>1, <3>4 DEF Spent, SameNames, SameRoute
    <3> QED BY <1>0, <1>2, <3>2, <3>3, <3>4, SeenIsCopied
  <2> QED BY <2>1, <2>2, <2>3
<1>3. \A t \in Ticker : /\ tick'[t].step = "free" => tick'[t].seen.trip # n
                        /\ route'.state = "MOVING" /\ SameRoute(route', tick'[t].seen) =>
                             tick'[t].seen.trip # n
  BY <1>1, <1>2, StepsAre DEF OnlyRun, OnlyTurn, Travels, Elsewhere
<1>4. route'.state = "MOVING" => route'.trip # n
  BY DEF Spent, SameNames
<1> QED BY <1>3, <1>4 DEF Spent

(* Who releases is the only dispatcher underway.                           *)
LEMMA ReleasesAlone ==
  ASSUME IInv, AloneInv, [Next]_vars, NEW d \in Dispatcher, run[d].step \in Releasing,
         NEW e \in Dispatcher, RunSteps(e)
  PROVE  e = d
<1>1. Bound /\ Underway(d)
  BY DEF AloneInv, Underway, Releasing
<1> QED BY <1>1, NoRunBegins DEF AloneInv

(* When the route is not that of the claim, or ended without a delivery,    *)
(* nobody is about to free the courier of the trip for its delivery.       *)
LEMMA NobodyFrees ==
  ASSUME IInv, PoolInv, NamesInv, StageInv, TripInv, NEW c \in Carriers,
         \/ ~BelongsToAssignment(route, c, assignedAt[c])
         \/ ~route.delivered
  PROVE  \A t \in Ticker : tick[t].step = "free" => tick[t].seen.trip # trip[c]
<1> SUFFICES ASSUME NEW t \in Ticker, tick[t].step = "free", tick[t].seen.trip = trip[c] PROVE FALSE
  OBVIOUS
<1>1. Ours(tick[t].seen) /\ Left(tick[t].seen)
  BY DEF Ours, StageInv, CopyFits, AfterLeaving
<1>2. SameRoute(route, tick[t].seen) /\ route.delivered
  BY <1>1 DEF TripInv, OnTheTrip
<1>3. tick[t].seen.courier = c /\ tick[t].seen.createdAt >= assignedAt[c]
  BY DEF NamesInv, OfClaim
<1> QED BY <1>2, <1>3 DEF SameRoute, BelongsToAssignment

LEMMA SpentByRoute ==
  ASSUME IInv, PoolInv, NamesInv, StageInv, TripInv, NEW c \in Carriers,
         \/ ~BelongsToAssignment(route, c, assignedAt[c])
         \/ ~route.delivered /\ route.state # "MOVING"
  PROVE  Spent(trip[c])
<1>1. \A t \in Ticker : tick[t].step = "free" => tick[t].seen.trip # trip[c]
  BY NobodyFrees
<1>2. CASE route.state # "MOVING"
  BY <1>1, <1>2 DEF Spent
<1>3. CASE ~BelongsToAssignment(route, c, assignedAt[c])
  <2>1. route.trip # trip[c]
    BY <1>3 DEF NamesInv, OfClaim, BelongsToAssignment
  <2>2. ASSUME NEW t \in Ticker, SameRoute(route, tick[t].seen) PROVE tick[t].seen.trip # trip[c]
    BY <1>3, <2>2 DEF NamesInv, OfClaim, BelongsToAssignment, SameRoute
  <2> QED BY <1>1, <2>1, <2>2 DEF Spent
<1> QED BY <1>2, <1>3

LEMMA StillRuns ==
  ASSUME IInv, [Next]_vars, run' = run
  PROVE  /\ SameCarriers /\ SameNames(route', route)
         /\ route'.state = "MOVING" => route.state = "MOVING"
<1>1. ASSUME NEW d \in Dispatcher, NEW c \in Pool, NEW at \in Nat, RunClaims(d, c, at) PROVE FALSE
  BY <1>1 DEF RunClaims
<1>2. ASSUME NEW d \in Dispatcher, NEW at \in Nat, RunStores(d, at) PROVE FALSE
  BY <1>2 DEF RunStores, Storing
<1> QED BY <1>1, <1>2, CarriersMove, RouteNamesStay

(* The release of a dispatcher, as ReleaseInv tells it.                    *)
Releases(r) ==
  /\ r.step = "decide" /\ r.courier \in Carriers => r.assigned = assignedAt[r.courier]
  /\ r.step \in {"end", "endReread"} => SameRoute(route, r.stored)
  /\ r.step = "free" /\ r.courier \in Carriers => Spent(trip[r.courier])

LEMMA ReleaseMoves ==
  ASSUME IInv, PoolInv, NamesInv, StageInv, TripInv, [Next]_vars,
         NEW d \in Dispatcher, OnlyRun(d), RunSteps(d), Releases(run[d])
  PROVE  Releases(run[d])'
<1>0. /\ route \in Route /\ route' \in Route /\ Carriers \subseteq Courier
      /\ trip \in [Courier -> Nat] /\ tick' = tick /\ "ENDED" \in RouteStates
  BY Typed, CourierKept DEF IInv, TypeOK, OnlyRun, RouteStates
<1>1. ASSUME NEW c \in Carriers, RunFinds(d, c) PROVE Releases(run[d])'
  <2>1. /\ run'[d].step \in {"findRoute", "decide"} /\ run'[d].courier = c
        /\ run'[d].assigned = assignedAt'[c]
    BY <1>1 DEF RunFinds, OnlyReads
  <2> QED BY <2>1 DEF Releases
<1>2. ASSUME NEW c, run'[d].step = "free", run'[d].courier = c, UNCHANGED <<courier, trip>>,
             c \in Carriers => Spent(trip[c])'
      PROVE  Releases(run[d])'
  <2>1. Carriers' = Carriers
    BY <1>2 DEF Carriers, Carrying
  <2>2. c \in Carriers' => Spent(trip[c])'
    BY <1>2, <2>1
  <2> QED BY <1>2, <2>1, <2>2 DEF Releases
<1>3. CASE RunDecides(d)
  <2>1. PICK c : c = run[d].courier
    OBVIOUS
  <2>2. /\ UNCHANGED <<courier, trip, assignedAt, route>> /\ run[d].step = "decide"
        /\ run'[d].courier = c
    BY <1>3, <2>1 DEF RunDecides, OnlyReads
  <2>3. CASE run'[d].step = "end" /\ run'[d].stored = route
    BY <2>2, <2>3 DEF Releases, SameRoute
  <2>4. CASE /\ run'[d].step = "free"
             /\ \/ ~BelongsToAssignment(route, run[d].courier, run[d].assigned)
                \/ ~route.delivered /\ route.state = "ENDED"
    <3>1. ASSUME c \in Carriers PROVE Spent(trip[c])'
      <4>1. run[d].assigned = assignedAt[c]
        BY <2>1, <2>2, <3>1 DEF Releases
      <4>2. Spent(trip[c])
        BY <2>1, <2>4, <3>1, <4>1, SpentByRoute
      <4> QED BY <1>0, <2>2, <4>2 DEF Spent, SameRoute
    <3> QED BY <1>2, <2>2, <2>4, <3>1
  <2> QED BY <1>3, <2>3, <2>4 DEF RunDecides
<1>4. CASE RunEnds(d)
  <2>1. PICK c : c = run[d].courier
    OBVIOUS
  <2>2. UNCHANGED <<courier, trip>> /\ run[d].step = "end" /\ run'[d].courier = c
    BY <1>4, <2>1 DEF RunEnds
  <2>3. CASE Endable(run[d].stored) /\ route' = WithState(route, "ENDED") /\ run'[d].step = "free"
    <3>1. route'.state # "MOVING"
      BY <1>0, <2>3, PatchedFields
    <3>2. ASSUME c \in Carriers PROVE Spent(trip[c])'
      <4>1. \A t \in Ticker : tick[t].step = "free" => tick[t].seen.trip # trip[c]
        BY <2>3, <3>2, NobodyFrees DEF Endable
      <4> QED BY <1>0, <2>2, <3>1, <4>1 DEF Spent
    <3> QED BY <1>2, <2>2, <2>3, <3>2
  <2>4. CASE route' = route /\ run'[d].step = "endReread"
    <3>1. run'[d].stored = run[d].stored /\ SameRoute(route, run[d].stored)
      BY <1>4, <2>2 DEF RunEnds, Releases
    <3> QED BY <2>4, <3>1 DEF Releases, SameRoute
  <2> QED BY <1>4, <2>3, <2>4 DEF RunEnds
<1>5. CASE RunRereads(d)
  <2>1. PICK c : c = run[d].courier
    OBVIOUS
  <2>2. UNCHANGED <<courier, trip, route>> /\ run'[d].step = "free" /\ run'[d].courier = c
    BY <1>5, <2>1 DEF RunRereads, OnlyReads
  <2>3. route.state = "ENDED"
    BY <1>5 DEF RunRereads, Releases
  <2>4. ~route.delivered
    BY <2>3 DEF StageInv
  <2>5. ASSUME c \in Carriers PROVE Spent(trip[c])'
    <3>1. Spent(trip[c])
      BY <2>3, <2>4, <2>5, SpentByRoute
    <3> QED BY <1>0, <2>2, <3>1 DEF Spent, SameRoute
  <2> QED BY <1>2, <2>2, <2>5
<1>6. CASE RunAsks(d) \/ (\E c \in Pool, at \in Nat : RunClaims(d, c, at)) \/ RunPlans(d)
           \/ (\E at \in Nat : RunStores(d, at)) \/ RunFrees(d)
  <2>1. run'[d].step \notin {"decide", "end", "endReread", "free"}
    BY <1>6 DEF RunAsks, Asking, RunClaims, RunPlans, Storing, RunStores, RunFrees
  <2> QED BY <2>1 DEF Releases
<1> QED BY <1>1, <1>3, <1>4, <1>5, <1>6 DEF RunSteps

LEMMA ReleaseKept ==
  ASSUME IInv, AloneInv, PoolInv, NamesInv, StageInv, TripInv, ReleaseInv, [Next]_vars
  PROVE  ReleaseInv'
<1>0. /\ \A d \in Dispatcher : Releases(run[d])
      /\ Carriers \subseteq Courier /\ trip \in [Courier -> Nat]
  BY Typed DEF ReleaseInv, Releases
<1>1. ASSUME NEW e \in Dispatcher, OnlyRun(e), RunSteps(e), NEW d \in Dispatcher
      PROVE  Releases(run[d])'
  <2>1. CASE d = e
    BY <1>0, <1>1, <2>1, ReleaseMoves
  <2>2. CASE d # e
    <3>1. run'[d].step \notin Releasing
      BY <1>1, <2>2, ReleasesAlone DEF OnlyRun
    <3> QED BY <3>1 DEF Releases, Releasing
  <2> QED BY <2>1, <2>2
<1>2. ASSUME run' = run, NEW d \in Dispatcher PROVE Releases(run[d])'
  <2>1. PICK c, q : c = run[d].courier /\ q = run[d].stored
    OBVIOUS
  <2>2. /\ SameCarriers /\ SameNames(route', route)
        /\ route'.state = "MOVING" => route.state = "MOVING"
    BY <1>2, StillRuns
  <2>3. ASSUME c \in Carriers', run[d].step = "decide" PROVE run[d].assigned = assignedAt'[c]
    BY <1>0, <2>1, <2>2, <2>3 DEF SameCarriers, Releases
  <2>4. run[d].step \in {"end", "endReread"} => SameRoute(route', q)
    BY <1>0, <2>1, <2>2 DEF Releases, SameNames, SameRoute
  <2>5. ASSUME c \in Carriers', run[d].step = "free" PROVE Spent(trip[c])'
    <3>1. PICK n \in Nat : n = trip[c] /\ n = trip'[c] /\ c \in Carriers
      BY <1>0, <2>2, <2>5 DEF SameCarriers
    <3>2. Spent(n)
      BY <1>0, <2>1, <2>5, <3>1 DEF Releases
    <3>3. Spent(n)'
      BY <2>2, <3>2, SpentStays
    <3> QED BY <3>1, <3>3
  <2> QED BY <1>2, <2>1, <2>3, <2>4, <2>5 DEF Releases
<1>3. \A d \in Dispatcher : Releases(run[d])'
  BY <1>1, <1>2, StepsAre DEF OnlyTurn, Travels, Elsewhere
<1> QED BY <1>3 DEF ReleaseInv, Releases

LEMMA ClosedStays ==
  ASSUME IInv, [Next]_vars, NEW x \in Outcome, Closed(x)
  PROVE  Closed(x)'
<1>0. /\ now \in Nat /\ trip \in [Courier -> Nat] /\ Carriers \subseteq Courier
      /\ \A t \in Ticker : tick[t].seen \in Route
  BY Typed
<1>1. PICK n \in Nat, k \in {x.kind} : n = x.trip /\ k = x.kind
  BY DEF Outcome
<1>2. n < now' /\ (k = "delivered" => \A c \in Carriers' : trip'[c] # n)
  <2>1. n < now /\ (k = "delivered" => \A c \in Carriers : trip[c] # n)
    BY <1>1 DEF Closed
  <2>2. CASE SameCarriers
    BY <1>0, <2>1, <2>2 DEF SameCarriers
  <2>3. ASSUME NEW c, NEW at, ClaimedNow(c, at) PROVE n < now' /\ \A e \in Carriers' : trip'[e] # n
    BY <1>0, <2>1, <2>3 DEF ClaimedNow
  <2> QED BY <2>2, <2>3, <2>1, CarriersMove
<1>3. ASSUME k = "released"
      PROVE  /\ Bound' /\ \A d \in Dispatcher : ~Underway(d)'
             /\ Spent(n)'
             /\ \A t \in Ticker : tick'[t].step = "publish" => tick'[t].seen.trip # n
  <2>1. /\ Bound /\ \A d \in Dispatcher : ~Underway(d)
        /\ Spent(n)
        /\ \A t \in Ticker : tick[t].step = "publish" => tick[t].seen.trip # n
    BY <1>1, <1>3 DEF Closed
  <2>2. \A d \in Dispatcher : ~RunSteps(d)
    BY <2>1, NoRunBegins
  <2>3. run' = run
    BY <2>2, StepsAre DEF OnlyTurn, Travels, Elsewhere
  <2>4. Spent(n)'
    BY <2>1, <2>3, StillRuns, SpentStays
  <2>5. ASSUME NEW t \in Ticker, TurnSteps(t), tick'[t].step = "publish"
        PROVE  tick'[t].seen.trip # n
    <3>1. tick[t].step = "free" /\ tick'[t].seen = tick[t].seen
      BY <2>5, FreeBegins DEF TurnFrees, TurnTo
    <3> QED BY <2>1, <3>1 DEF Spent
  <2>6. \A t \in Ticker : tick'[t].step = "publish" => tick'[t].seen.trip # n
    BY <2>1, <2>2, <2>5, StepsAre DEF OnlyTurn, Travels, Elsewhere
  <2> QED BY <2>1, <2>3, <2>4, <2>6, BoundStays DEF Underway
<1> QED BY <1>1, <1>2, <1>3 DEF Closed

LEMMA OutcomeKept ==
  ASSUME IInv, AloneInv, PoolInv, NamesInv, TripInv, ReleaseInv, OutcomeInv, [Next]_vars
  PROVE  OutcomeInv'
<1>0. /\ outcomes \subseteq Outcome /\ now \in Nat /\ trip \in [Courier -> Nat]
      /\ (\A x \in outcomes : Closed(x)) /\ OneOutcome
      /\ \A t \in Ticker : tick[t].seen \in Route
      /\ Carriers \subseteq Courier
  BY Typed DEF OutcomeInv
<1>1. \A x \in outcomes : Closed(x)'
  BY <1>0, ClosedStays
<1>2. CASE outcomes' = outcomes
  BY <1>0, <1>1, <1>2 DEF OutcomeInv, OneOutcome
<1>3. ASSUME NEW z \in Outcome, outcomes' = outcomes \cup {z}, Closed(z)',
             \A y \in outcomes : y.trip = z.trip => y.kind = z.kind
      PROVE  OutcomeInv'
  <2>1. \A x \in outcomes' : Closed(x)'
    BY <1>1, <1>3
  <2>2. \A x, y \in outcomes' : x.trip = y.trip => x.kind = y.kind
    BY <1>0, <1>3 DEF OneOutcome
  <2> QED BY <2>1, <2>2 DEF OutcomeInv, OneOutcome
<1>4. \A y \in outcomes : y.kind \in {"released", "delivered"}
  BY <1>0 DEF Outcome
<1>5. ASSUME NEW d \in Dispatcher, OnlyRun(d), RunFrees(d), Carrying(run[d].courier)
      PROVE  OutcomeInv'
  <2>1. PICK k \in Courier : k = run[d].courier
    BY <1>5, Typed DEF RunFrees, HasCourier
  <2>2. k \in Carriers
    BY <1>5, <2>1 DEF Carriers
  <2>3. PICK n \in Nat : n = trip[k]
    BY <1>0
  <2>4. PICK z : z = [trip |-> n, kind |-> "released"]
    OBVIOUS
  <2>5. z \in Outcome /\ z.trip = n /\ z.kind = "released" /\ outcomes' = outcomes \cup {z}
    BY <1>5, <2>1, <2>3, <2>4 DEF Outcome, RunFrees
  <2>6. /\ order' = order /\ now' = now /\ route' = route /\ tick' = tick /\ run'[d].step = "idle"
        /\ \A e \in Dispatcher \ {d} : run'[e] = run[e]
    BY <1>5 DEF RunFrees, OnlyRun
  <2>7. Bound /\ \A e \in Dispatcher : ~Underway(e)'
    <3>1. Bound /\ Underway(d)
      BY <1>5 DEF AloneInv, Releasing, RunFrees, Underway
    <3> QED BY <2>6, <3>1 DEF AloneInv, Underway
  <2>8. Spent(n)'
    <3>1. Spent(n)
      BY <1>5, <2>1, <2>2, <2>3 DEF ReleaseInv, RunFrees
    <3> QED BY <2>6, <3>1 DEF Spent, SameRoute
  <2>9. \A t \in Ticker : tick[t].step = "publish" => tick[t].seen.trip # n
    BY <2>2, <2>3 DEF TripInv, OnTheTrip, Ours
  <2>10. n < now
    BY <2>1, <2>3 DEF PoolInv
  <2>11. Closed(z)'
    BY <2>5, <2>6, <2>7, <2>8, <2>9, <2>10 DEF Closed, Bound
  <2>12. \A y \in outcomes : y.trip = n => y.kind = "released"
    BY <1>0, <1>4, <2>2, <2>3 DEF Closed
  <2> QED BY <1>3, <2>5, <2>11, <2>12
<1>6. ASSUME NEW t \in Ticker, OnlyTurn(t), TurnPublishes(t) PROVE OutcomeInv'
  <2>1. PICK n \in Nat : n = tick[t].seen.trip
    BY <1>0, RouteTyped
  <2>2. PICK z : z = [trip |-> n, kind |-> "delivered"]
    OBVIOUS
  <2>3. z \in Outcome /\ z.trip = n /\ z.kind = "delivered" /\ outcomes' = outcomes \cup {z}
    BY <1>6, <2>1, <2>2 DEF Outcome, TurnPublishes
  <2>4. n < now /\ \A c \in Carriers : trip[c] # n
    BY <1>6, <2>1 DEF TurnPublishes, NamesInv, OfClaim, TripInv, OnTheTrip, Ours
  <2>5. Carriers' = Carriers /\ trip' = trip /\ now' = now
    BY <1>6 DEF TurnPublishes, OnlyTurn, Carriers, Carrying
  <2>6. Closed(z)'
    BY <2>3, <2>4, <2>5 DEF Closed
  <2>7. \A y \in outcomes : y.trip = n => y.kind = "delivered"
    BY <1>0, <1>4, <1>6, <2>1 DEF Closed, TurnPublishes
  <2> QED BY <1>3, <2>3, <2>6, <2>7
<1>7. \/ outcomes' = outcomes
      \/ \E d \in Dispatcher : OnlyRun(d) /\ RunFrees(d) /\ Carrying(run[d].courier)
      \/ \E t \in Ticker : OnlyTurn(t) /\ TurnPublishes(t)
  <2>1. ASSUME NEW d \in Dispatcher, RunSteps(d)
        PROVE  outcomes' = outcomes \/ (RunFrees(d) /\ Carrying(run[d].courier))
    BY <2>1 DEF RunSteps, RunAsks, RunFinds, RunClaims, RunPlans, RunStores, RunDecides, RunEnds,
       RunRereads,
       RunFrees, OnlyReads
  <2>2. ASSUME NEW t \in Ticker, TurnSteps(t) PROVE outcomes' = outcomes \/ TurnPublishes(t)
    BY <2>2 DEF TurnSteps, TurnReads, TurnRests, TurnLists, TurnReadsCouriers, TurnDrops,
       TurnAdvances,
       TurnPatches, TurnTells, TurnRecords, TurnFrees, TurnFinishes, TurnLooks, TurnFinds, TurnFreesStuck
  <2> QED BY <2>1, <2>2, StepsAre DEF Travels, Elsewhere
<1> QED BY <1>2, <1>5, <1>6, <1>7

LEMMA TripsInitially == Init => TripsInv
<1> SUFFICES ASSUME Init PROVE TripsInv
  OBVIOUS
<1>1. /\ \A c \in Courier : ~Carrying(c) /\ trip[c] = 0 /\ assignedAt[c] = 0
      /\ now = 1 /\ route = NoRoute /\ outcomes = {} /\ order = Paid
  BY DEF Init, Carrying
<1>2. Carriers = {}
  BY <1>1 DEF Carriers
<1>3. \A d \in Dispatcher : run[d].step = "idle"
  BY IdleIsARun, FieldsOfRunOf DEF Init
<1>4. \A t \in Ticker : tick[t].step = "idle" /\ tick[t].seen = NoRoute
  BY RestTurns DEF Init
<1>5. AloneInv
  BY <1>1, <1>3 DEF AloneInv, Paid, Bound, Terminal, Releasing
<1>6. PoolInv
  BY <1>1, <1>2 DEF PoolInv
<1>7. NamesInv
  BY <1>1, <1>2, <1>3, <1>4, NoRouteFields DEF NamesInv, OfClaim, RunOfClaim, Storing
<1>8. StageInv
  BY <1>1, <1>3, <1>4, NoRouteFields DEF StageInv, CopyFits, OlderThanStore, FlagsFit, Left,
     AfterLeaving
<1>9. TripInv
  BY <1>1, <1>2, <1>3, <1>4 DEF TripInv, OnTheTrip, Stays, Ours
<1>10. ReleaseInv /\ OutcomeInv
  BY <1>1, <1>3 DEF ReleaseInv, OutcomeInv, OneOutcome
<1> QED BY <1>5, <1>6, <1>7, <1>8, <1>9, <1>10 DEF TripsInv

LEMMA TripsKept ==
  ASSUME PromptCalls, AtMostTwoDispatch
  PROVE  IInv /\ TripsInv /\ [Next]_vars => TripsInv'
BY AloneKept, PoolKept, NamesKept, StageKept, TripKept, ReleaseKept, OutcomeKept DEF TripsInv

-----------------------------------------------------------------------------
(* Theorems *)

(* Every variable keeps its type, whatever the number of dispatchers,      *)
(* tickers and couriers.                                                   *)
THEOREM CourierTypeCorrect == Spec => []TypeOK
<1>1. IInv => TypeOK
  BY DEF IInv
<1> QED BY <1>1, CourierInvariant, PTL

(* The subscriber of the feed sees no delivery of a courier before its     *)
(* pick-up (advance-route.ts), wherever tickers and their copies stop.     *)
THEOREM PickupIsNeverSkipped == Spec => []PickupIsToldFirst
<1>1. IInv => PickupIsToldFirst
  BY DEF IInv
<1> QED BY <1>1, CourierInvariant, PTL

(* No stale read and no late event takes the order off the table, or its   *)
(* courier from it (bindCourier, decideMilestone).                         *)
THEOREM OrderFollowsTable == Spec => FollowsTable
<1>1. IInv /\ [Next]_vars =>
        [Lifecycle!Next /\ (order.courier # NoCourier => order'.courier = order.courier)]_order
  BY OrderMoves DEF IInv, Writes
<1> QED BY <1>1, CourierInvariant, PTL DEF Spec, FollowsTable

(* An order that waits for its courier does not wait in vain, whatever the *)
(* number of instances on either side and whatever call of a dispatcher    *)
(* fails, as long as no turn of a ticker has broken off (advance-route.ts  *)
(* frees the courier before it publishes the delivery).                    *)
THEOREM BoundCourierIsComing == Spec => [](failures.tick = 0 => BoundCourierComes)
<1>1. IInv /\ ClaimsInv => BoundCourierComes
  <2> SUFFICES ASSUME IInv, ClaimsInv, order.status \in {"PREPARING", "ON_THE_WAY"},
                      order.courier # NoCourier
               PROVE  BoundCourierComes
    BY DEF BoundCourierComes
  <2>1. order.courier \in Courier /\ Claimed(order.courier)
    BY DEF IInv, TypeOK, Order, ClaimsInv, OrderClaimed
  <2>2. Carrying(order.courier) \/ Heard(order.courier)
    BY <2>1 DEF ClaimsInv, PoolClaimed, Settled, Terminal
  <2> QED BY <2>2 DEF BoundCourierComes, Heard, Delivered, Doing
<1>2. Init => (failures.tick = 0 => ClaimsInv)
  BY ClaimsInitially
<1>3. Spec => [](failures.tick = 0 => ClaimsInv)
  BY <1>2, ClaimsKept, CourierInvariant, PTL DEF Spec
<1> QED BY <1>1, <1>3, CourierInvariant, PTL

(* A trip that was given back is not delivered, and a delivered one was not *)
(* given back (release-courier.ts, advance-route.ts): with two dispatchers, *)
(* as two processes that take turns on the queue, and calls that end before *)
(* the courier moves on; whatever fails, however many couriers and tickers. *)
THEOREM TripHasOneOutcome ==
  ASSUME PromptCalls, AtMostTwoDispatch
  PROVE  Spec => []OneOutcome
<1>1. IInv /\ TripsInv /\ [Next]_vars => TripsInv'
  BY TripsKept
<1>2. TripsInv => OneOutcome
  BY DEF TripsInv, OutcomeInv
<1> QED BY <1>1, <1>2, TripsInitially, CourierInvariant, PTL DEF Spec

==============================================================================
