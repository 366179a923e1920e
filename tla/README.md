# Verification of the quick-commerce services

TLA+ models of the services that reserve stock, open and repeat a checkout,
take the money, publish what happened and bring the order to the customer, and
of the checkout page that drives them; the TLC configurations that check them
on small instances; and TLAPS proofs of the safety properties of stock,
checkout, payment and outbox for every value of the constants. The reference is
the source in this repository; ADRs, comments and tests are quoted only where
the code and its documentation disagree.

Contents

1. [The system](#1-the-system)
2. [Modules](#2-modules)
3. [Stock: StockReservation, CounterRecovery](#3-stock)
4. [Checkout: OrderSaga, OrderLifecycle](#4-checkout)
5. [Money: Payment, PaymentRecord](#5-money)
6. [Opening an order: DraftOrders, IdempotencyKey, CartReserve](#6-opening-an-order)
7. [Events: EventFeed, OutboxRelay, EventGroup](#7-events)
8. [Delivery: CourierDispatch](#8-delivery)
9. [The page: CheckoutServer, CheckoutPage](#9-the-page)
10. [What the runs show](#10-what-the-runs-show)
11. [What is proved](#11-what-is-proved)
12. [Where code and documentation disagree](#12-where-code-and-documentation-disagree)
13. [Not modelled, and the plan](#13-not-modelled-and-the-plan)

## 1. The system

A market order goes through eight services. They share no database; they call
each other by gRPC (with deadlines, retries of idempotent calls and a circuit
breaker, `order-service/src/infrastructure/grpc-resilience.ts`) and send events
through an outbox and Redis Streams.

```
 web ── gateway ──► order ──► risk
         (Go)        │  ├───► payment ──► card provider
                     │  ├───► inventory ──► Redis (Lua), MongoDB
                     │  └───► courier
                     └─ outbox ─► Redis Streams ─► payment, realtime, order
```

| Component | State it keeps | Operations | Hard behaviour | Correct when | Status |
|---|---|---|---|---|---|
| inventory: reservations | sale counters, one hash per order, expiry index, user locks (Redis); stock on hand, ledger (MongoDB) | Reserve, Extend, Shorten, Release, Commit, sweep | cancel, payment and sweeper race; two databases; late duplicates; keys that expire | stock is never oversold, moves once, both databases agree in the end | modelled |
| inventory: counters | counters rebuilt from the ledger minus live holds | seed, recovery, availability | Redis lost while calls and another copy's rebuild are under way | a sold SKU is never called unknown | partly |
| inventory: leadership | one Redis key | hold, release | a round outlives the key | two leaders do no harm | partly |
| order: checkout saga | order document with a version | CreateOrder, ConfirmPayment, CancelOrder | one remote call at a time, everything may happen in between; refused writes | status, stock and money agree | modelled |
| order: expiry sweeper | none | read expired orders, close them | races with calls of the user | every checkout ends | partly |
| order: state machine | status, version | transition | several transitions in one write | only the table's paths are taken | modelled |
| order: drafts | draft order, reservation of the user | replace previous draft, release stale locks | two tabs, lost or late Reserve answers | no lock without an order, no draft without a lock | modelled |
| order: outbox | events written with the order | relay, mark | relay dies between publish and mark; two relays | at least once, first copies in order | modelled |
| order: courier dispatch, milestones | courier of the order, retry time | assign, bind, wait, advance | several instances; events before the binding, repeated, reordered | one courier, delivered once | partly |
| payment: payments | one record per order, 3DS challenge | Charge, Confirm3Ds, Refund, cancel | record before provider; two keys of one order; codes tried at once; a call dies in the middle | the money of an order is asked for once; answers stay true | modelled |
| payment: cards | card vault | add, list, delete | single-document writes | | not modelled |
| courier | courier (idle, busy), one route per order | assign, release, route ticker, reconcile | delivery against release; ticker without leadership | one outcome per assignment, no courier busy for ever | partly |
| event-bus | consumer groups, delivery counts, dead stream | read, claim idle, acknowledge, dead-letter | several consumers, poison events, a stream that is trimmed | none vanishes, none stays for ever | partly |
| realtime | newest status per order, rooms | publish, join | events repeat and reorder; death between record and broadcast | the room learns of every status that is done | partly |
| risk | evaluation records | EvaluateRisk | best-effort record | any band may be answered | partly |
| gateway: idempotency | one Redis key per request | claim, complete, release | a slow handler, a lost write, a dead gateway | one key, one order | modelled |
| gateway: sessions, codes, limits, REST | one key each, or none | single atomic commands, mapping | | | not modelled |
| web: checkout page | phase of the early reservation, placement, challenge; repeat keys; the pending order in sessionStorage | reserve early, place, confirm, cancel, resume, leave | answers lost or late; answers that arrive after the user left | no placed order is released, none is left behind, one is paid | partly |
| web: everything else | forms, screens, routing | | | | not modelled |
| catalog, pricing | seeded data | reads, pure calculation | | | not modelled |
| mongo-kit, redis-kit, service-kit | migration lock, circuit state | migrate, call | lock expires under a migration | one migrator | not modelled |
| contracts, core, observability, proto | none | | | | not modelled |

How the parts interact: the page asks the gateway for an order with a repeat
key; the gateway claims the key, and order-service locks the stock of the cart
before it writes the draft. From then on order-service holds the *order
document* and never sees the stock; it holds a lock in inventory for a limited
time, takes the money through payment, commits the lock, and only then writes
`PAID`. Whoever cannot finish gives back what was taken: a second call of the
user, the order sweeper, a refund or cancel command in the outbox, or
inventory's own sweeper. A paid order waits for the dispatcher, which asks the
courier service for a courier and then writes it on the order; from there the
courier service acts alone and reports by events, which the order service
applies to the order. Every write of the order carries its events into the
outbox; a relay brings them to the stream, and consumer groups bring them to
payment (commands), order (milestones) and realtime (what the customer sees).

## 2. Modules

| Module | What it is |
|---|---|
| `StockReservation` | inventory's reservations: Lua scripts, settlement in three steps, ledger, sweeper |
| `StockReservationProofs` | theorems about it |
| `CounterRecovery` | the counters of inventory when Redis has lost them |
| `OrderLifecycle` | abstract specification: status and version of one order |
| `OrderSaga` | the checkout of one order: calls, sweepers, payment, lock, commands |
| `OrderSagaProofs` | theorems about it, and that it implements `OrderLifecycle` |
| `PaymentRecord` | abstract specification: which status of a payment follows which |
| `Payment` | the handlers of payment-service, read by read and write by write |
| `PaymentProofs` | theorems about it, and that it implements `PaymentRecord` |
| `DraftOrders` | CreateDraftOrder of concurrent requests of one user against the user's lock |
| `IdempotencyKey` | the repeat guard of the gateway, whatever handler it protects |
| `CartReserve` | the two composed: POST of a cart through the guard |
| `CartReserveProofs` | theorems about it and its two parts |
| `EventFeed` | abstract specification: what consumers may count on |
| `OutboxRelay` | publishers of the outbox; implements `EventFeed` |
| `OutboxRelayProofs` | theorems about it, the refinement among them |
| `EventGroup` | a consumer group fed by `EventFeed`, with realtime's handler |
| `EventGroupProofs` | theorems about it |
| `CourierDispatch` | the courier of one paid order: dispatchers, claims, routes, tickers, milestones |
| `CourierDispatchProofs` | theorems about it |
| `CheckoutServer` | what the page sees of gateway and orders |
| `CheckoutPage` | the checkout page on top of it |
| `CheckoutPageProofs` | theorems about it |
| `MC…` | one per specification: the sets, symmetries and views TLC uses |

The composition is by layers: `CartReserve` joins guard and drafts in one state
space; `CheckoutPage` extends `CheckoutServer`, the coarse view of what
`CartReserve`, `OrderSaga` and `Payment` detail; `OutboxRelay` and `EventGroup`
meet in `EventFeed`, which the first is proved to implement and the second
takes as its input; `OrderSaga` uses of `Payment` and `StockReservation` what
these show of one order; `CourierDispatch` uses the table of `OrderLifecycle`.

The definitions named "Mutant" in a comment are not used by the specifications.
Each is a plausible mistake in the definition that follows it and shows that
the property which watches for that mistake does fail when it is made.

`PROJECT.json` maps every definition to the lines it stands for.

## 3. Stock

### StockReservation: state and code

| Variable | Where it lives |
|---|---|
| `counter` | Redis, `stock:{market}:{sku}` |
| `hash`, `expiresAt`, `extended`, `hashUntil` | Redis hash `resv:{market}:{order}` and its PEXPIRE; after a settlement the same key holds the *trace* |
| `indexed` | Redis sorted set of expiries; its members do not expire |
| `userLock`, `lockUntil` | Redis key of a user and its PEXPIRE |
| `onHand`, `ledger` | MongoDB |
| `call`, `listed`, `pending` | memory of the calls and sweepers under way |
| `sold`, `returned`, `answers` | history, read by properties only |

| Action | Code |
|---|---|
| `Reserve`, `Extend`, `Shorten` | `reserve.lua`, `extend.lua`, `shorten.lua`: one atomic step each |
| `Release`, `Commit` | first step of the RPC: `release.lua` or `commit.lua`, with all its answers |
| `ListDue`, `Sweep` | a turn of `sweep-expired.ts`: the batch is read, then each order is settled from a list that may be out of date |
| `WriteLedger`, `ForgetSettled` | the next two steps: MongoDB, then DEL of the trace |
| `LookUpLedger` | no trace any more: the answer is taken from the ledger |
| `CallFails`, `Crash` | an error of Redis or MongoDB; the end of a process |
| `Tick` | time, and the keys Redis drops |

Between two steps of a settlement every other call may take any of its own.

Abstractions:

- The lines of an order are fixed (`Qty`), so a repeated Reserve has the lines
  of the first. The second script of a settlement then differs from what was
  read before only if the order was opened or forgotten in between; it answers
  `stale`, writes nothing and is retried, which is no step of its own.
- One clock for Redis and all instances. With it an order that is due, and so on
  a list, is not extended any more; what may happen to it is that it is settled
  and reserved again.
- One market: keys of different markets never meet. Every sku has its counter;
  `CounterRecovery` is about the loss of counters.
- The ledger entries of one order and kind are one element; the best-effort
  entries of kind `extend` (delta 0) are left out.
- `PromptSweeper = TRUE` keeps the clock from passing a hash whose index member
  has not been swept (`Hold` is one minute, `RESERVATION_HOLD_AFTER_EXPIRY_MS`,
  and a turn is one second). `stock_times` asks what happens without it.

Properties. `NoOversell` is the promise of the shop (ADR-01, ADR-03): open
stock, locked stock and stock sold but not yet off the books never exceed the
stock on hand. It needs no assumption and holds with duplicates, lost traces and
slow sweepers. `StockConserved` says the same with equality (nothing leaks); it
needs `PromptSweeper` and one Reserve per order (section 12). `MovesOnce`,
`AnswersAgree`, `LedgerAgrees` and `LedgerBalances` relate Redis, MongoDB and
what callers were told. `OneLivePerUser` is about the user lock when expiries
move. `KeptUntilDue` is what a user is told by a Reserve, an Extend or a
Shorten: until that time no sweep expires the order, whatever a sweeper still
has on its list, and the order is locked for him, or a Release or a Commit moved
it, whichever key runs out and whichever call ends late. Its second half speaks
of orders that were reserved once (section 12). `EveryHoldEnds` is liveness,
with a failure and a crash. It speaks of the hold and not of the ledger: the
expiries a sweeper has settled and not yet booked are in its memory (`pending`),
so a crash between the two leaves an entry missing that only the trace
remembers, for `SETTLED_RESERVATION_TTL_MS` (a day) and until somebody asks.

### CounterRecovery

`counters` and `marker` are what Redis has; `rebuild[i]` is the batch an
instance writes next (`seed-counters.ts`), `call[c]` how far a call of
CheckAvailability or Reserve is. `Read`, `FindMarker`, `MissMarker`,
`ReadAgain`, `TimesOut`, `CallFails` are the steps of `counter-recovery.ts` and
its two callers, `WriteBatch`, `MarkPresent`, `RebuildFails` those of a rebuild,
`RedisLoses` the loss. A counter is its existence, because the levels in MongoDB
do not change here. The commands of one copy share one connection to Redis and
are answered in their order; the case in which they would overtake each other is
left out by giving each copy one call. The module's only property,
`UnknownIsNotSold`, does not hold: section 12.

## 4. Checkout

### State and code

| Variable | Where it lives |
|---|---|
| `order` | MongoDB document of the order: status, version, expiry as remembered, refund mark, method, band |
| `lock` | the reservation of the order in inventory |
| `payment`, `challenged`, `asking` | payment's record, its 3DS challenge, and whether the provider is being asked |
| `commands` | outbox events `payment.cancel_requested`, `payment.refund_requested` not acknowledged yet |
| `run[p]` | call `p`: its next step, why it runs (`goal`), the order as it read it (`seen`), the money it knows of (`charge`), the round of `securePaymentWindow` |

A step is one remote call or one write. The step names follow the code:

| Steps | Code |
|---|---|
| `risk`, `shorten`, `decide` | `risk-step.ts`, `lock-timing.ts` (lockForBand), `checkout-risk.ts` |
| `window`, `recordMoved`, `recordExtended` | `lock-timing.ts` (securePaymentWindow, recordExpiry) |
| `charge`, `charging`, `confirm`, `fail`, `failReread` | `payment-step.ts`, `confirm-payment.ts`, payment's `charge.ts` and `confirm-3ds.ts` |
| `commit`, `markPaid`, `paidReread` | `payment-step.ts`, `lapsed-order.ts` (completeOrRefund) |
| `lapse`, `close`, `closeReread`, `release` | `lapsed-order.ts`, `stockless-close.ts`, `stock-step.ts` |
| `refundNow`, `refund`, `mark`, `markAndCommand`, `append` | `stockless-close.ts`, `refund-step.ts`, `refund-record.ts` |
| `cancelLook`, `cancel` | `cancel-order.ts` |

Every write of the order is guarded by `Fresh`: the version that was read is
still there (`replaceIfVersion`). Status change, refund mark and outbox command
are one MongoDB transaction in the code and one step here.

Failures: `StepFails` (a call or write fails without effect: a step either ends
the call or goes on, as `AfterFailure` lists), lost answers (`Answered`: the
effect is made and the idempotent call is repeated), `ChargeTimesOut` (the
deadline passes while the provider is still asked), `Crash` of an instance,
`PaymentCrash` between the two writes of a charge.

`OrderLifecycle` has the transition table and the version only. `Lifecycle` in
`OrderSaga` instantiates it with the status and version of the document, and
`FollowsLifecycle` says that the saga implements it. One write may take up to
three transitions (`RISK_CHECK` and `RESERVED` are never stored), so the
abstract step does too, with the version telling how many.

Abstractions:

- One order: documents, locks, payments and commands are keyed by the order.
  What orders share is in `StockReservation` (stock) and `DraftOrders` (users);
  the sweeper's batch of several orders is left out.
- Inventory is what `StockReservation` shows of one lock: held until its
  expiry, then free at any moment; a settled lock stays settled. Payment is what
  `Payment` shows of one record, its handlers a step each.
- `recordRefund` repeats its read and write a few times; one step here, its
  exhaustion is `StepFails`.
- The stream redelivers without limit and in any order; `EventGroup` has its
  limit.
- `StartPreparing` stands for the courier dispatcher in one step;
  `CourierDispatch` has its steps and goes on from there.
- Orders saved before reservations existed, unknown saved cards (the call ends
  as in `StepFails`) and the circuit breaker (a call that fails at once) add no
  behaviour.

Properties. `PaidOnlyWithStock`, `FailedOnlyWithoutMoney`,
`ChargedOnlyAfterRisk` and `RefundMarkIsBacked` relate the order document to
inventory, payment and outbox, which the order service can only see one at a
time. `FollowsLifecycle` is about refused and repeated writes. `CheckoutEnds`
and `MoneyComesBack` are liveness.

## 5. Money

`PaymentRecord` is what others may count on: a record is started once, money is
taken on the way to `SUCCEEDED` and given back on the way to `REFUNDED`, and
what was closed without money is never paid. `Payment` has the handlers.

| Variable | Where it lives |
|---|---|
| `payment` | MongoDB, one document per order (unique by order and by repeat key): status, method, key, attempts, version, reason |
| `due` | the orders whose challenge's `expiresAt` has passed |
| `call[c]` | a gRPC call or a delivered command: its operation, its step, the document it read, its attempt |
| `orphans`, `asked`, `wrong`, `told`, `deaths` | history and bound |

| Actions | Code |
|---|---|
| `StartCharge`, `FindReplay`, `FindByOrder`, `NoSuchCard`, `Insert`, `InsertAnswerLost`, `FindWinner`, `Authorize`, `Settle` | `charge.ts`, `charge-card.ts`: replay by key, record of the order, the card, the PENDING record before the provider is asked, the winner after a duplicate key, the result |
| `StartConfirm`, `Load`, `Verify`, `ConfirmWrite`, `RunOut` | `confirm-3ds.ts`, `three-ds.ts`: status and clock before the provider, both and the attempts again after it, a version-checked write with retries |
| `StartRefund`, `RefundLoad`, `RefundWrite`, `RefundReread` | `refund.ts` |
| `StartCancel`, `CancelLoad`, `CancelWrite` | `cancel-payment.ts` with its retries |
| `Dies` | the end of a process, an error of the database |

The provider is external: it may accept, refuse, ask for a challenge, or not
answer (`failUnreachableProvider`). Amount, currency and user of a charge are
part of its method, which is what `isSameCharge` compares.

Properties. `AskedOnce`: two charges of one order, with one key or two, take
its money once. `AttemptsCount`: codes tried at the same time are all counted.
`AnswersStand`: what a caller was told is not contradicted later.
`PendingIsOwned`: a card payment without a result has exactly one call that
brings it, unless that call died. `FollowsRecord` is the refinement.
`ChargeIsSettled` is liveness, and says where it ends: a record whose call died
stays `PENDING`, and no job settles it.

## 6. Opening an order

### DraftOrders

`lock` is the one lock inventory allows a user, with its age; `ended`,
`expired` and `late` are what inventory remembers of other orders and of a
Reserve that is still on its way; `status` is the order's record; `call[r]` the
step of a request in `create-draft-order.ts` and `draft-reservation.ts`.

| Actions | Code |
|---|---|
| `Reserves`, `FindsTooLittle`, `FindsLock`, `LosesReserve`, `ReservesLate` | Reserve and its answers; one whose answer is lost may still arrive |
| `Releases` | `releaseUncertainLock`, with its failure |
| `Look`, `Again`, `FreesOrphan`, `FreesFirst` | `freePreviousLock`: the order of the lock in the way, and an old lock without an order |
| `Cancels`, `CancelFails`, `Frees` | `replacePreviousDraft` |
| `Insert`, `InsertFails`, `BreaksOff` | the draft's record, and what is given back when it cannot be written |
| `Place`, `Pay`, `Close`, `LetsGo` | what the checkout does with the draft meanwhile |

`Ages` keeps a lock young while the request that took it may still write its
draft: `ORPHAN_LOCK_MIN_AGE_SECONDS` is 30 s, a request about 5 s. The branch of
`freePreviousLock` for an order of another user cannot be reached, as the lock
is per user.

### IdempotencyKey

`record[k]` is the Redis key of a repeat key (free, claimed by a request, or an
answer), `http[r]` where the gateway is with a request, `answer[r]` what its
client has. `Claim`, `Repeats`, `HandlerEnds`, `Finish` and their failures are
`idempotency.go` and `idempotency/redis.go` with the script that checks the
owner. `ClaimExpires` needs that no handler works under the key: the claim lives
30 s, the handler's budget is 25 s. SET NX and the GET after it are one step.
The lifetime of a stored answer (2 h or 24 h), the register policy (which stores
no answer) and bodies that are too large are left out.

### CartReserve

One request of the gateway is one request of order-service. `TimesOut` lets the
gateway give up while order-service goes on with the request, so that a key may
be free and its first handler still at work. `MaxMishaps` bounds the failures of
both parts together.

Properties. `LockFitsDraft`: a draft that is not about to be closed has its
stock, and a lock belongs to an order, to the request that is opening one, or to
a Release that failed. `ToldHoldsStock`: the order of a 201, given or replayed,
has its stock until the checkout, another cart of the user or its time ends it.
`OneOrderPerKey`: two requests with one key never have the orders of two
handlers, unless Redis lost the write of an answer.

## 7. Events

`EventFeed` is what consumers may count on: the first copy of an event comes
after a copy of every event of an earlier version of its order; copies may
follow at any time.

`OutboxRelay` has the outbox in the order in which it is published, the marks
(`publishedAt`), and one round per publisher: `ReadPending` reads the oldest
unmarked events, `Publish` adds one to the stream, `PublishFails` stops the
round (whether or not the entry was added), `MarkPublished` marks what was sent,
`RelayDies` loses the round. `Write` stands for the transactions of the order
service. Clocks of several copies that differ by more than the time between two
writes of an order could reorder the outbox; this is left out. `FollowsFeed`
says that this is such a feed, with any number of publishers that overlap;
`EveryEventIsSent` that nothing is forgotten.

`EventGroup` takes `EventFeed` as its input and is one consumer group with
several copies of a service.

| Variable | Where it lives |
|---|---|
| `stream`, `gone` | the Redis stream and how much of it was trimmed (MAXLEN ~) |
| `position`, `pending` | the group: last delivered entry, and per entry its delivery count and idle time |
| `turn[c]` | a worker: stale entries it listed, then a batch of new ones |
| `dead` | the dead-letter stream |
| `newest`, `shown` | realtime: the record of the newest version, and what the room has been sent |
| `handled`, `calls`, `broken`, `thrown` | history and bounds |

| Actions | Code |
|---|---|
| `StalePending`, `Claim` | `reclaimStale`: the list with its delivery counts, then XCLAIM one by one; a trimmed entry is taken off |
| `ReadNew`, `ReadNothing`, `AckSkipped` | `settleBatch`; topics without a handler are acknowledged together |
| `Skip`, `GiveUp`, `Reject`, `Throws`, `Ack` | `dispatch.ts`: no handler, used up, invalid body, an error, done |
| `Record`, `Emit` | `publish-order-status.ts` with `redis-seq-store.ts` and `seq.ts` |
| `TurnBreaks` | an error of Redis, or the end of the copy |

Properties. `NoneVanishes`: an entry the group has passed is pending, handled or
dead, or was trimmed. `TriesAreUsed`: an event is given up for its own failures.
`HandledIsShown`: a status that is done was shown, or a newer one was or will
be. `NothingStaysPending` is liveness. Two details the model shows and the
properties allow: the first delivery of a long batch counts as a try although
the handler was not reached, and a claim from an old list can give one call more
than `maxDeliveries` (`delivery-settings.ts:34` says at most). A copy may
broadcast an older status after another copy broadcast a newer one; the client
drops it by its `seq`. A pending entry that is trimmed is dropped without a
dead letter. A group that starts at the end of the stream, a group whose key
was deleted (NOGROUP) and the lifetime of the record of the newest version are
left out.

## 8. Delivery

### State and code

| Variable | Where it lives |
|---|---|
| `order` | status, courier and version of the document in order-service |
| `courier`, `assignedAt` | `couriers` of courier-service: status, `currentOrderId`, `lastAssignedAt` |
| `route` | `routes`: one document per order with its courier, `createdAt`, state, pick-up and delivery; `stage` is where `routeProgress` puts the courier by now |
| `events` | `courier.picked_up`, `courier.delivered` in the stream |
| `run[d]` | one order's part of a turn of `dispatch-couriers.ts`, and the calls to courier-service it makes |
| `tick[t]` | one route's part of a turn of `advance-routes.ts` |
| `now` | grows with every stored stamp; a stamp lies between the read of the clock and the write |
| `trip`, `outcomes` | history, read by properties only |

| Actions | Code |
|---|---|
| `ReadQueue`, `OthersFoundNone`, `Wait` | `dispatch-couriers.ts`, `waitForCourier` |
| `Ask`, `Claim`, `Winner` | `assign-courier.ts`: the carrier, a claim, the winner of a race |
| `FindRoute`, `InsertRoute`, `ReplaceRoute` | `assignment-route.ts` |
| `Bind`, `Reread` | `bindCourier` with its write attempts |
| `Release`, `Decide`, `EndRoute`, `EndReread`, `Free` | `release-courier.ts` |
| `ListMoving`, `ReadCouriers`, `Advance`, `Drop` | the turn up to one route |
| `Pick`, `Tell`, `Mark`, `Record`, `Confirm`, `FreeCarrier`, `Publish`, `Done` | `advance-route.ts`, one database write or publish each |
| `ListCarrying`, `ReadRoutes`, `FreeStuck` | `reconcile-carriers.ts` |
| `RecordMilestone` | `record-courier-milestone.ts`, `courier-milestone.ts` |
| `DispatchFails`, `TickFails` | an error of any call; the end of the instance |

A write of a route goes through the filter of `routes-collection.ts`
(`Current`, `Endable`), a write of a courier through that of
`couriers-collection.ts` (`Claim`, `Freed`), a write of the order through the
version (`Fresh`). Everything else may happen between two steps, so what a step
has read may be old.

Abstractions:

- One order of one market. Other orders are couriers that are away and come
  back. The queue's order among several orders, the back-off and the turn's
  budget only delay or skip steps.
- Positions, the choice among idle couriers, live locations and tracking are
  left out; a market without a known position is as one without couriers.
- A turn uses one reading of the clock: `Advance` takes the stage once.
- The leader lock is left out and several tickers may run at any time. The grace
  of the reconciliation is left out as well: it may free at once.
- `PromptCalls = TRUE` keeps a courier from getting further on its route while
  a call *inside courier-service* is under way: such a call takes a few database
  operations, a trip minutes. The turn of a dispatcher is not bounded so: it
  works through up to 100 orders it has read at its start.
- Events are delivered without limit and in any order. One for another courier
  than the order's is never applied, which is the same as dropping it because
  the courier of an order stays.

Properties. `OneOutcome` is what `release-courier.ts` promises about the race of
delivery and release, per trip and not per order, since an order may see several
trips. `PickupIsToldFirst` concerns turns that stop and are taken up by others.
`BoundCourierComes` relates the order to the other service's documents: the
courier an order waits for is on its way, or its delivery is recorded or told.
`FollowsTable` is about writers that do not know each other; it uses the table
of `OrderLifecycle`. `PaidIsDelivered` and `CouriersComeFree` are liveness.

## 9. The page

`CheckoutServer` is what a browser can tell of gateway and orders: the status of
an order (`charging`: a placement works on it; `unsure`: its charge may be
taken), whether its time is over (`lapsed`), the repeat keys (`record`), and the
placement a key stands for (`charge`). A request is one step, except a
placement, which begins, and is decided, lost or cut off by the gateway later.
While it is under way the order can be closed under it: a new reservation
replaces the draft that is still at its risk step (`AtRisk`), a release cancels
an order no payment is known of (`Releases`), its time ends (`Lapses`); the
placement finds out when it writes next (`Outcomes`).

`CheckoutPage` is one tab of one user. An action is what the page does between
two awaits.

| Variable | Where it lives |
|---|---|
| `cart` | the cart of the browser, as the body of a reservation |
| `pending` | sessionStorage: the order whose challenge a reload takes up |
| `page` | the component: its state (`useOrderFlow.ts`), the phase of the early reservation (`reservation-plan.ts`), the keys of the reservation intent and of the payment attempt |
| `task[j]` | the asynchronous function under way: early reservation, placement, code, resumption |
| `page.stale` | early runs that `inFlight` does not name any more |
| `left`, `loose` | the functions of pages the user has left; requests nobody waits for |
| `asked`, `denied`, `owed`, `plain` | history, read by properties only: orders placed and not refused so far; orders refused for good though their placement was under way, waited for a code or was accepted; drafts the page was told of and neither placed nor released; the user only pressed the button and entered codes |
| `crossed`, `events` | bounds |

| Actions | Code |
|---|---|
| `StartEarly`, `HearEarly` (with `RunAsks`, `RunEnds`), `RetryEarly`, `Orphan` | `useEarlyReservation.ts`, `reservation-plan.ts` |
| `Press`, `Take`, `HearReserve`, `HearPlaced`, `HearRefusal`, `HearFailure`, `HearChallenge` | `useOrderFlow.ts` (place), `reservation-keeper.ts`, `held-order.ts`, `place-order.ts` |
| `Submit`, `HearCode`, `Cancel`, `HearAbandon` | `useOrderFlow.ts` (submit, cancel, abandon), `place-order.ts` (submitCode, releaseSafely) |
| `Open`, `HearResume`, `RetryResume` | `useThreeDsResume.ts`, `resume-three-ds.ts` |
| `Leave`, `Reload`, `HearLeft` | unmount, the end of the document, and functions that go on after the unmount |
| `Serve`, `Lose`, `ServerFails`, `ServerDecides`, `TimePasses`, `Change` | requests on their way, servers, clock and user |

Abstractions:

- Two steps of the page may cross another of its own: a cancellation meets a
  code that is being checked, and an early run starts while the release of the
  one before is still not answered (it takes longer than `SETTLE_MS`, 400 ms).
  `MaxCrossed` bounds them, and `crossed` counts them. What they lead to is in
  section 12.
- One press at a time, and the user does not leave while a press waits for an
  early run.
- The page's clock may lag behind the server's (`Over`), never lead.
- The retries of the resume reading are one; the lookup of a release happens
  only after REQUEST_IN_PROGRESS; the gateway's records do not run out.
- The wait after a 429, a body that cannot be built, a package without the
  fallback to another card, and two tabs are left out.
- `MCCheckoutPage` gives TLC a VIEW which leaves out what no later step reads:
  records of keys nothing refers to, the fields of an order that is not being
  placed, the cart of an intent that has no key. The properties read none of
  them.

Properties. `KeepsPlaced` is the rule of `reservation-keeper.ts:10-14`: whatever
the user does and whichever answers are late, the cleaning up of the page
releases no order that is being placed, may have been placed, waits for its code
or was accepted. The code has one exception, and the property names it. When the
page is told for good that such an order is refused, it releases it all the
same; the order goes from `asked` to `denied` in that step. The property says
that nothing else is released, and that the exception never happens in a
`plain` history, to a user who only presses the button and enters codes, in
time, whose placement the gateway does not give up. A challenge that is given up
is the one release meant for such an order and is not counted.

`NothingLeftBehind`: when everything has come to its end, no draft the page was
told of keeps stock locked for the rest of its time. A reload is no such end: it
releases nothing, and the draft the page held then is exempt. Both properties
hold until a step crosses another (`crossed = 0`).

`OnePaidOrder`: the cart is bought once although the answer of a reservation, a
placement, a release or of payment-service to a charge is lost or late. It
speaks of `plain` histories, and so of losses other than two: the answer to a
code, and a placement the gateway gave up while order-service went on. With
these it does not hold (section 12).

## 10. What the runs show

All runs end within two to three minutes with two workers.

| Run | Instance | Question |
|---|---|---|
| `stock_race` | 2 orders of 2 users, 2 skus, stock for one of two; 2 calls, 1 sweeper; 1 failure, 1 crash; every Reserve once; fair | do Redis, MongoDB and the answers agree whatever the interleaving; does every hold end? |
| `stock_times` | 2 orders of one user, 1 sku; 1 call, 2 sweepers of batch 1; traces that run out after one tick, every Reserve twice, an extension; slow sweepers | is anything oversold, is a lock doubled, is a live hold swept? |
| `saga_failures` | 2 calls, 1 sweeper, clock to 4; 1 failure, 1 crash | do status, stock and money agree with lost answers, deadlines and deaths; is the lifecycle followed? |
| `saga_liveness` | 2 calls, 1 sweeper, fair, no failures | does every checkout end, does the money of a cancelled order come back? |
| `payments` | 2 callers, 2 orders, 2 keys; charges by card and cash, two keys for one order, one key for two orders; 2 codes, 1 retry, 1 death; fair | is the money asked for once, do answers stand, is the record followed, is every charge settled? |
| `cart` | 3 requests: a cart and its repetition, and a second tab with another cart, by its own key or by the same one; 1 failure | do locks fit drafts, is a 201 worth its word, is a key good for one order? |
| `relay` | 1 order with three writes and four events, 2 publishers of batch 2, 2 failures; fair | is the stream a feed, is every event sent? |
| `group` | 1 order with three versions, 2 copies of batch 2, 2 deliveries, a stream of length 2, 1 failure; fair | does an entry vanish or stay for ever, is it given up for its own failures, is what is done shown? |
| `courier_race` | 2 couriers, 2 dispatchers, 2 tickers | one outcome per trip, events in order, one courier that comes? |
| `courier_liveness` | 2 couriers, 1 dispatcher, 1 ticker, fair; 2 failures of the dispatcher, 1 of the ticker | is the order delivered, do couriers come free, wherever a turn ends? |
| `page` | 2 carts, 2 orders, 7 keys; two of a second visit, a change, a trouble, a late clock | is a placed order kept unless it was refused, is a draft left behind, is a cart bought twice? |
| `counter_loss` | 2 copies with one call each, 2 skus in two batches, 1 loss | a violation: section 12 |

Every passing run holds; `counter_loss` ends in a counterexample.

### Bounds

*Stock.* Two orders are the least that compete for stock or for a user lock;
two skus are needed to see a script check all lines before it writes. The
quantities are unequal so that one order leaves room for the other's lines on
one sku and not on the other. A call and a sweeper, or two calls, are what it
takes for two settlements of one order to interleave: a third finds the same
trace and takes the same steps. `MaxReserves = 2` lets a duplicate come after the
settlement. Time 2 or 3 covers reserve, expiry, hold and the end of a trace.
`OneLivePerUser` needs an expiry that moves, hence one extension in
`stock_times`: without the lock's PEXPIRE moving along, the lock would end first.
The extension is longer than `Hold`, as inventory allows
(`RESERVATION_EXTEND_MAX_SECONDS`, 300 s, against 60 s), so that without the
PEXPIRE of the hash that would end first too (`KeptUntilDue`).
There the stock is 3, so that both orders fit and only the user lock keeps them
apart, and Reserve is called up to time 1, so that an order can be opened, lapse,
and be opened again within the clock.

*Saga.* `Ttl = ExtendBy = 2`, one extension and clock 4 let the lock be
extended, expire during the payment, and be given back. Two calls and a sweeper
are every pair of roles (two payments, payment and cancellation, payment and
confirmation, each against the sweeper). One failure and one crash can hit any
step; the theorems of section 11 cover any number of calls and failures.

*Payments.* Two callers are a race of any two operations on one record. The four
charges are a repetition with another key, with another method, and with a key
that another order has. Two attempts are the first at which an attempt can be
the last or not; a retry is the first at which a write is made after a refused
one. The theorems cover any number of all of these.

*Cart.* The three requests are the three roles: the one that opens an order, the
one that repeats it, and the one whose cart takes its place. Failures and
troubles are one together: it can hit any call of either part.

*Events.* Two publishers overlap in every way one round can overlap with
another; batch 2 of four events makes a round end, stop and be read again in the
middle of an order. `MaxEntries = 14` is more than two publishers with two
failures can add, so that it cuts nothing off. The group's stream of length 2 is
shorter than the events, so that pending entries are trimmed; two deliveries are
the first at which a delivery can be the last or not.

*Page.* Two orders are the one that is placed and the one that must not be
opened beside it. Seven keys are more than the functions and pages of two visits
hold at a time. A second visit, a change of cart or payment, a trouble and a
late clock are one each, any two of them in one behaviour: each pair of
disturbances is seen, three in a row are not. A lost answer and a changed
payment are such a pair, so that a repeated placement is refused and its order
released (`denied`). `MaxCrossed = 0` keeps a cancellation from meeting a code
on its way, and early runs from overlapping (section 12).

*Courier.* Two dispatchers make the race for a claim, for the route and for the
binding, and the second can hold an old read of the order while the first
finishes its turn and the courier its trip. Two tickers are two leaders. Two
couriers are the assigned one and the one a late call may claim. In
`courier_race` nothing fails, but a step need not ever be taken, so a safety
property sees a call that stops for good. In `courier_liveness` the
dispatcher may fail at any two steps of its turns and the ticker at any one;
what two failures of the ticker lead to is in section 12. With two dispatchers a
claim may be left behind without route and without order (section 12), so this
run has one. `WriteAttempts` is the constant of the code, 3. The theorems add
the failures that `courier_race` leaves out, and any number of couriers and tickers.

*Deadlock* is checked in `stock_race`, `stock_times` and `payments`, where a
sweeper or a caller can always begin again. The others stop when every request
is answered and every bound is reached, as the real system is then idle.

*Symmetry* is used only in runs without liveness.

### Fairness

`StockReservation`: time passes, a sweeping instance goes on with its turn
(`setTimeout` is chained after every turn, failed ones included,
`reservation-sweeper.ts`), and a call that was accepted completes its
settlement. A turn that lists is weakly fair, Reserve, Release, Commit, Extend
and Shorten are not fair at all: users may do nothing. Failures are bounded:
MongoDB does not fail for ever.

`OrderSaga`: accepted calls take their next step, the order sweeper runs on its
chained timer, the provider answers, inventory's sweeper frees expired locks
(which is `EveryHoldEnds`), and a command is handled and acknowledged in the
end, because the consumer group keeps it pending until then
(`NothingStaysPending`). Users need not call, and couriers need not be found.
Each action is weakly fair by itself; no strong fairness is needed.

`Payment`: a call under way goes on. Nobody need confirm, refund or cancel.

`OutboxRelay`: the publisher is a chain of timers, a round follows a round.
Writes of the order service need not happen. Failures are bounded.

`EventGroup`: the events arrive (`EveryEventIsSent`), each copy's loop goes on
(`group-worker.ts` recovers from an error and reads again), and an entry nobody
acknowledges becomes stale, because its idle time grows.

`CourierDispatch`: turns of dispatcher and ticker are chained timers that go on
after an error (`courier-dispatcher.ts`, `route-ticker.ts`), so each process is
weakly fair as a whole; every turn of a ticker comes to the routes, whether it
reconciles first or not. The courier travels, because its position is computed
from the time. Events stay pending until they are acknowledged. Other orders
give their couriers back.

`CartReserve`, `CheckoutPage` and `CounterRecovery` have no liveness: users and
browsers may stop at any time.

## 11. What is proved

TLAPS checks every theorem for any sets of orders, users, skus, keys, calls,
publishers, copies, couriers and sweepers, any quantities, times and bounds. The
assumptions are the named ones of the modules: types of the parameters, callers
and sweepers disjoint, durations and batches positive where the code requires it
(`ParameterAssumption`, `RelayAssumption`, `TopicsAssumption`,
`PaymentAssumption`, `GroupAssumption`, `CourierAssumption`, ...), and finite
sets where cardinalities are taken (`OrderFinite`, `ConsumersAssumption`). TLC
evaluates all of them. Four theorems about stock, two about couriers, and those
about the page, ask for more; their rows say what, and the text below why.

| Theorem | States | Argument |
|---|---|---|
| *StockReservationProofs* | | |
| `TypeCorrect` | `TypeOK` | inductive, by groups of variables |
| `NeverOversold` | `NoOversell` | inductive with `TypeOK` and `CommitsAreSold` |
| `LedgerAlwaysBalances` | `LedgerBalances` | inductive with `TypeOK` |
| `OneLiveReservation` | `OneLivePerUser` | from `LockGuards` |
| `StockMovesOnce` | `MovesOnce` if no Reserve comes twice | from `OncePerOrder` |
| `LedgerAgreesWithRedis` | `LedgerAgrees` if no Reserve comes twice and `TracesOutliveCalls` | from `StoryInv` |
| `AnswersNeverContradict` | `AnswersAgree`, under the same two | from `StoryInv` |
| `TimeIsKept` | `KeptUntilDue` | from `Kept` (hash, index and trace of an order reserved once) and `SweptLate` |
| `NothingLeaks` | `StockConserved` if no Reserve comes twice and `PromptSweeper` | inductive with `VerdictInv` |
| *OrderSagaProofs* | | |
| `SagaTypeCorrect` | `TypeOK` | from `IInv` |
| `PaidHasStock` | `PaidOnlyWithStock` | from `IInv` |
| `FailedHasNoMoney` | `FailedOnlyWithoutMoney` | from `IInv` |
| `RiskComesFirst` | `ChargedOnlyAfterRisk` | from `IInv` |
| `MarkIsBacked` | `RefundMarkIsBacked` | from `IInv` |
| `StaysClosed` | `ClosedForGood` | every write is a path of the table |
| `SagaFollowsLifecycle` | `FollowsLifecycle` | initial state and every step map to the abstract ones |
| *PaymentProofs* | | |
| `TypeCorrect` | `TypeOK` | from `IInv` |
| `ChargedOnce` | `AskedOnce` | from `IInv` |
| `EveryAttemptCounts` | `AttemptsCount` | from `IInv` |
| `AnswersStayTrue` | `AnswersStand` | from `IInv` |
| `PendingHasOwner` | `PendingIsOwned` | from `IInv` |
| `PaymentFollowsRecord` | `FollowsRecord` | every step maps to a transition of the record or a stutter |
| *CartReserveProofs* | | |
| `Typed` | `TypeOK` | from `IInv` |
| `LockFitsItsDraft` | `LockFitsDraft` | from `IInv` |
| `KeyGivesOneOrder` | `OneOrderPerKey` | from `IInv` |
| `ToldOrderHoldsStock` | `ToldHoldsStock` | from `IInv`, across both parts |
| *OutboxRelayProofs* | | |
| `RelayTypeCorrect` | `TypeOK` | from `IInv` |
| `MarkedIsSent` | `MarkedWasSent` | from `IInv` |
| `RelayFollowsFeed` | `FollowsFeed` | only `Publish` and `PublishFails` add an event, whose predecessors are in the stream |
| *EventGroupProofs* | | |
| `GroupTypeCorrect` | `TypeOK` | from `IInv` |
| `NoEntryVanishes` | `NoneVanishes` | from `IInv` |
| `HandledReachesTheRoom` | `HandledIsShown` | from `IInv` |
| `GivenUpForItsFailures` | `TriesAreUsed` | from `IInv` |
| *CourierDispatchProofs* | | |
| `CourierTypeCorrect` | `TypeOK` | from `IInv` |
| `PickupIsNeverSkipped` | `PickupIsToldFirst` | from `IInv` |
| `OrderFollowsTable` | `FollowsTable` | every write of the order, under `IInv`, is a path of the table |
| `BoundCourierIsComing` | `BoundCourierComes` as long as no turn of a ticker has broken off | `ClaimsInv`, inductive with `IInv` |
| `TripHasOneOutcome` | `OneOutcome` if `PromptCalls` and `AtMostTwoDispatch` | `TripsInv`, inductive with `IInv` |
| *CheckoutPageProofs* | | |
| `PageTypeCorrect` | `TypeOK` until a step crosses another | from `LInv` |
| `LeavingReleases` | `NothingLeftBehind` | from `LInv` |
| `PlacedIsNotReleased` | `KeepsPlaced` | from `LInv` and `KInv`, its part on plain histories from `PInv` |
| `CartIsBoughtOnce` | `OnePaidOrder` | from all three: `LInv`, `KInv` and `PInv` |

Every `IInv` (and `VerdictInv`, `StoryInv`, `LInv`, `KInv`, `PInv`, `ClaimsInv`,
`TripsInv`) was checked by TLC on an instance of its component before it was
proved: `PInv` with three orders and one trouble, since every other event ends a
`plain` history or needs one that has ended; `TripsInv` on the instance of
`courier_race`; `ClaimsInv` there and with a third dispatcher.

### Stock

`NoOversell` speaks of the number of units in sets of orders. `Total(S, s)` is
the cardinality of the set of units, so that adding an order of quantity `q` to
a set adds exactly `q` (`TotalAdd`) and a subset never has more
(`TotalMonotone`). Each action then changes the sum in one of a few ways:
`SumAfterReserve`, `SumAfterReturn`, `SumAfterTake`, `SumAfterBooking`,
`SumWithFewerHolds`, `SumUntouched`. The step that lowers the stock on hand is
the one that needs more than the invariant itself: it must only be taken for an
order that was sold, which is `CommitsAreSold` (a commit entry, and a call about
to write one, belong to an order whose stock was taken).

The user lock: `LockGuards` says that a reservation which is not due has the
lock of its user, and that the lock lives as long as the reservation. Two live
reservations of one user would both have the one lock.

`StockMovesOnce` needs the assumption that an order is reserved once; with late
duplicates an order whose trace is gone may be reserved, sold and returned
again. That is the documented limit of the traces (`SETTLED_RESERVATION_TTL_MS`)
and not a mistake of the model.

The other three of that kind rest on one invariant. `VerdictInv` says that one
verdict is reached per order: the trace, the calls that work on it and the
ledger all say the same (`OneVerdict`), and a call has an order that was
reserved, with the operation that suits its verdict (`CallsInOrder`). With it
`NothingLeaks` follows as equality from the sums that `NoOversell` uses, and
`PromptSweeper` is what makes it true: a hash that Redis drops before the
sweeper came takes its units with it. `StoryInv` adds that no settlement is
forgotten before it is booked (`NothingForgotten`) and that every answer given
so far is right (`AnswersHold`). The first is where `TracesOutliveCalls` comes
in: *when time passes, no trace runs out that no call has completed yet*. It
is a formula about behaviours and not a guard of the model, because the model
lets traces run out at any time; the code counts on a trace that lives a day
(`SETTLED_RESERVATION_TTL_MS`) against calls of seconds. The run `stock_race`
has it by a trace that outlives the run.

### Cart

`CartReserve` composes two services, and its invariant has three parts.
`DraftInv` is order-service alone: how far a request is decides what its order,
its lock and its reservation may be (`RecordInv`, `StockInv`: inventory meets an
order once, a lock that is old belongs to a request past its write), and what a
request has read of the lock in its way stays true of it (`ReadInv`), so the draft
it cancels or the lock it frees is not that of a request still at work.
`KeyInv` is the gateway alone: a key is claimed as long as its handler works, and
an order that was given out is the one that is stored; `KeyGivesOneOrder` follows
since two answers equal one record. `AnswerInv` joins them: an order named in an
answer, given out or stored, was opened. `ToldHoldsStock` needs it because the
order a caller is told of may have been opened by a request which the gateway
gave up long ago.

### Saga

None of the saga's invariants is inductive: whether a write may be made depends
on what the call that makes it has read and done. `IInv` adds for each call what
its step implies (`Fits`): the status it has read (`ReadStatus`), that an
unchanged version means an unchanged status and method (`ReadOrder`), what the
payment must be by now (`ReadPayment`), that the stock is sold before `markPaid`
(`SoldFirst`), and the rounds of the payment window (`RoundsLeft`).

The argument has two halves. `Onward` collects how the world may change: versions
grow, a waiting order never goes back before its payment, money that was taken
can only be given back, a refused payment stays refused, a sold lock stays sold.
`FitsOnward` shows that such a change takes nothing from what another call
knows, so no lemma about an action has to look at the other calls. For the call
that moves there is one lemma per action (`ShortenKeeps`, `WindowKeeps`, ...),
and `Keeps` puts them together.

For the refinement, `StatusMoves` lists which status may follow which in one
step, with the growth of the version, and `MovesAreTransitions` finds each of
them as a path of `ORDER_TRANSITIONS`.

### Payment

`IInv` is `TypeOK`, what a record says of itself (`RecordInv`: which status has
which version, method, attempts and count of wrong codes, and how often the
provider was asked), what a step implies of the document a call has read and of
the record now (`CallInv`), `PendingIsOwned` and `AnswersStand`. The two
facts that carry it: the insert is the only write without a version, and it is
made by one call because the order is unique, so the call that goes on to the
provider is the only one; every other write of a document read at version `n`
is made only if the record is still at `n`, so what was decided about the
document holds of the record.

### Outbox

The property is about order, and its reason is that a round is a *prefix* of
what is unmarked: `RoundInv` says of each publisher that every event before one
it has read is marked, or in the same round, and that what it has sent is in the
stream. With `MarkedWasSent` (a mark only follows a publication) the event it
publishes next has all its predecessors in the stream, sent by this publisher or
by another. `FewerBelow` and `FirstsAscend` are the lemmas about the batch: a
member of a finite set is among the first ones only if the smaller ones are.

### Consumer group

Three arguments share one invariant.

*Nothing vanishes.* An entry leaves the pending list only by an acknowledgement,
and `TurnInv` says of each copy that what it is about to acknowledge is handled,
buried, or of a topic nobody hears.

*The room is shown.* A handler that finds a newer version recorded shows nothing
and is done. `NewestInv` says that a recorded version was brought by an entry of
the stream that the group hears of; either that entry is still pending, dead or
trimmed, or it is handled, and then it showed itself or has an excuse that is
newer still. `ShownInv` is the promise with such excuses only.

*Tries are used.* `CountsInv`: a count of deliveries, in the pending list or in
the hands of a copy, is no larger than the calls of the handler, the turns that
broke off, and the copies that still owe a call. None of these becomes smaller
without another one becoming larger (`CountsKept`): a copy that calls the handler
owes no more, and a copy that breaks off counts as one turn, whatever it held.

### Couriers

*Reads and the version.* A dispatcher writes the order it has read a turn ago.
`RunInv` says that what it has read needed a courier, is not newer than the
order, and is the order itself as long as the version is the same; a write of
the order raises the version above everything that was read. So `Bind` and
`Wait` write `PREPARING` over an order that needs a courier, and a milestone
takes one or two transitions.

*Copies of the route.* A ticker works on a copy that may belong to a route which
was replaced twice. `TurnInv` says that whatever the copy is of, when it says
that the pick-up was told then the pick-up of the courier *it names* is in the
stream, and that the steps towards the delivery are only taken with such a copy.
The patch checks the identity of the route, so `Mark` writes it on the route it
was told for. `NextWorkNeedsTelling` is the order of the work in `advance-route.ts`.

*Who was claimed delivers.* `BoundCourierComes` is about the courier on the order
and says nothing of the others, so it is not inductive: any dispatcher may write
the courier it holds. `ClaimsInv` says it of every courier that was ever claimed:
it carries the order, or its delivery is told or about to be (`Heard`), or the
order is over (`Settled`); and every courier that a dispatcher, a route or a copy
names was claimed (`RunClaimed`, `RouteClaimed`, `TurnClaimed`). A courier stops
carrying in three places only: a release, whose order is over; the reconciliation,
which has read a route that is ended or done (`RouteClaimed`: its courier is
settled); and a ticker between the record of the delivery and its event. If that ticker breaks off here, nothing is left that says so. The
theorem therefore holds until a ticker's turn breaks off (`failures.tick = 0`),
with any failures of dispatchers. Section 12 has what comes after it.

*One outcome.* The proof follows the trip that is under way, the claim of the
courier that carries (`Ours`), through six facts (`TripsInv`).

1. `AloneInv`: once a courier is written on the order, one dispatcher at the most
   is underway: of two that asked, the one that wrote it is done. This is where
   `AtMostTwoDispatch` is used. With three, two late ones are left over.
2. `PoolInv`, `NamesInv`: one courier carries at a time, every claim and every
   route has a time of its own, and a route, a copy of one or a plan carries the
   names of the claim it was made for.
3. `StageInv`: a route that has left the market is older than any plan a
   dispatcher still has to store, and never turns back into one that has not.
   This is where `PromptCalls` is used: no courier leaves while a call that
   stores a route is under way.
4. `TripInv`: hence nobody replaces the route of the trip once it has left
   (`Stays`), and every copy of the trip that has left names the route as it
   stands (`OnTheTrip`). A ticker frees the courier with a copy whose delivery is
   recorded, and when it publishes, the trip is no longer under way.
5. `ReleaseInv`: who is about to give the courier back has ended the route, or
   found no route of the trip: the trip is `Spent`, no ticker records or frees it
   any more.
6. `OutcomeInv`: a delivered trip is carried by nobody, so no release counts for
   it; a released one is spent, so no ticker publishes it.

Facts 2 to 4 do without the bound on the dispatchers (`PoolKept`, `NamesKept`,
`StageKept`, `TripKept`); 5 and 6 rest on all the others. The theorem is for any
number of couriers and tickers and any failures.

### Page

The theorems hold for any number of orders, repeat keys and carts and any
`MaxEvents` and `MaxCrossed`; a second visit, a change, a trouble and a late
clock are once each in a behaviour, as the model has it, but all four may come
together. The invariants hold as long as `crossed = 0`: a challenge that is
cancelled while its code is being checked, and early runs that overlap, break
`NothingLeftBehind` and `KeepsPlaced` in the code (section 12), so the two
properties say `crossed = 0`, and `FirstInv` and `PageInv` carry the condition
from step to step. `OnePaidOrder` needs none: a user who only presses the button
and enters codes cancels nothing, and never starts a second early run
(`PlainCrossesNothing`).

*`LInv`: who forgets a draft.* `Layout` says which functions of the page are
under way together and what the phase of the reservation is meanwhile: an early
run that reserves has the phase `reserving`, a placement has `placing`, a
challenge being given up has no held phase it could overwrite. `Talk` says what may be
answered to which request and that the answer named `held` is the one its key has
stored. `Owed` is the promise: a draft the page was told of is in the phase
`held`, or its time is over. Each action that moves the phase away from `held`
places or releases that very order, and an answer that comes to a page that was
left is released there.

*`KInv`: who may release or place.* The right to an order is a function of the
state: the page has the order of a phase that is held or being placed, and the
one that was answered to its reservation key (`Owned`); a function of a page that
was left has the one it places or has reserved (`Owns`). `OneOwner` says that
this is one actor and nobody else is releasing the order. It needs that repeat
keys are not shared (`KeysApart`), that an order nobody has opened is nobody's
(`Fresh`), and, for the orders that were placed, `Placed` and `Before`. `Placed`: a
held order was not placed, and a page with the key of an order that was placed still
has its phase, unless a trouble lost an answer. `Before` gives the reason: as
long as there was no trouble, a charging order has its placement that waits for
it, so that no placement ends in the unknown, and no reservation either.
`ServerClaims` and `AnsweredBefore` are the two lemmas that take every step of
the servers at once. An order the page is told for good is refused goes from
`asked` to `denied`, whatever has become of it, and is then released; `KInv` says
that no other placed order is.

*`PInv`: what can have been bought.* As long as the history is `plain`, the
orders at their payment or past it (`Committed`) are one order, and while the
page is open it is the order of its phase (`OfPhase`). The page gives a phase
up after a definite answer to a placement or a code, so the invariant says what
such an answer means (`ToldSo`): an error says that nothing is at its payment, a
challenge that the order waits for its code. So in such a history the page is
never told of a refusal that is not so (`RefusalIsSo`, `NoDenial`), which is the
second half of `KeepsPlaced`. A press that repeats a placement of
unknown outcome keeps the attempt key, and `OfAttempt` ties that key to the
order: once the record is not free its body is this order's; while it is free
again (payment-service did not answer) the order is `unsure` or waits, and the
repeated charge is for the same one. What a lost placement may still do
afterwards is the last part (`OfLoose`): it has the key of the attempt, or the
record of its key is in use, so that it only repeats what is stored. `OfCharge`
says that a placement the gateway still waits for asks for the order and the
payment its key was used for. The step
from one attempt to the next rests on `AllRepeated`: the page drops a key when
it was told the outcome, and by then every lost placement of that key repeats.

### Model-checked only

Every safety invariant and every action property of a run that passes is a
theorem. Two of them are not true for every value of the constants, and their
theorems say so:

- `OneOutcome` is proved for two dispatchers and fails with three. Two calls that
  were left behind by their deadline outlive the whole delivery, and a ticker's
  turn lasts a whole trip: one call claims the courier again for the order that
  is delivered, the other decides to release that claim before its route is
  stored and frees it afterwards, and the ticker, which saw the courier carrying
  it in between, delivers it. No timing in the code excludes it; it takes three
  delays of minutes.
- `BoundCourierComes` is proved for any number of dispatchers as long as no turn
  of a ticker breaks off. With one failure it is the window of the delivery that
  is never told (section 12).

`CounterRecovery`, whose run is about a violation, has no theorems. All liveness
properties (`EveryHoldEnds`, `CheckoutEnds`, `MoneyComesBack`, `ChargeIsSettled`,
`EveryEventIsSent`, `NothingStaysPending`, `PaidIsDelivered`, `CouriersComeFree`)
stay with TLC: the proof system does not treat fairness and ENABLED.

## 12. Where code and documentation disagree

### A run shows it

**A sold SKU is called unknown** (`counter_loss`, `UnknownIsNotSold`).
`counter-recovery.ts:6` takes a marker that is there as proof that Redis was not
emptied, so that a missing counter means a SKU the market does not sell. But the
marker is read after the counter (`:49`). A call of one copy misses the counter
while Redis is empty; the other copy rebuilds everything and writes the marker;
the first call finds it and does not read again. CheckAvailability lists a sold
SKU as unknown and Reserve refuses the cart for a counter that is there, where
`check-availability.ts:14-16` says that unknown is answered only after a second
read. The next call is right again.

### Found while modelling, in one service

These are behaviours of the models above that no property states; each is the
reason for a bound or a scope of a run that passes.

- *A live hold is forgotten* (`StockReservation`). `forgetSettled` deletes the
  hash of an order whatever it holds, and its comment says that only a settled
  record can be there. Two calls complete one trace, the first deletes it, a
  late duplicate of Reserve opens the order again, the second deletes the live
  reservation. The counters never get its quantities back; nothing is oversold
  (`NoOversell` is proved without any assumption on duplicates).
  `StockConserved` is therefore checked with every Reserve once.
- *A paid order is refunded* (`OrderSaga`). The loser of two calls of one
  payment re-reads the order and refunds unless it reads exactly `PAID`. If a
  courier was found in between it reads `PREPARING` and refunds an order that
  goes on to be delivered. The header of the file says that no refund is made in
  this case.
- *A cancelled order has sold stock* (`OrderSaga`). CancelOrder looks at the
  payment, then writes `CANCELLED`. A charge and commit between the two leave
  it so. `PaidOnlyWithStock` is the direction that holds.
- *Money is taken for a closed order* (`OrderSaga`). A cancel command that finds
  no payment leaves nothing behind. A charge that arrives later takes money for
  a closed order; if the call that made it loses its next step, nobody returns
  the money. `MoneyComesBack` holds without failures.
- *A delivery is never told* (`CourierDispatch`). `advance-route.ts` frees the
  courier, then publishes the delivery, and says that a failed publish is
  repeated in the next turn. Between the two a dispatcher with an old read of
  the order finds no carrier, claims another courier and replaces the route. If
  the publish fails now, the next turn sees the new route only: the order stays
  as it is, and the other courier's events are dropped as stale. The same second
  claim, without the failure, contradicts "no second courier"
  (`order-service/README.md:546`) but is given back.
- *A trip is delivered and given back* (`CourierDispatch`, three dispatchers).
  `release-courier.ts` promises that exactly one of the two happens. A call with
  an old read claims a courier for an order that is delivered. Another late call
  reads the order again, finds the courier carrying it and no route of this
  assignment, and goes on to free the courier. Now the first call stores its
  route, a ticker lists it and reads the courier as carrying; then the courier
  is freed. The ticker's turn takes as long as the trip: it tells, records and
  publishes a delivery of the trip that was given back. The order is DELIVERED
  already, so that nobody sees it. Two calls have to be delayed by a whole
  delivery and a turn by a whole trip.

Where the liveness ends: `CheckoutEnds` holds without failures. The end of
payment-service between storing a card payment as `PENDING` and the provider's
answer breaks it: no job settles the record (`ChargeIsSettled` excepts it), and
neither the sweeper nor a repeated Charge closes the order. `CouriersComeFree`
fails with two dispatchers if one claims a courier for an order that is bound
already and fails before it stores the route: the reconciliation leaves
assignments without a route alone, as its header says. `PaidIsDelivered` fails
with one dispatcher that fails once or twice and a ticker that fails twice: the
delivery is recorded and the courier freed, the publish fails; the dispatcher
asks again from its old read and the same courier is claimed for the order
again, the repeated turn frees that courier from its second trip and fails
once more, and the route is replaced. It is the window of the delivery that is
never told, reached by a retry in place of a second instance.

### Found while modelling, between page and services

`KeepsPlaced` names the first of these and allows it; the others are outside of
the scope of the run, or what the scope is for.

- *A placed order is released* (`denied` in `KeepsPlaced`). After an unknown
  answer the user changes the payment and presses again: the same key with
  another body is a CONFLICT, which `placeReserved` takes for definite
  (`place-order.ts:161-163`), so it releases the order, which may be charging or
  paid. `reservation-keeper.ts:10-14` says that a reservation whose placement is
  under way, unknown or done is never released. The same happens when the
  gateway gave up the first placement and when the time of the order is over.
  Order-service refuses to cancel what is paid and, once payment-service knows a
  payment, what is being paid; an order that is still at its risk step is
  cancelled. The run `page` has these behaviours: without `denied`, that is with
  `Releasing \cap (asked \cup denied) = {}`, it ends in a counterexample.
- *Early runs overlap.* When the cart changes, a run drops the phase and waits
  for the answer to its release; the effect sees the new phase and starts a
  second run 400 ms later, although the first one still waits. `inFlight` then names the second only (`useEarlyReservation.ts:139-146`), and
  either of them clears it, so a press does not wait for both. The first one goes
  on to reserve, and its `reserving` and `held` (lines 82, 89) replace the
  `placing` of an order that is being placed: leaving the page releases the
  order of that phase, and the one that is being placed can be replaced by the
  late reservation. With `MaxCrossed = 1` and the condition `crossed = 0` taken
  out, `KeepsPlaced` and `NothingLeftBehind` fail.
- *A retry can buy twice.* The gateway gives up a placement (its budget, a 5xx)
  and frees the key; order-service goes on to `PAID`. The retry with the same
  key is answered ORDER_STATE_INVALID, a definite error; the page's release of
  the order is refused, which it ignores, and it opens a new order.
  `docs/adr/0008-idempotency-key.md:36` calls the repeated request harmless.
  The next press pays a second time.
- *A late challenge clears a new cart.* The answer of a challenge that arrives
  after the user has left saves the pending record again; the next visit resumes
  the old order and clears the new cart, against `useThreeDsResume.ts:89-93`.
- *In progress for two hours.* Order-service's own 409 REQUEST_IN_PROGRESS is
  stored by the gateway like any definite answer and replayed as long as the
  record lives.
- *A lost answer to a code.* The order is paid; the release after giving up is
  refused with ORDER_STATE_INVALID and shown as a failure, so that pressing
  again pays a second time, against `useOrderFlow.ts:166`. When the reservation
  time passes with an uncertain order, the page also makes a new one.
- *A cancellation meets a code.* Cancel and expiry have no guard while a code is
  being checked (`useOrderFlow.ts:272-278`), so two abandons may run; the later
  one forgets a newer reservation, which is then left behind, or sets the page
  idle in the middle of a placement, after which a second press under the same
  intent can release an order that is being placed. `MaxCrossed = 1` and the
  properties without `crossed = 0` show both.

## 13. Not modelled, and the plan

Most of the repository's lines are screens, styles, generated code,
configuration, seeds, schemas and contracts, texts, and the mapping of REST to
gRPC. They hold no state that several actors change, and a model of them would
repeat them. What is left out of the parts that do is named in the section of
each module and, per component, in `PROJECT.json`:

- the card vault, sessions, verification codes and rate limits: atomic
  operations on one document or key;
- pricing: a pure calculation on integers with unit tests of its own;
- leadership of sweepers, tickers and dispatchers: the models let several run at
  once, which is the case leadership is not needed for;
- the migration lock and the circuit breaker: the first acts at the start of a
  process, the second only makes calls fail at once, which the models allow;
- the sweeper's batch of several orders and the dispatcher's queue: orders whose
  payment never settles can fill every batch of the oldest;
- the reads, joining of rooms, tracking and live positions.

Next, in this order:

1. `SweepBatch`: many orders and a batch of the oldest; two orders that compete
   for one courier.
