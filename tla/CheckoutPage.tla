---------------------------- MODULE CheckoutPage -----------------------------
(* The checkout page of the web client, in one tab of one user: the early       *)
(* reservation, the placement of the order, the 3DS challenge and its           *)
(* resumption, and what goes on after the user has left. An action is what the  *)
(* page does between two awaits, or what the servers do with one request.       *)
EXTENDS CheckoutServer, FiniteSets

CONSTANTS
  Cart,         \* contents of the cart with address and total
  NoCart,       \* nothing that can be reserved
  MaxCrossed,   \* bound: steps of the page that cross another of its own: a cancelled
                \* challenge whose code is being checked, a second early run
  MaxEvents     \* bound: how many of a second visit, a change of cart or payment, a trouble
                \* and a reservation time that ends happen (each once)

ASSUME CartAssumption == NoCart \notin Cart
ASSUME BoundsAssumption == MaxCrossed \in Nat /\ MaxEvents \in Nat

VARIABLES
  cart,      \* the cart of the browser, as a reservation request
  pending,   \* sessionStorage: the order whose challenge a reload takes up
  page,      \* the component: its state, the phase of its reservation, its keys
  task,      \* job -> the async function of the page that is under way
  left,      \* those of pages the user has left
  loose,     \* requests whose answer nobody hears
  asked,     \* orders placed by a request that is not refused (so far)
  denied,    \* those refused for good although their placement was under way, waited for a
             \* code, or was accepted
  owed,      \* orders the page was told of and neither placed nor asked to release
  plain,     \* the user only pressed the button and entered codes, in time; no answer to
             \* a code was lost, no placement was given up by the gateway
  crossed, events

browser == <<cart, pending>>
history == <<asked, denied, owed>>
counts == <<crossed, events>>
vars == <<server, browser, page, task, left, loose, history, plain, counts>>

------------------------------------------------------------------------------
Job == {"early", "flow", "code", "resume"}
Own == {"idle", "busy", "code", "check"}
Unsaid == Said("none", NoOrder)
NoPhase == [kind |-> "none", order |-> NoOrder, cart |-> NoCart, with |-> "any"]
Blank == [on |-> FALSE, own |-> "idle", order |-> NoOrder, resume |-> "no", phase |-> NoPhase,
          intent |-> NoKey, of |-> NoCart, attempt |-> NoKey, pay |-> "card", stale |-> {}]
Rest(j) == [job |-> j, at |-> "none", order |-> NoOrder, cart |-> NoCart, pay |-> "card",
            with |-> "any", key |-> NoKey, attempt |-> NoKey, answer |-> Unsaid]
NoTasks == [j \in Job |-> Rest(j)]

Phase(kind, o, c) == [kind |-> kind, order |-> o, cart |-> c, with |-> "any"]

\* A task goes on to its next request.
Ask(t, at, o) == [t EXCEPT !.at = at, !.order = o, !.key = NoKey, !.answer = Unsaid]
AskWith(t, at, o, k) == [Ask(t, at, o) EXCEPT !.key = k]
Ends(j) == task' = [task EXCEPT ![j] = Rest(j)]
Drop(o) == Ask(Rest("loose"), "drop", o)

\* The early runs of the page: the one inFlight names, and those it does not name any more.
InFlight == {t \in {task["early"]} : t.at # "none"}
EarlyRuns == InFlight \cup page.stale
Tasks == {task[j] : j \in Job} \cup page.stale \cup left \cup loose
KeysInUse == (UNION {{t.key, t.attempt} : t \in Tasks}) \cup {page.intent, page.attempt}
                \cup {charge[o].key : o \in Order}
NewKey == CHOOSE k \in Key : k \notin KeysInUse
KeyFrom(kept) == IF kept = NoKey THEN NewKey ELSE kept
Takes(kept) ==
  /\ kept = NoKey => Key \ KeysInUse # {}
  /\ record' = IF kept = NoKey THEN [record EXCEPT ![NewKey] = FreeKey] ELSE record

IntentFor(c) == IF page.of = c THEN page.intent ELSE NoKey

\* The clock of the page may be a little behind that of the server.
Over(o) == {old \in BOOLEAN : old => o \in lapsed}

Happens(what) ==
  /\ what \notin events /\ Cardinality(events) < MaxEvents
  /\ events' = events \cup {what} /\ UNCHANGED crossed

Idle == page.on /\ page.own = "idle" /\ page.resume = "no"

Init ==
  /\ ServerInit
  /\ cart \in Cart /\ pending = NoOrder
  /\ page \in {[Blank EXCEPT !.on = TRUE, !.pay = p] : p \in Payment}
  /\ task = NoTasks /\ left = {} /\ loose = {}
  /\ asked = {} /\ denied = {} /\ owed = {} /\ plain = TRUE
  /\ crossed = 0 /\ events = {}

------------------------------------------------------------------------------
(* The early reservation (useEarlyReservation.ts). *)

\* reservationStep.
EarlyStep(old) ==
  LET p == page.phase
  IN  CASE p.kind \in {"reserving", "placing", "ordered"} -> "wait"
        [] p.kind = "held" /\ cart = NoCart -> "release"
        [] p.kind = "held" /\ cart \notin {NoCart, p.cart} -> "replace"
        [] p.kind = "held" /\ cart = p.cart -> IF old THEN "renew" ELSE "wait"
        [] p.kind = "failed" /\ cart = p.cart -> "wait"
        [] OTHER -> IF cart = NoCart THEN "wait" ELSE "reserve"

\* A run goes on to its next request, or starts (from Rest): inFlight then names it.
RunAsks(t, next, p) ==
  IF t \in page.stale
  THEN page' = [p EXCEPT !.stale = (@ \ {t}) \cup {next}] /\ UNCHANGED task
  ELSE /\ task' = [task EXCEPT !["early"] = next]
       /\ page' = [p EXCEPT !.stale = @ \cup (InFlight \ {t})]

\* The end of a run clears inFlight, whichever run that names; a flow which waits for
\* the named one goes on waiting.
RunEnds(t, p) ==
  LET lost == IF task["flow"].at = "take" THEN {} ELSE InFlight \ {t}
  IN  /\ page' = [p EXCEPT !.stale = (@ \ {t}) \cup lost]
      /\ IF t \in page.stale /\ lost = {} THEN UNCHANGED task ELSE Ends("early")

EarlyReserves(t, kept) ==
  /\ Takes(kept)
  /\ RunAsks(t, AskWith([t EXCEPT !.cart = cart], "reserve", NoOrder, KeyFrom(kept)),
             [page EXCEPT !.phase = Phase("reserving", NoOrder, cart),
                          !.intent = KeyFrom(kept), !.of = cart])
  /\ UNCHANGED history

EarlyReleases(next) ==
  /\ RunAsks(Rest("early"), Ask([Rest("early") EXCEPT !.cart = next], "drop", page.phase.order),
             [page EXCEPT !.phase = NoPhase, !.intent = NoKey])
  /\ owed' = owed \ {page.phase.order}
  /\ UNCHANGED <<record, asked, denied>>

\* The timer of the effect. Another run may still wait for the answer of its release.
StartEarly ==
  /\ Idle
  /\ IF task["early"].at = "none" THEN UNCHANGED crossed
     ELSE crossed < MaxCrossed /\ crossed' = crossed + 1
  /\ \E old \in Over(page.phase.order) :
       CASE EarlyStep(old) = "release" -> EarlyReleases(NoCart)
         [] EarlyStep(old) = "replace" -> EarlyReleases(cart)
         [] EarlyStep(old) = "renew"   -> EarlyReserves(Rest("early"), NoKey)
         [] EarlyStep(old) = "reserve" -> EarlyReserves(Rest("early"), IntentFor(cart))
         [] OTHER -> FALSE
  /\ UNCHANGED <<status, lapsed, charge, browser, left, loose, plain, events>>

Reply(t) ==
  IF t.answer.is # "wait" THEN t.answer
  ELSE CASE record[t.key].state = "busy" -> Unsaid
         [] record[t.key].state = "done" -> record[t.key].answer
         [] OTHER -> Said("unknown", t.order)
Answered(t) == Reply(t).is # "none"

\* isUnknownOutcome: the intent key is kept.
SettledIntent(what) == IF what = "unknown" THEN page.intent ELSE NoKey

HearEarly(t) ==
  LET what == Reply(t)
  IN  /\ Answered(t)
      /\ \/ t.at = "drop" /\ t.cart # NoCart /\ cart # NoCart /\ EarlyReserves(t, IntentFor(cart))
         \/ /\ t.at = "drop" /\ NoCart \in {t.cart, cart} /\ RunEnds(t, page)
            /\ UNCHANGED <<record, history>>
         \/ /\ t.at = "reserve" /\ what.is = "held"
            /\ RunEnds(t, [page EXCEPT !.phase = Phase("held", what.order, t.cart)])
            /\ owed' = owed \cup {what.order}
            /\ UNCHANGED <<record, asked, denied>>
         \/ /\ t.at = "reserve" /\ what.is # "held"
            /\ RunEnds(t, [page EXCEPT !.phase = Phase("failed", NoOrder, t.cart),
                                       !.intent = SettledIntent(what.is)])
            /\ UNCHANGED <<record, history>>
      /\ UNCHANGED <<status, lapsed, charge, browser, left, loose, plain, counts>>

\* "Tekrar dene" on the line of the failed reservation.
RetryEarly ==
  /\ Idle /\ page.phase.kind = "failed"
  /\ page' = [page EXCEPT !.phase = NoPhase]
  /\ UNCHANGED <<server, browser, task, left, loose, history, plain, counts>>

------------------------------------------------------------------------------
(* Leaving the page: by the user, or because the order is placed. *)

\* An early run that releases goes on with the cart the page knew.
Orphan(t) ==
  [t EXCEPT !.attempt = page.attempt,
            !.cart = IF t.job = "early" /\ t.at = "drop" /\ t.cart # NoCart THEN cart ELSE t.cart]

\* Mutant: an order whose placement is under way is released too.
ReleasableWithPlacing(p) == IF p.kind \in {"held", "placing"} THEN {p.order} ELSE {}
ReleasableOnLeave(p) == IF p.kind = "held" THEN {p.order} ELSE {}

\* keeper.leave, and the abort of the resumption.
Unmount(tasks, others) ==
  LET over == ReleasableOnLeave(page.phase)
      running == {tasks[j] : j \in Job} \cup page.stale
  IN  /\ page' = Blank /\ task' = NoTasks
      /\ left' = others \cup {Orphan(t) : t \in {u \in running : u.at \notin {"none", "read"}}}
      /\ loose' = loose \cup {Drop(o) : o \in over}
      /\ owed' = owed \ over

\* finish: the confirmation page is shown, the cart emptied.
Finish(j) ==
  /\ Unmount([task EXCEPT ![j] = Rest(j)], left)
  /\ cart' = NoCart /\ pending' = NoOrder
  /\ UNCHANGED <<server, asked, denied, plain, counts>>

Leave ==
  /\ page.on /\ task["flow"].at # "take"
  /\ Unmount(task, left)
  /\ pending' = IF page.own \in {"code", "check"} THEN NoOrder ELSE pending
  /\ plain' = FALSE
  /\ UNCHANGED <<server, cart, asked, denied, counts>>

\* The whole page goes: nothing is released, nothing is heard.
Reload ==
  /\ page.on /\ Happens("trouble")
  /\ page' = Blank /\ task' = NoTasks
  /\ LET running == {task[j] : j \in Job} \cup page.stale
         sent == {t \in running : t.answer = Unsaid /\ t.at \notin {"none", "take", "read"}}
     IN  loose' \in {loose, loose \cup {[t EXCEPT !.job = "loose"] : t \in sent}}
  /\ owed' = IF page.phase.kind = "held" THEN owed \ {page.phase.order} ELSE owed
  /\ plain' = FALSE
  /\ UNCHANGED <<server, browser, left, asked, denied>>

\* A record of an open challenge is taken up.
Open ==
  /\ ~page.on /\ cart # NoCart /\ Happens("visit")
  /\ \E p \in Payment :
       page' = [Blank EXCEPT !.on = TRUE, !.pay = p, !.order = pending,
                             !.resume = IF pending = NoOrder THEN "no" ELSE "reading"]
  /\ task' = IF pending = NoOrder THEN NoTasks
             ELSE [NoTasks EXCEPT !["resume"] = Ask(@, "read", pending)]
  /\ UNCHANGED <<server, browser, left, loose, history, plain>>

------------------------------------------------------------------------------
(* "Siparis Ver": useOrderFlow.place. *)

Press ==
  /\ Idle /\ cart # NoCart /\ page.phase.kind # "failed" /\ task["flow"].at = "none"
  /\ page' = [page EXCEPT !.own = "busy"]
  /\ task' = [task EXCEPT !["flow"] = [@ EXCEPT !.at = "take", !.cart = cart, !.pay = page.pay]]
  /\ UNCHANGED <<server, browser, left, loose, history, plain, counts>>

FlowReserves(kept) ==
  /\ Takes(kept)
  /\ page' = [page EXCEPT !.phase = IF @.kind = "placing" THEN NoPhase ELSE @,
                          !.intent = KeyFrom(kept), !.of = task["flow"].cart]
  /\ task' = [task EXCEPT !["flow"] = AskWith(@, "reserve", NoOrder, KeyFrom(kept))]
  /\ UNCHANGED history

FlowPlaces(held) ==
  /\ Takes(page.attempt)
  /\ page' = [page EXCEPT !.phase = [held EXCEPT !.kind = "placing"], !.attempt = KeyFrom(@)]
  /\ task' = [task EXCEPT !["flow"] =
                AskWith([@ EXCEPT !.with = held.with], "place", held.order, KeyFrom(page.attempt))]
  /\ asked' = asked \cup {held.order} /\ denied' = denied \ {held.order}
  /\ owed' = owed \ {held.order}

FlowReleases(at, o) ==
  /\ page' = [page EXCEPT !.phase = NoPhase, !.intent = NoKey]
  /\ task' = [task EXCEPT !["flow"] = Ask(@, at, o)]
  /\ owed' = owed \ {o}
  /\ UNCHANGED <<record, asked, denied>>

\* canReuseHeldOrder and heldMatchesBody.
Usable(held, t, old) == held.cart = t.cart /\ ~old /\ held.with \in {"any", t.pay}

\* keeper.take, after the early run that is under way.
Take ==
  LET t == task["flow"]  held == page.phase
  IN  /\ t.at = "take" /\ task["early"].at = "none"
      /\ \E old \in Over(held.order) :
           CASE held.kind \in {"held", "placing"} /\ Usable(held, t, old) -> FlowPlaces(held)
             [] held.kind = "held" /\ ~Usable(held, t, old) -> FlowReleases("drop", held.order)
             [] OTHER -> FlowReserves(IntentFor(t.cart))
      /\ UNCHANGED <<status, lapsed, charge, browser, left, loose, plain, counts>>

\* Mutant: an attempt whose outcome is unknown gets a new key.
AttemptRenewed(what) == NoKey
\* The key of an attempt whose outcome is unknown is kept.
SettledAttempt(what) == IF what = "unknown" THEN page.attempt ELSE NoKey

\* The order the flow has used, with what it was placed with before.
HeldBy(t, kind) == [Phase(kind, t.order, t.cart) EXCEPT !.with = t.with]

\* fail, and the other ways back to an idle page.
BackToIdle(phase, intent, attempt) ==
  /\ Ends("flow")
  /\ page' = [page EXCEPT !.own = "idle", !.phase = phase, !.intent = intent, !.attempt = attempt]
  /\ UNCHANGED record

HearReserve ==
  LET t == task["flow"]  what == Reply(t)
  IN  /\ Answered(t)
      /\ \/ t.at = "drop" /\ FlowReserves(IntentFor(t.cart))
         \/ t.at = "reserve" /\ what.is = "held" /\ FlowPlaces(Phase("held", what.order, t.cart))
         \/ /\ t.at = "reserve" /\ what.is # "held"
            /\ BackToIdle(NoPhase, SettledIntent(what.is), page.attempt)
            /\ UNCHANGED history
      /\ UNCHANGED <<status, lapsed, charge, browser, left, loose, plain, counts>>

\* The page is told for good that an order is not placed, whatever has become of it: a
\* repeated placement is refused as well when its payment is another one (CONFLICT), when
\* the gateway has given the first one up, or when the time of the order is over.
UntouchedBy(what) ==
  IF what = "cardless" THEN {"draft", "awaiting", "closed"} ELSE {"draft", "closed"}
Denies(o, what) ==
  /\ asked' = asked \ {o}
  /\ denied' = IF status[o] \in UntouchedBy(what) THEN denied ELSE denied \cup {o}

\* The order is kept for another card; a payment choice that is refused is made again.
HearRefusal ==
  LET t == task["flow"]  what == Reply(t).is  held == HeldBy(t, "held")
  IN  /\ t.at = "place" /\ what \in {"cardless", "method"}
      /\ Ends("flow")
      /\ page' = [page EXCEPT !.own = "idle", !.attempt = NoKey,
                              !.pay = IF what = "method" THEN "card" ELSE @,
                              !.phase = IF what = "method" THEN held
                                        ELSE [held EXCEPT !.with = t.pay]]
      /\ Denies(t.order, what) /\ owed' = owed \cup {t.order}
      /\ UNCHANGED <<server, browser, left, loose, plain, counts>>

\* placeReserved, its definite errors and its unknown outcome.
HearFailure ==
  LET t == task["flow"]  what == Reply(t).is
  IN  /\ \/ /\ t.at = "place" /\ what = "error"
            /\ page' = [page EXCEPT !.intent = NoKey, !.attempt = SettledAttempt(what)]
            /\ task' = [task EXCEPT !["flow"] = Ask(@, "undo", t.order)]
            /\ Denies(t.order, what) /\ UNCHANGED record
         \/ /\ t.at = "place" /\ what = "unknown"
            /\ BackToIdle(HeldBy(t, "placing"), page.intent, SettledAttempt(what))
            /\ UNCHANGED <<asked, denied>>
         \/ /\ t.at = "undo" /\ Answered(t)
            /\ BackToIdle(NoPhase, page.intent, page.attempt)
            /\ UNCHANGED <<asked, denied>>
      /\ UNCHANGED <<status, lapsed, charge, browser, left, loose, owed, plain, counts>>

HearPlaced ==
  /\ task["flow"].at = "place" /\ Reply(task["flow"]).is \in {"paid", "review"}
  /\ Finish("flow")

HearChallenge ==
  LET t == task["flow"]
  IN  /\ t.at = "place" /\ Reply(t).is = "challenge"
      /\ Ends("flow")
      /\ page' = [page EXCEPT !.own = "code", !.order = t.order, !.attempt = NoKey,
                              !.phase = Phase("ordered", t.order, NoCart)]
      /\ pending' = t.order
      /\ UNCHANGED <<server, cart, left, loose, history, plain, counts>>

------------------------------------------------------------------------------
(* The challenge: submit, cancel and expire, abandon; useThreeDsResume.ts. *)

Submit ==
  /\ page.own = "code" /\ task["code"].at = "none"
  /\ page' = [page EXCEPT !.own = "check"]
  /\ task' = [task EXCEPT !["code"] = Ask(@, "confirm", page.order)]
  /\ UNCHANGED <<server, browser, left, loose, history, plain, counts>>

\* releaseSafely ends the reservation intent.
Abandon(j, o) ==
  /\ page' = [page EXCEPT !.own = "busy", !.resume = "no", !.intent = NoKey]
  /\ task' = [task EXCEPT ![j] = Ask(@, "abandon", o)]
  /\ UNCHANGED <<server, browser, left, loose, history, events>>

\* The user cancels, or the countdown ends; a code may be on its way.
Cancel ==
  /\ page.own \in {"code", "check"} /\ task["flow"].at = "none"
  /\ Abandon("flow", page.order)
  /\ plain' = FALSE
  /\ IF task["code"].at = "none" THEN UNCHANGED crossed
     ELSE crossed < MaxCrossed /\ crossed' = crossed + 1

HearCode ==
  LET t == task["code"]  what == Reply(t).is
  IN  /\ t.at = "confirm"
      /\ \/ what = "paid" /\ Finish("code")
         \/ /\ what = "wrong" /\ Ends("code")
            /\ page' = [page EXCEPT !.own = IF @ = "check" THEN "code" ELSE @]
            /\ UNCHANGED <<server, browser, left, loose, history, plain, counts>>
         \/ /\ what \in {"error", "unknown"} /\ Abandon("code", t.order)
            /\ UNCHANGED <<plain, crossed>>

HearAbandon(j) ==
  LET t == task[j]  what == Reply(t).is
  IN  /\ t.at \in {"abandon", "look"} /\ Answered(t)
      /\ \/ t.at = "look" /\ what = "paid" /\ Finish(j)
         \/ /\ t.at = "abandon" /\ what = "progress"
            /\ task' = [task EXCEPT ![j] = Ask(t, "look", t.order)]
            /\ UNCHANGED <<server, browser, page, left, loose, history, plain, counts>>
         \/ /\ what \notin {"paid", "progress"} /\ Ends(j)
            /\ page' = [page EXCEPT !.own = "idle", !.phase = NoPhase]
            /\ pending' = IF what = "released" THEN NoOrder ELSE pending
            /\ UNCHANGED <<server, cart, left, loose, history, plain, counts>>

\* resumeDecision; an order that cannot be read is left alone.
HearResume ==
  LET t == task["resume"]  what == Reply(t).is
  IN  /\ t.at = "read"
      /\ \/ what \in {"paid", "review"} /\ Finish("resume")
         \/ what = "open" /\ task["flow"].at = "none"
            /\ page' = [page EXCEPT !.own = "busy", !.resume = "no", !.intent = NoKey]
            /\ task' = [task EXCEPT !["resume"] = Rest(@.job),
                                    !["flow"] = Ask(@, "abandon", t.order)]
            /\ UNCHANGED <<server, browser, left, loose, history, plain, counts>>
         \/ /\ what \in {"challenge", "gone", "unknown"} /\ Ends("resume")
            /\ page' = CASE what = "challenge" ->
                             [page EXCEPT !.resume = "no", !.own = "code", !.order = t.order,
                                          !.phase = Phase("ordered", t.order, NoCart)]
                         [] what = "gone" -> [page EXCEPT !.resume = "no"]
                         [] OTHER -> [page EXCEPT !.resume = "failed"]
            /\ pending' = IF what = "gone" THEN NoOrder ELSE pending
            /\ UNCHANGED <<server, cart, left, loose, history, plain, counts>>

RetryResume ==
  /\ page.resume = "failed"
  /\ page' = [page EXCEPT !.resume = "reading"]
  /\ task' = [task EXCEPT !["resume"] = Ask(@, "read", page.order)]
  /\ UNCHANGED <<server, browser, left, loose, history, plain, counts>>

------------------------------------------------------------------------------
(* What a page goes on with after the user has left it. *)

Goes(t, next) == left' = (left \ {t}) \cup next

LeftReserves(t) ==
  /\ Takes(NoKey)
  /\ Goes(t, {AskWith(t, "reserve", NoOrder, NewKey)})
  /\ UNCHANGED <<loose, pending, asked, denied>>

LeftPlaces(t, o) ==
  /\ Takes(t.attempt)
  /\ Goes(t, {AskWith(t, "place", o, KeyFrom(t.attempt))})
  /\ asked' = asked \cup {o} /\ denied' = denied \ {o}
  /\ UNCHANGED <<loose, pending>>

LeftReleases(t, o) ==
  /\ Goes(t, {}) /\ loose' = loose \cup {Drop(o)}
  /\ IF t.at = "place" THEN Denies(o, Reply(t).is) ELSE UNCHANGED <<asked, denied>>
  /\ UNCHANGED <<record, pending>>

LeftEnds(t, saved) ==
  /\ Goes(t, {}) /\ pending' = saved
  /\ UNCHANGED <<record, loose, asked, denied>>

LeftAbandons(t) ==
  /\ Goes(t, {Ask(t, "abandon", t.order)})
  /\ UNCHANGED <<record, loose, pending, asked, denied>>

\* Mutant: the left page keeps the reservation.
LeftKeepsIt(t, o) ==
  /\ Goes(t, {}) /\ asked' = asked \ {t.order}
  /\ UNCHANGED <<record, loose, pending, denied>>
\* Nobody keeps a reservation for a page that is left.
LeftKeeps(t, o) == LeftReleases(t, o)

LeftGoesOn(t, what, o) ==
  \/ t.at = "drop" /\ t.cart # NoCart /\ LeftReserves(t)
  \/ t.at = "drop" /\ t.cart = NoCart /\ LeftEnds(t, pending)
  \/ t.at = "reserve" /\ what = "held" /\ t.job = "flow" /\ LeftPlaces(t, o)
  \/ t.at = "reserve" /\ what = "held" /\ t.job = "early" /\ LeftKeeps(t, o)
  \/ t.at = "reserve" /\ what # "held" /\ LeftEnds(t, pending)
  \/ t.at = "place" /\ what = "challenge" /\ LeftEnds(t, t.order)
  \/ t.at = "place" /\ what \in {"cardless", "method"} /\ LeftKeeps(t, t.order)
  \/ t.at = "place" /\ what = "error" /\ LeftReleases(t, t.order)
  \/ t.at \in {"place", "look"} /\ what = "unknown" /\ LeftEnds(t, pending)
  \/ t.at = "look" /\ what \notin {"paid", "unknown"} /\ LeftEnds(t, pending)
  \/ t.at = "undo" /\ LeftEnds(t, pending)
  \/ t.at = "confirm" /\ what = "wrong" /\ LeftEnds(t, pending)
  \/ t.at = "confirm" /\ what \in {"error", "unknown"} /\ LeftAbandons(t)
  \/ /\ t.at = "abandon" /\ what = "progress"
     /\ Goes(t, {Ask(t, "look", t.order)}) /\ UNCHANGED <<record, loose, pending, asked, denied>>
  \/ /\ t.at = "abandon" /\ what # "progress"
     /\ LeftEnds(t, IF what = "released" THEN NoOrder ELSE pending)

\* The order is placed: the user is taken to its confirmation, wherever he is.
LeftFinishes(t) ==
  /\ IF page.on THEN task["flow"].at # "take" /\ Unmount(task, left \ {t})
     ELSE Goes(t, {}) /\ UNCHANGED <<page, task, loose, owed>>
  /\ cart' = NoCart /\ pending' = NoOrder
  /\ UNCHANGED <<server, asked, denied, plain, counts>>

Told(t) ==
  CASE Reply(t).is = "held" -> {Reply(t).order}
    [] Reply(t).is \in {"cardless", "method"} -> {t.order}
    [] OTHER -> {}

HearLeft(t) ==
  /\ Answered(t)
  /\ \/ /\ \/ t.at \in {"place", "confirm"} /\ Reply(t).is \in {"paid", "review"}
           \/ t.at = "look" /\ Reply(t).is = "paid"
        /\ LeftFinishes(t)
     \/ /\ LeftGoesOn(t, Reply(t).is, Reply(t).order)
        /\ owed' = (owed \cup Told(t)) \ (asked' \cup {u.order : u \in loose'})
        /\ UNCHANGED <<status, lapsed, charge, cart, page, task, plain, counts>>

------------------------------------------------------------------------------
(* The requests on their way, and the user's other steps. *)

Handles(t, ans) ==
  CASE t.at = "reserve" -> Reserves(t.key, t.cart, ans)
    [] t.at = "place"   -> Places(t.key, t.order, t.pay, ans)
    [] t.at = "confirm" -> Confirms(t.order, ans)
    [] t.at \in {"drop", "undo", "abandon"} -> Releases(t.order, ans)
    [] t.at \in {"look", "read"} -> Shows(t.order, ans)
    [] OTHER -> FALSE

AnswersTo(t) == IF t.at = "reserve" THEN Answer ELSE AnswersAbout(t.order)

WithAnswer(tasks, t, ans) ==
  IF t \in tasks THEN (tasks \ {t}) \cup {[t EXCEPT !.answer = ans]} ELSE tasks

Serve ==
  /\ \/ \E j \in Job : /\ task[j].at # "none" /\ task[j].answer = Unsaid
                       /\ \E ans \in AnswersTo(task[j]) :
                            Handles(task[j], ans) /\ task' = [task EXCEPT ![j].answer = ans]
                       /\ UNCHANGED <<page, left, loose>>
     \/ \E t \in left \cup page.stale :
          /\ t.answer = Unsaid
          /\ \E ans \in AnswersTo(t) :
               /\ Handles(t, ans)
               /\ left' = WithAnswer(left, t, ans)
               /\ page' = [page EXCEPT !.stale = WithAnswer(@, t, ans)]
          /\ UNCHANGED <<task, loose>>
     \/ \E t \in loose : /\ \E ans \in AnswersTo(t) : Handles(t, ans)
                         /\ loose' = loose \ {t}
                         /\ UNCHANGED <<page, task, left>>
  /\ UNCHANGED <<browser, history, plain, counts>>

\* The network loses the request or its answer, or the request arrives late.
Lose ==
  /\ Happens("trouble")
  /\ \E t \in {task[j] : j \in Job} \cup page.stale :
       /\ t.at \notin {"none", "take"} /\ Reply(t).is # "unknown"
       /\ LET unknown == Said("unknown", t.order)
          IN  IF t \in page.stale
              THEN page' = [page EXCEPT !.stale = WithAnswer(@, t, unknown)] /\ UNCHANGED task
              ELSE task' = [task EXCEPT ![t.job].answer = unknown] /\ UNCHANGED page
       /\ loose' \in IF t.answer = Unsaid THEN {loose, loose \cup {[t EXCEPT !.job = "loose"]}}
                      ELSE {loose}
       /\ plain' = (plain /\ t.at # "confirm")
  /\ UNCHANGED <<server, browser, left, history>>

\* A service behind order-service does not answer it, or the gateway does not wait.
ServerFails ==
  /\ Happens("trouble")
  /\ \/ \E o \in Order : ChargeLost(o) /\ UNCHANGED <<task, plain>>
     \/ \E o \in Order : Cuts(o) /\ plain' = FALSE /\ UNCHANGED task
     \/ /\ task["code"].at = "confirm" /\ task["code"].answer = Unsaid
        /\ ConfirmLost(task["code"].order) /\ plain' = FALSE
        /\ task' = [task EXCEPT !["code"].answer = Said("unknown", task["code"].order)]
  /\ UNCHANGED <<browser, page, left, loose, history>>

TimePasses ==
  /\ Happens("late") /\ plain' = FALSE
  /\ \E o \in Order : Lapses(o)
  /\ UNCHANGED <<browser, page, task, left, loose, history>>

ServerDecides ==
  /\ \E o \in Order : Decides(o)
  /\ UNCHANGED <<browser, page, task, left, loose, history, plain, counts>>

Change ==
  /\ Happens("change") /\ plain' = FALSE
  /\ \/ cart' \in (Cart \cup {NoCart}) \ {cart} /\ UNCHANGED page
     \/ /\ page.on /\ \E p \in Payment \ {page.pay} : page' = [page EXCEPT !.pay = p]
        /\ UNCHANGED cart
  /\ UNCHANGED <<server, pending, task, left, loose, history>>

Next ==
  \/ StartEarly \/ RetryEarly \/ \E t \in EarlyRuns : HearEarly(t)
  \/ Open \/ Leave \/ Reload \/ Change
  \/ Press \/ Take \/ HearReserve \/ HearRefusal \/ HearFailure \/ HearPlaced \/ HearChallenge
  \/ Submit \/ Cancel \/ HearCode \/ HearAbandon("flow") \/ HearAbandon("code")
  \/ HearResume \/ RetryResume
  \/ \E t \in left : HearLeft(t)
  \/ Serve \/ ServerDecides \/ Lose \/ ServerFails \/ TimePasses

Spec == Init /\ [][Next]_vars

------------------------------------------------------------------------------
(* Properties. *)

TypeOK ==
  /\ status \in [Order -> Status] /\ lapsed \subseteq Order
  /\ cart \in Cart \cup {NoCart} /\ pending \in 0..MaxOrders
  /\ page.own \in Own /\ page.resume \in {"no", "reading", "failed"}
  /\ \A t \in Tasks : t.key \in 0..MaxKeys /\ t.order \in 0..MaxOrders /\ t.answer \in Answer
  /\ asked \cup denied \cup owed \subseteq Order

Releasing == {t.order : t \in {u \in Tasks : u.at \in {"drop", "undo"}}}

(* reservation-keeper.ts:10-14: the cleaning up of the page never releases an    *)
(* order whose placement is under way, unknown, waits for its code, or was       *)
(* accepted. The code keeps this with one exception, which `denied` remembers:   *)
(* the page is told for good that such an order is refused. In plain histories   *)
(* (no leaving, no change, no lapse, no placement given up) that never happens.  *)
(* The rule is lost when early runs overlap or a cancellation meets a code.      *)
KeepsPlaced ==
  crossed = 0 =>
    /\ Releasing \cap (asked \cup denied) \subseteq denied
    /\ plain => denied = {}

(* useEarlyReservation.ts:172-183: when a page that was left has come to its     *)
(* end, no draft it was told of locks stock for the rest of its time, unless it  *)
(* was placed or its release was lost. A reload is no such end: it releases      *)
(* nothing, and the draft the page held then is not owed.                        *)
NothingLeftBehind ==
  crossed = 0 /\ ~page.on /\ left = {} /\ loose = {} =>
    \A o \in owed : status[o] = "draft" => o \in lapsed

(* ADR-08: pressing the button again after the answer of a reservation, of a    *)
(* placement, or of payment-service to a charge was lost does not buy the cart  *)
(* twice.                                                                       *)
OnePaidOrder == plain => Cardinality({o \in Order : status[o] \in {"paid", "review"}}) <= 1
==============================================================================
