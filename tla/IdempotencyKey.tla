---------------------------- MODULE IdempotencyKey ----------------------------
(* The repeat guard of the gateway's mutations: a key is claimed, the handler  *)
(* runs within a budget, and its answer is stored for the requests that repeat *)
(* the key. Each action is one call to Redis of one request; what the handler  *)
(* does is left open.                                                          *)
EXTENDS Integers

CONSTANTS
  Request,
  Key, BodyOf(_),        \* what a request asks for
  Carried,               \* the ways in which clients give their requests keys
  MaxTroubles            \* bound: calls to Redis that fail, and gateways that end

ASSUME CarriedAssumption == Carried \subseteq [Request -> Key]
ASSUME TroublesAssumption == MaxTroubles \in Nat

VARIABLES
  keyOf,      \* request -> the key it carries
  record,     \* key -> what Redis holds for it
  http,       \* request -> where the gateway is with it
  answer,     \* request -> the answer its client has
  unwritten,  \* keys for which the answer of a handler could not be stored
  troubles

keyVars == <<keyOf, record, http, answer, unwritten, troubles>>

------------------------------------------------------------------------------
Phase == {"idle", "running", "finishing", "over"}
Kind == {"none", "done", "refused", "failed"}
NoAnswer(r) == [kind |-> "none", of |-> r]

\* An answer to request r; only a definite one of its handler is stored.
Answer(kind, r) == [kind |-> kind, of |-> r]
Storable(a) == a.kind \in {"done", "refused"}

Free == [state |-> "free"]
Claimed(r) == [state |-> "in-progress", by |-> r]
Stored(a) == [state |-> "done", answer |-> a]
Owned(r) == record[keyOf[r]] = Claimed(r)

KeyInit ==
  /\ keyOf \in Carried
  /\ record = [k \in Key |-> Free]
  /\ http = [r \in Request |-> "idle"]
  /\ answer = [r \in Request |-> NoAnswer(r)]
  /\ unwritten = {} /\ troubles = 0

Trouble == troubles < MaxTroubles /\ troubles' = troubles + 1
In(r, phase) == http[r] = phase
Enters(r, phase) == http' = [http EXCEPT ![r] = phase]
Answered(r, a) == answer' = [answer EXCEPT ![r] = a] /\ Enters(r, "over")

------------------------------------------------------------------------------
\* SET NX PX.
Claim(r) ==
  /\ In(r, "idle") /\ record[keyOf[r]] = Free
  /\ record' = [record EXCEPT ![keyOf[r]] = Claimed(r)]
  /\ Enters(r, "running")
  /\ UNCHANGED <<keyOf, answer, unwritten, troubles>>

\* Redis fails, before or after the key was taken: no handler runs.
ClaimFails(r) ==
  /\ In(r, "idle") /\ Trouble
  /\ \/ UNCHANGED record
     \/ record[keyOf[r]] = Free /\ record' = [record EXCEPT ![keyOf[r]] = Claimed(r)]
  /\ Answered(r, Answer("failed", r))
  /\ UNCHANGED <<keyOf, unwritten>>

\* The fingerprint of the record is that of the request which made it.
SameBody(r, other) == BodyOf(r) = BodyOf(other)

\* answerExisting: another body, a handler at work, or the stored answer again.
Repeats(r) ==
  LET held == record[keyOf[r]] IN
  /\ In(r, "idle")
  /\ \/ held.state = "in-progress" /\ Answered(r, Answer("failed", r))
     \/ /\ held.state = "done"
        /\ IF SameBody(r, held.answer.of) THEN Answered(r, held.answer)
                                          ELSE Answered(r, Answer("failed", r))
  /\ UNCHANGED <<keyOf, record, unwritten, troubles>>

\* The handler has answered, or its budget is used up; the answer is not sent yet.
HandlerEnds(r, a) ==
  /\ In(r, "running")
  /\ answer' = [answer EXCEPT ![r] = a]
  /\ Enters(r, "finishing")
  /\ UNCHANGED <<keyOf, record, unwritten, troubles>>

\* Mutant: a definite answer gives the key free as well.
KeptNever(r) == Free

\* What finish leaves of a record it owns.
Kept(r) == IF Storable(answer[r]) THEN Stored(answer[r]) ELSE Free

\* Complete or Release, in one script with the check of the token.
Finished(r) == IF Owned(r) THEN [record EXCEPT ![keyOf[r]] = Kept(r)] ELSE record
Finish(r) ==
  /\ In(r, "finishing") /\ Enters(r, "over")
  /\ record' = Finished(r)
  /\ UNCHANGED <<keyOf, answer, unwritten, troubles>>

\* Redis fails, with the record written or not; the answer is sent all the same.
FinishFails(r) ==
  /\ In(r, "finishing") /\ Trouble /\ Enters(r, "over")
  /\ \/ record' = Finished(r) /\ UNCHANGED unwritten
     \/ UNCHANGED record /\ unwritten' = unwritten \cup {keyOf[r]}
  /\ UNCHANGED <<keyOf, answer>>

\* The gateway ends: the client has no answer, the handler's calls go on.
GatewayDies(r) ==
  /\ http[r] \in {"running", "finishing"} /\ Trouble
  /\ Answered(r, Answer("failed", r))
  /\ UNCHANGED <<keyOf, record, unwritten>>

\* The budget of the handler and of finish is shorter than the life of a claim.
Working(r) == http[r] \in {"running", "finishing"}

ClaimExpires(k) ==
  /\ record[k].state = "in-progress" /\ ~Working(record[k].by)
  /\ record' = [record EXCEPT ![k] = Free]
  /\ UNCHANGED <<keyOf, http, answer, unwritten, troubles>>

Guards(r) == ClaimFails(r) \/ Repeats(r) \/ Finish(r) \/ FinishFails(r) \/ GatewayDies(r)

------------------------------------------------------------------------------
(* Properties. *)

KeyTypeOK ==
  /\ keyOf \in [Request -> Key]
  /\ record \in [Key -> {Free} \cup {Claimed(r) : r \in Request}
                  \cup {Stored(Answer(kind, r)) : kind \in Kind, r \in Request}]
  /\ http \in [Request -> Phase]
  /\ answer \in [Request -> [kind : Kind, of : Request]]
  /\ unwritten \subseteq Key
  /\ troubles \in 0..MaxTroubles

Has(r) == In(r, "over") /\ answer[r].kind = "done"

(* idempotency.go:114-126: two requests that carry one key never have the       *)
(* orders of two handlers, unless Redis lost the write of an answer.            *)
OneOrderPerKey ==
  \A r, s \in Request :
    Has(r) /\ Has(s) /\ keyOf[r] = keyOf[s] /\ keyOf[r] \notin unwritten =>
      answer[r] = answer[s]
==============================================================================
