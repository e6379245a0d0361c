--------------------------- MODULE CreatePayment ---------------------------
(***************************************************************************)
(* POST /v1/payments: handleCreatePayment with the idempotency service,    *)
(* the creation of the payment, and the two recovery sweeps (the startup   *)
(* sweep and the reconciliation worker) that resolve the keys of requests  *)
(* that did not finish.                                                    *)
(*                                                                         *)
(* A request is one handler goroutine of any server instance; a retry is   *)
(* another request with the same key.  Every SQL statement is one step and *)
(* commits on its own (no step here runs in a transaction).  A statement   *)
(* may fail with or without having taken effect, a handler may die between *)
(* two steps, and nothing bounds how long it lives.  A payment is named by *)
(* the request that creates it (its id is a fresh UUIDv7).                 *)
(***************************************************************************)
EXTENDS FiniteSets, Integers

CONSTANTS
  Requests,        \* HTTP requests, each handled once
  Keys,            \* values of the Idempotency-Key header
  Bodies,          \* request bodies, up to their SHA-256 hash
  BodyKind,        \* what is right or wrong with each body
  StartupSweeps,   \* runs of RunStartupSweep
  Workers,         \* runs of RunReconciliationWorker
  SweepLimit,      \* LIMIT of the sweeps' queries (100 in the code)
  SlowHandlers,    \* may a handler outlive sweepMinAge = workerMinAge?
  None             \* SQL NULL, and the value of a local not yet assigned

Sweeps == StartupSweeps \cup Workers

Kinds == {"valid", "malformed", "bad_fields", "bad_amount", "bad_upi",
          "bad_details", "short_card"}

ASSUME BodyKindAssumption == BodyKind \in [Bodies -> Kinds]
ASSUME NoneAssumption == None \notin Requests \cup Bodies
ASSUME SweepsAssumption == StartupSweeps \cap Workers = {}
ASSUME SweepLimitAssumption == SweepLimit \in Nat \ {0}
ASSUME SlowHandlersAssumption == SlowHandlers \in BOOLEAN

VARIABLES
  payments,   \* rows of payments, named by their creator
  opened,     \* payments whose creation event is recorded
  keys,       \* rows of idempotency_keys
  age,        \* age class of each key's created_at
  recovered,  \* per key, increments of recovery_keys_resolved_total
  pc,         \* the next statement of each handler
  req,        \* the request's key, body and content type
  answer,     \* the response the handler sends or is about to send
  sweep,      \* what each sweep is doing
  batch       \* the stuck keys a sweep fetched and has yet to resolve

tables == <<payments, opened, keys, age>>
handlers == <<pc, req, answer>>
sweepers == <<recovered, sweep, batch>>
vars == <<tables, handlers, sweepers>>

-----------------------------------------------------------------------------
(* Data *)

\* Age classes: below sweepMinAge, up to sweepMaxAge, beyond sweepMaxAge.
Fresh == 0
Stuck == 1
Expired == 2

\* Response codes, each with its HTTP status.
Codes == {"created", "unsupported_media_type", "invalid_request",
          "missing_idempotency_key", "invalid_amount", "invalid_upi_id",
          "payment_failed", "request_in_flight", "idempotency_key_mismatch",
          "internal_error", "processing_timeout"}

Response == [status : {201, 400, 409, 415, 422, 500}, code : Codes,
             payment : Requests \cup {None}]

Created(r) == [status |-> 201, code |-> "created", payment |-> r]
Error(status, code) == [status |-> status, code |-> code, payment |-> None]
Internal == Error(500, "internal_error")

KeyStatuses == {"absent", "pending", "completed", "failed"}

KeyRow == [status : KeyStatuses, hash : Bodies \cup {None},
           payment : Requests \cup {None}, response : Response \cup {None}]

NoRow == [status |-> "absent", hash |-> None, payment |-> None,
          response |-> None]

Request == [key : Keys, body : Bodies, json : BOOLEAN]
StuckKey == [key : Keys, payment : Requests \cup {None}]

\* A handler that has claimed its key and not returned.
Working == {"work", "event", "fail", "complete"}
Active == {"claim", "lookup"} \cup Working
Answered == {"done", "replayed", "refused"}

Key(r) == req[r].key
Body(r) == req[r].body

\* The errors found before anything is written to the payments table: decode
\* (content type, JSON), the method's fields, and Create's own validation,
\* through handleError.  "valid" bodies have none.
Verdict(r) ==
  LET kind == BodyKind[Body(r)] IN
  CASE ~req[r].json                        -> Error(415, "unsupported_media_type")
    [] req[r].json /\ kind \in {"malformed", "bad_fields"}
                                           -> Error(400, "invalid_request")
    [] req[r].json /\ kind = "bad_amount"  -> Error(400, "invalid_amount")
    [] req[r].json /\ kind = "bad_upi"     -> Error(400, "invalid_upi_id")
    [] req[r].json /\ kind = "bad_details" -> Internal
    [] OTHER                               -> None

\* What Fail stores for a handler that answers resp: decode and field errors
\* are stored as 400, every error of Create as 422.
Stored(resp) ==
  IF resp.code \in {"unsupported_media_type", "invalid_request"}
    THEN Error(400, "invalid_request")
    ELSE Error(422, "payment_failed")

Init ==
  /\ payments = {}
  /\ opened = {}
  /\ keys = [k \in Keys |-> NoRow]
  /\ age = [k \in Keys |-> Fresh]
  /\ recovered = [k \in Keys |-> 0]
  /\ pc = [r \in Requests |-> "idle"]
  /\ req = [r \in Requests |-> None]
  /\ answer = [r \in Requests |-> None]
  /\ sweep = [s \in Sweeps |-> "ready"]
  /\ batch = [s \in Sweeps |-> {}]

\* The handler answers resp and returns (or goes on to the statement next).
Reply(r, next, resp) ==
  /\ pc' = [pc EXCEPT ![r] = next]
  /\ answer' = [answer EXCEPT ![r] = resp]

Goto(r, next) ==
  /\ pc' = [pc EXCEPT ![r] = next]
  /\ UNCHANGED answer

-----------------------------------------------------------------------------
(* handleCreatePayment up to IdempotencyService.Check *)

Arrive(r) ==
  /\ pc[r] = "idle"
  /\ \E q \in Request : req' = [req EXCEPT ![r] = q]
  /\ Goto(r, "claim")
  /\ UNCHANGED <<tables, sweepers>>

\* No Idempotency-Key header, or a body that cannot be read.
RejectUnkeyed(r) ==
  /\ pc[r] = "idle"
  /\ \E code \in {"missing_idempotency_key", "invalid_request"} :
       Reply(r, "refused", Error(400, code))
  /\ UNCHANGED <<tables, req, sweepers>>

\* MUTANT of InsertKey: a failed key may be claimed again.
InsertOrReclaimKey(r) ==
  /\ pc[r] = "claim"
  /\ keys[Key(r)].status \in {"absent", "failed"}
  /\ keys' = [keys EXCEPT ![Key(r)] =
                [status |-> "pending", hash |-> Body(r), payment |-> None,
                 response |-> None]]
  /\ \/ Goto(r, "work")
     \/ Reply(r, "refused", Internal)
  /\ UNCHANGED <<payments, opened, age, req, sweepers>>

\* INSERT ... ON CONFLICT DO NOTHING finds no row: the key is claimed.  If
\* the answer of the statement is lost, Check fails and the key has no owner.
InsertKey(r) ==
  /\ pc[r] = "claim"
  /\ keys[Key(r)].status = "absent"
  /\ keys' = [keys EXCEPT ![Key(r)] =
                [status |-> "pending", hash |-> Body(r), payment |-> None,
                 response |-> None]]
  /\ \/ Goto(r, "work")
     \/ Reply(r, "refused", Internal)
  /\ UNCHANGED <<payments, opened, age, req, sweepers>>

\* The INSERT finds a row: ErrIdempotencyKeyExists.
KeyConflict(r) ==
  /\ pc[r] = "claim"
  /\ keys[Key(r)].status # "absent"
  /\ Goto(r, "lookup")
  /\ UNCHANGED <<tables, req, sweepers>>

\* MUTANT of GetKey: the stored hash is not compared with the body's.
GetKeyAnyBody(r) ==
  /\ pc[r] = "lookup"
  /\ LET row == keys[Key(r)] IN
       \/ /\ row.status = "pending"
          /\ Reply(r, "refused", Error(409, "request_in_flight"))
       \/ /\ row.status \in {"completed", "failed"}
          /\ Reply(r, "replayed", row.response)
  /\ UNCHANGED <<tables, req, sweepers>>

\* GetKey, a second statement, and the answer the handler makes of the row:
\* the hash is compared first, then the row's status decides.
GetKey(r) ==
  /\ pc[r] = "lookup"
  /\ LET row == keys[Key(r)] IN
       \/ /\ row.hash # Body(r)
          /\ Reply(r, "refused", Error(422, "idempotency_key_mismatch"))
       \/ /\ row.hash = Body(r)
          /\ row.status = "pending"
          /\ Reply(r, "refused", Error(409, "request_in_flight"))
       \/ /\ row.hash = Body(r)
          /\ row.status \in {"completed", "failed"}
          /\ Reply(r, "replayed", row.response)
  /\ UNCHANGED <<tables, req, sweepers>>

-----------------------------------------------------------------------------
(* handleCreatePayment with the key claimed *)

\* Decoding, the checks of the method's fields, or Create's validation fail.
RejectRequest(r) ==
  /\ pc[r] = "work"
  /\ Verdict(r) # None
  /\ Reply(r, "fail", Verdict(r))
  /\ UNCHANGED <<tables, req, sweepers>>

\* A card number shorter than four digits that passes the Luhn check makes
\* CardNumber[len-4:] panic; net/http recovers and drops the connection.
Panic(r) ==
  /\ pc[r] = "work"
  /\ Verdict(r) = None
  /\ BodyKind[Body(r)] = "short_card"
  /\ Goto(r, "crashed")
  /\ UNCHANGED <<tables, req, sweepers>>

\* MUTANT of InsertPayment: the error of repo.Insert is dropped.
InsertPaymentUnchecked(r) ==
  /\ pc[r] = "work"
  /\ Verdict(r) = None
  /\ BodyKind[Body(r)] = "valid"
  /\ payments' \in {payments, payments \cup {r}}
  /\ Goto(r, "event")
  /\ UNCHANGED <<opened, keys, age, req, sweepers>>

\* repo.Insert.  An error after the row was written leaves the row behind.
InsertPayment(r) ==
  /\ pc[r] = "work"
  /\ Verdict(r) = None
  /\ BodyKind[Body(r)] = "valid"
  /\ payments' = payments \cup {r}
  /\ \/ Goto(r, "event")
     \/ Reply(r, "fail", Internal)
  /\ UNCHANGED <<opened, keys, age, req, sweepers>>

\* createEvent.  If it fails, Create fails although the payment exists.
InsertEvent(r) ==
  /\ pc[r] = "event"
  /\ opened' = opened \cup {r}
  /\ \/ Reply(r, "complete", Created(r))
     \/ Reply(r, "fail", Internal)
  /\ UNCHANGED <<payments, keys, age, req, sweepers>>

\* MUTANT of FailKey: a status no other code knows (the column is free TEXT).
FailKeyMisspelt(r) ==
  /\ pc[r] = "fail"
  /\ keys' = [keys EXCEPT ![Key(r)] =
                [status |-> "error", hash |-> @.hash, payment |-> None,
                 response |-> Stored(answer[r])]]
  /\ \E next \in {"done", "crashed"} : Goto(r, next)
  /\ UNCHANGED <<payments, opened, age, req, sweepers>>

\* IdempotencyService.Fail, whatever the row's status is by now, and the
\* answer, unless the handler dies in between.
FailKey(r) ==
  /\ pc[r] = "fail"
  /\ keys' = [keys EXCEPT ![Key(r)] =
                [status |-> "failed", hash |-> @.hash, payment |-> None,
                 response |-> Stored(answer[r])]]
  /\ \E next \in {"done", "crashed"} : Goto(r, next)
  /\ UNCHANGED <<payments, opened, age, req, sweepers>>

\* IdempotencyService.Complete, whatever the row's status is by now.
CompleteKey(r) ==
  /\ pc[r] = "complete"
  /\ keys' = [keys EXCEPT ![Key(r)] =
                [status |-> "completed", hash |-> @.hash, payment |-> r,
                 response |-> answer[r]]]
  /\ \E next \in {"done", "crashed"} : Goto(r, next)
  /\ UNCHANGED <<payments, opened, age, req, sweepers>>

-----------------------------------------------------------------------------
(* Failures of a handler *)

\* A statement fails without effect.  Check answers 500; Insert (or uuid, or
\* a CHECK constraint) and createEvent fail Create; the errors of Fail and
\* Complete are ignored and the answer goes out all the same.
StatementFails(r) ==
  /\ \/ /\ pc[r] \in {"claim", "lookup"}
        /\ Reply(r, "refused", Internal)
     \/ /\ pc[r] = "work"
        /\ Verdict(r) = None
        /\ BodyKind[Body(r)] = "valid"
        /\ Reply(r, "fail", Internal)
     \/ /\ pc[r] = "event"
        /\ Reply(r, "fail", Internal)
     \/ /\ pc[r] \in {"fail", "complete"}
        /\ Goto(r, "done")
  /\ UNCHANGED <<tables, req, sweepers>>

\* The handler dies: its process crashes or is killed.
Crash(r) ==
  /\ pc[r] \in Active
  /\ Goto(r, "crashed")
  /\ UNCHANGED <<tables, req, sweepers>>

\* No handler is still working on behalf of the key.
Abandoned(k) == \A r \in Requests : pc[r] \in Working => Key(r) # k

\* Time passes.  Handlers have no deadline (WriteTimeout does not cancel the
\* request's context), so only the assumption ~SlowHandlers holds it back.
GrowOld(k) ==
  /\ keys[k].status # "absent"
  /\ age[k] < Expired
  /\ SlowHandlers \/ Abandoned(k)
  /\ age' = [age EXCEPT ![k] = @ + 1]
  /\ UNCHANGED <<payments, opened, keys, handlers, sweepers>>

-----------------------------------------------------------------------------
(* Recovery *)

\* What a sweep does after its last key: the startup sweep returns, the
\* worker waits for the next tick.
Rest(s) == IF s \in StartupSweeps THEN "finished" ELSE "ready"

\* MUTANT of Eligible: the worker, too, looks at the last 24 hours only.
EligibleToday(s) ==
  {k \in Keys : keys[k].status = "pending" /\ age[k] = Stuck}

\* MUTANT of Eligible: no minimum age.
EligibleAtOnce(s) ==
  {k \in Keys : keys[k].status = "pending"}

\* The WHERE clause of fetchStuckKeys and of fetchAllStuckKeys.
Eligible(s) ==
  {k \in Keys : /\ keys[k].status = "pending"
                /\ age[k] >= Stuck
                /\ s \in StartupSweeps => age[k] < Expired}

\* Rows another statement may be holding at this moment: SKIP LOCKED passes
\* over them.
Contended(s, k) ==
  \/ \E t \in Sweeps \ {s} : \/ sweep[t] = "ready"
                             \/ \E e \in batch[t] : e.key = k
  \/ \E r \in Requests : pc[r] \in {"fail", "complete"} /\ Key(r) = k

\* The query of a sweep: SweepLimit of the eligible keys, oldest first.  It
\* runs outside a transaction, so its row locks are gone when it returns.
Fetch(s) ==
  /\ sweep[s] = "ready"
  /\ \E skipped \in SUBSET {k \in Eligible(s) : Contended(s, k)} :
     LET free == Eligible(s) \ skipped IN
     \E found \in SUBSET free :
       /\ \/ found = free /\ Cardinality(free) <= SweepLimit
          \/ Cardinality(found) = SweepLimit
       /\ \A k \in found, l \in free \ found : age[k] >= age[l]
       /\ batch' = [batch EXCEPT ![s] =
                      {[key |-> k, payment |-> keys[k].payment] : k \in found}]
       /\ sweep' = [sweep EXCEPT ![s] =
                      IF found = {} THEN Rest(s) ELSE "sweeping"]
  /\ UNCHANGED <<tables, handlers, recovered>>

\* The sweep is through with one of its keys.
Next1(s, e) ==
  /\ batch' = [batch EXCEPT ![s] = @ \ {e}]
  /\ sweep' = [sweep EXCEPT ![s] =
                 IF batch[s] = {e} THEN Rest(s) ELSE "sweeping"]

\* How resolveKey may resolve a key: with a payment it tries to rebuild the
\* response, and falls back to "failed" if fetchPayment fails.
Resolutions(e) ==
  IF e.payment = None THEN {"failed"} ELSE {"completed", "failed"}

\* The columns markFailed and markCompleted write.
ResolvedRow(e, outcome) ==
  LET row == keys[e.key] IN
  IF outcome = "failed"
    THEN [status |-> "failed", hash |-> row.hash, payment |-> row.payment,
          response |-> Error(500, "processing_timeout")]
    ELSE [status |-> "completed", hash |-> row.hash, payment |-> e.payment,
          response |-> Created(e.payment)]

\* MUTANT of Mark: the guard AND status = 'pending' is missing.
MarkUnguarded(e, outcome) ==
  /\ keys' = [keys EXCEPT ![e.key] = ResolvedRow(e, outcome)]
  /\ recovered' = [recovered EXCEPT ![e.key] = @ + 1]

\* markFailed and markCompleted: UPDATE ... WHERE key AND status = 'pending';
\* the counter is incremented if a row was affected, unless the answer of the
\* UPDATE is lost.
Mark(e, outcome) ==
  IF keys[e.key].status = "pending"
    THEN /\ keys' = [keys EXCEPT ![e.key] = ResolvedRow(e, outcome)]
         /\ \/ recovered' = [recovered EXCEPT ![e.key] = @ + 1]
            \/ recovered' = recovered
    ELSE UNCHANGED <<keys, recovered>>

\* One turn of the sweep's loop (in any order of the keys fetched).
Resolve(s) ==
  /\ \E e \in batch[s] :
       /\ \E outcome \in Resolutions(e) : Mark(e, outcome)
       /\ Next1(s, e)
  /\ UNCHANGED <<payments, opened, age, handlers>>

\* resolveKey fails without effect: counted, logged, and the loop goes on.
ResolveFails(s) ==
  /\ \E e \in batch[s] : Next1(s, e)
  /\ UNCHANGED <<tables, handlers, recovered>>

\* The startup sweep's query fails: main logs it and starts the server.
FetchFails(s) ==
  /\ s \in StartupSweeps
  /\ sweep[s] = "ready"
  /\ sweep' = [sweep EXCEPT ![s] = "finished"]
  /\ UNCHANGED <<tables, handlers, recovered, batch>>

\* The process stops and is started again: both sweeps run from the start.
Restart(s) ==
  /\ sweep[s] # "ready"
  /\ sweep' = [sweep EXCEPT ![s] = "ready"]
  /\ batch' = [batch EXCEPT ![s] = {}]
  /\ UNCHANGED <<tables, handlers, recovered>>

-----------------------------------------------------------------------------

HandlerStep(r) ==
  \/ InsertKey(r)
  \/ KeyConflict(r)
  \/ GetKey(r)
  \/ RejectRequest(r)
  \/ Panic(r)
  \/ InsertPayment(r)
  \/ InsertEvent(r)
  \/ FailKey(r)
  \/ CompleteKey(r)

SweepStep(s) ==
  \/ Fetch(s)
  \/ Resolve(s)
  \/ ResolveFails(s)
  \/ FetchFails(s)
  \/ Restart(s)

Next ==
  \/ \E r \in Requests : \/ Arrive(r)
                         \/ RejectUnkeyed(r)
                         \/ HandlerStep(r)
                         \/ StatementFails(r)
                         \/ Crash(r)
  \/ \E k \in Keys : GrowOld(k)
  \/ \E s \in Sweeps : SweepStep(s)

Spec == Init /\ [][Next]_vars

\* Handlers run on, time passes, the worker's ticker fires, and its UPDATEs
\* do not fail for ever.
FairSpec ==
  /\ Spec
  /\ \A r \in Requests : WF_vars(HandlerStep(r))
  /\ \A k \in Keys : WF_vars(GrowOld(k))
  /\ \A s \in Workers : WF_vars(Fetch(s)) /\ SF_vars(Resolve(s))

-----------------------------------------------------------------------------
(* Properties *)

\* Types of the tables and of the local state of handlers and sweeps.
TypeOK ==
  /\ payments \subseteq Requests
  /\ opened \subseteq Requests
  /\ keys \in [Keys -> KeyRow]
  /\ age \in [Keys -> {Fresh, Stuck, Expired}]
  /\ recovered \in [Keys -> Nat]
  /\ pc \in [Requests -> Active \cup Answered \cup {"idle", "crashed"}]
  /\ req \in [Requests -> Request \cup {None}]
  /\ answer \in [Requests -> Response \cup {None}]
  /\ sweep \in [Sweeps -> {"ready", "sweeping", "finished"}]
  /\ batch \in [Sweeps -> SUBSET StuckKey]

\* However often a request is sent again under its key, and whatever fails,
\* at most one payment is created (the INSERT ... ON CONFLICT claim).
OnePaymentPerKey ==
  \A r, q \in payments : Key(r) = Key(q) => r = q

\* A completed key stores the 201 of a payment that exists, that has its
\* creation event, and that was made for this key and this request body.
CompletedKeyNamesItsPayment ==
  \A k \in Keys : keys[k].status = "completed" =>
    \E r \in payments \cap opened :
      /\ Key(r) = k /\ Body(r) = keys[k].hash
      /\ keys[k].payment = r /\ keys[k].response = Created(r)

\* A client told 201, first-hand or by a replay, was told of the payment that
\* its own key and body created.
SuccessNamesOwnPayment ==
  \A r \in Requests : (pc[r] \in Answered /\ answer[r].status = 201) =>
    \E q \in payments : /\ answer[r] = Created(q)
                        /\ Key(q) = Key(r) /\ Body(q) = Body(r)

\* Concurrent sweeps fetch the same keys (the locks of their queries are gone
\* at once), yet each key is resolved, and counted, at most once.
ResolvedOnce == \A k \in Keys : recovered[k] <= 1

\* No sweep and no late handler ever overwrites a completed key.
CompletedIsFinal ==
  [][\A k \in Keys : keys[k].status = "completed" => keys'[k] = keys[k]]_vars

\* Seen by key, the service implements AtMostOncePayment.
Register == INSTANCE AtMostOncePayment WITH
  made <- [k \in Keys |-> {r \in payments : Key(r) = k}],
  outcome <- [k \in Keys |-> keys[k].status]
RegisterSpec == Register!Spec

\* Every key that is pending is eventually resolved, by its handler or by the
\* worker, however old it has grown in the meantime.
EveryKeyResolved ==
  \A k \in Keys :
    keys[k].status = "pending" ~> keys[k].status \in {"completed", "failed"}

\* A resolved key is never overwritten (startup.go: "guard - don't overwrite
\* if already resolved").  It holds only if no handler outlives sweepMinAge.
ResolvedIsFinal ==
  [][\A k \in Keys : keys[k].status \in {"completed", "failed"} =>
       keys'[k] = keys[k]]_vars

\* Two replays of one key are the same response.  It holds only if no
\* handler outlives sweepMinAge.
ReplaysAgree ==
  \A r, q \in Requests :
    (pc[r] = "replayed" /\ pc[q] = "replayed" /\ Key(r) = Key(q)) =>
      answer[r] = answer[q]

\* VIOLATED.  startup.go stores "request did not complete" under the keys it
\* resolves: a key failed by a sweep has no payment.
TimedOutKeyHasNoPayment ==
  \A k \in Keys : keys[k].response = Error(500, "processing_timeout") =>
    \A r \in payments : Key(r) # k

\* VIOLATED.  service/idempotency.go stores "exact response body to return":
\* a replay repeats what the handler that owned the key answered.
ReplayRepeatsAnswer ==
  \A r, q \in Requests :
    (pc[r] = "done" /\ pc[q] = "replayed" /\ Key(r) = Key(q)) =>
      answer[q] = answer[r]

=============================================================================
