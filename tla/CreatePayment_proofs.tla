------------------------ MODULE CreatePayment_proofs ------------------------
(***************************************************************************)
(* Proofs about CreatePayment, for any requests, keys, bodies and sweeps.  *)
(*                                                                         *)
(* A claimant is a handler that inserted the row of its key, until it      *)
(* returns, and for ever if it created a payment.  INSERT ... ON CONFLICT  *)
(* DO NOTHING gives each key at most one claimant (Claiming); everything   *)
(* else follows from that: one payment per key, and a completed key has no *)
(* handler left that could overwrite it (Outcomes).                        *)
(***************************************************************************)
EXTENDS CreatePayment, TLAPS

Claimants == payments \cup {r \in Requests : pc[r] \in Working}

\* What a handler has done, by the statement it is at.
Progress ==
  \A r \in Requests :
    /\ pc[r] \notin {"idle", "refused"} => req[r] \in Request
    /\ r \in payments => pc[r] \in {"event", "fail", "complete", "done", "crashed"}
    /\ pc[r] \in {"event", "complete"} => r \in payments
    /\ pc[r] = "complete" => r \in opened /\ answer[r] = Created(r)
    /\ pc[r] = "fail" => answer[r] \in Response /\ answer[r].status # 201

\* Every key has at most one claimant, whose body the key's row records.
Claiming ==
  /\ \A r \in Claimants : /\ keys[Key(r)].status # "absent"
                          /\ keys[Key(r)].hash = Body(r)
  /\ \A r, q \in Claimants : Key(r) = Key(q) => r = q

\* What the row of a key says of its past.
Outcome(k) ==
  /\ keys[k].status \in {"absent", "pending"} =>
       keys[k].payment = None /\ recovered[k] = 0
  /\ recovered[k] <= 1
  /\ keys[k].status = "failed" =>
       keys[k].response \in Response /\ keys[k].response.status # 201
  /\ keys[k].status = "completed" =>
       \E r \in payments \cap opened :
         /\ Key(r) = k /\ Body(r) = keys[k].hash
         /\ keys[k].payment = r /\ keys[k].response = Created(r)
         /\ pc[r] \notin Working

Outcomes == \A k \in Keys : Outcome(k)

\* The keys that a sweep fetched exist, and had no payment.
Sweeping ==
  \A s \in Sweeps : \A e \in batch[s] :
    e.payment = None /\ keys[e.key].status # "absent"

IInv == TypeOK /\ Progress /\ Claiming /\ Outcomes /\ Sweeping

\* A handler that answered sent a response, and a 201 is that of the payment
\* made for its own key and body.
Answering ==
  \A r \in Requests : pc[r] \in Answered =>
    /\ answer[r] \in Response
    /\ answer[r].status = 201 =>
         \E q \in payments : /\ answer[r] = Created(q) /\ pc[r] # "refused"
                             /\ Key(q) = Key(r) /\ Body(q) = Body(r)

\* If no handler outlives sweepMinAge, nobody works any more for a key that
\* is resolved, old enough to be swept, or in the hands of a sweep.
Timely ==
  \A k \in Keys :
    /\ age[k] # Fresh => keys[k].status # "absent"
    /\ \/ keys[k].status \in {"completed", "failed"}
       \/ age[k] # Fresh
       \/ \E s \in Sweeps : \E e \in batch[s] : e.key = k
       => Abandoned(k)

\* A replay is what the row of the key still says.
Replaying ==
  \A r \in Requests : pc[r] = "replayed" =>
    /\ keys[Key(r)].status \in {"completed", "failed"}
    /\ answer[r] = keys[Key(r)].response

-----------------------------------------------------------------------------
(* Responses and rows *)

\* An error response is a response, and none of them is a 201.
LEMMA ErrorType ==
  ASSUME NEW status \in {400, 409, 415, 422, 500}, NEW code \in Codes
  PROVE  Error(status, code) \in Response /\ Error(status, code).status # 201
BY DEF Error, Response

\* The answers handleCreatePayment makes itself.
LEMMA AnswerType ==
  /\ Internal \in Response /\ Internal.status # 201
  /\ \A r \in Requests : Created(r) \in Response /\ Created(r).status = 201
  /\ \A resp : Stored(resp) \in Response /\ Stored(resp).status # 201
  /\ Error(500, "processing_timeout") \in Response
  /\ Error(500, "processing_timeout").status # 201
<1>1. \A r \in Requests : Created(r) \in Response /\ Created(r).status = 201
  BY DEF Created, Response, Codes
<1>2. {"internal_error", "invalid_request", "payment_failed", "processing_timeout"} \subseteq Codes
  BY DEF Codes
<1> QED
  BY <1>1, <1>2, ErrorType DEF Internal, Stored

\* What validation answers is an error.
LEMMA VerdictType ==
  ASSUME NEW r \in Requests, Verdict(r) # None
  PROVE  Verdict(r) \in Response /\ Verdict(r).status # 201
<1>1. {"unsupported_media_type", "invalid_request", "invalid_amount", "invalid_upi_id"}
        \subseteq Codes
  BY DEF Codes
<1>2. Verdict(r) \in {Error(415, "unsupported_media_type"), Error(400, "invalid_request"),
                      Error(400, "invalid_amount"), Error(400, "invalid_upi_id"),
                      Internal, None}
  BY DEF Verdict
<1> QED
  BY <1>1, <1>2, ErrorType, AnswerType

\* A row with a known status, the hash of another row, and a response is a row.
LEMMA RowType ==
  ASSUME NEW row \in KeyRow, NEW s \in KeyStatuses, NEW p \in Requests \cup {None},
         NEW resp \in Response \cup {None}
  PROVE  [status |-> s, hash |-> row.hash, payment |-> p, response |-> resp] \in KeyRow
BY DEF KeyRow

-----------------------------------------------------------------------------
(* Steps *)

\* A step of handler r that changes no table and claims no key.
QuietStep(r, next) ==
  /\ pc[r] \in Active \cup {"idle"}
  /\ pc' = [pc EXCEPT ![r] = next]
  /\ UNCHANGED <<tables, sweepers>>
  /\ \/ UNCHANGED req /\ (pc[r] = "idle" => next = "refused")
     \/ pc[r] = "idle" /\ next = "claim" /\ \E q \in Request : req' = [req EXCEPT ![r] = q]
  /\ \/ pc[r] \in {"idle", "claim", "lookup"} /\ next \in {"claim", "lookup", "refused", "replayed", "crashed"}
     \/ pc[r] \in {"work", "event"} /\ next \in {"fail", "crashed"}
     \/ pc[r] \in {"fail", "complete"} /\ next \in {"done", "crashed"}
  /\ answer' = [answer EXCEPT ![r] = answer'[r]]
  /\ \/ UNCHANGED answer /\ next \notin {"refused", "replayed", "fail"}
     \/ /\ next \in {"refused", "fail"}
        /\ answer'[r] \in Response /\ answer'[r].status # 201
     \/ /\ pc[r] = "lookup" /\ next = "replayed"
        /\ keys[Key(r)].status \in {"completed", "failed"} /\ keys[Key(r)].hash = Body(r)
        /\ answer'[r] = keys[Key(r)].response

\* A step of a sweep that resolves no key.
IdleSweepStep ==
  /\ UNCHANGED <<tables, handlers, recovered>>
  /\ sweep' \in [Sweeps -> {"ready", "sweeping", "finished"}]
  /\ \E s \in Sweeps : \E rest \in SUBSET batch[s] : batch' = [batch EXCEPT ![s] = rest]

\* Each of the handler's steps that only answers is a quiet step.
LEMMA QuietSteps ==
  ASSUME TypeOK, NEW r \in Requests,
         \/ Arrive(r) \/ RejectUnkeyed(r) \/ KeyConflict(r) \/ GetKey(r)
         \/ RejectRequest(r) \/ Panic(r) \/ StatementFails(r) \/ Crash(r)
  PROVE  \E next : QuietStep(r, next)
<1>0. answer \in [Requests -> Response \cup {None}]
  BY DEF TypeOK
<1> USE <1>0 DEF QuietStep, Goto, Reply, Active, Working
<1>1. {"missing_idempotency_key", "invalid_request", "idempotency_key_mismatch",
       "request_in_flight"} \subseteq Codes
  BY DEF Codes
<1>2. CASE Arrive(r)
  <2>1. QuietStep(r, "claim")
    BY <1>2 DEF Arrive
  <2> QED
    BY <2>1
<1>3. CASE RejectUnkeyed(r)
  <2>1. QuietStep(r, "refused")
    BY <1>1, <1>3, ErrorType DEF RejectUnkeyed
  <2> QED
    BY <2>1
<1>4. CASE KeyConflict(r)
  <2>1. QuietStep(r, "lookup")
    BY <1>4 DEF KeyConflict
  <2> QED
    BY <2>1
<1>5. CASE GetKey(r)
  <2>1. QuietStep(r, "refused") \/ QuietStep(r, "replayed")
    BY <1>1, <1>5, ErrorType DEF GetKey
  <2> QED
    BY <2>1
<1>6. CASE RejectRequest(r)
  <2>1. QuietStep(r, "fail")
    BY <1>6, VerdictType DEF RejectRequest
  <2> QED
    BY <2>1
<1>7. CASE Panic(r) \/ Crash(r)
  <2>1. QuietStep(r, "crashed")
    BY <1>7 DEF Panic, Crash
  <2> QED
    BY <2>1
<1>8. CASE StatementFails(r)
  <2>1. QuietStep(r, "refused") \/ QuietStep(r, "fail") \/ QuietStep(r, "done")
    BY <1>8, AnswerType DEF StatementFails
  <2> QED
    BY <2>1
<1> QED
  BY <1>2, <1>3, <1>4, <1>5, <1>6, <1>7, <1>8

\* A step of the system is a quiet step, one of the handler's writes, time
\* passing, or a step of a sweep.
LEMMA StepCases ==
  ASSUME TypeOK, [Next]_vars
  PROVE  \/ \E r \in Requests : \/ \E next : QuietStep(r, next)
                                \/ InsertKey(r) \/ InsertPayment(r) \/ InsertEvent(r)
                                \/ FailKey(r) \/ CompleteKey(r)
         \/ \E k \in Keys : GrowOld(k)
         \/ \E s \in Sweeps : Fetch(s) \/ Resolve(s)
         \/ IdleSweepStep
         \/ UNCHANGED vars
<1>1. ASSUME NEW s \in Sweeps, ResolveFails(s) \/ FetchFails(s) \/ Restart(s)
      PROVE  IdleSweepStep
  <2>1. UNCHANGED <<tables, handlers, recovered>>
    BY <1>1 DEF ResolveFails, FetchFails, Restart
  <2>2. sweep' \in [Sweeps -> {"ready", "sweeping", "finished"}]
    BY <1>1 DEF TypeOK, ResolveFails, FetchFails, Restart, Next1, Rest
  <2>3. \E rest \in SUBSET batch[s] : batch' = [batch EXCEPT ![s] = rest]
    BY <1>1 DEF TypeOK, ResolveFails, FetchFails, Restart, Next1
  <2> QED
    BY <2>1, <2>2, <2>3 DEF IdleSweepStep
<1> QED
  BY <1>1, QuietSteps DEF Next, HandlerStep, SweepStep

\* What the query of a sweep leaves in its batch: pending keys, old enough,
\* with the payment_id of their rows.
LEMMA FetchEffect ==
  ASSUME TypeOK, NEW s \in Sweeps, Fetch(s)
  PROVE  /\ UNCHANGED <<tables, handlers, recovered>>
         /\ sweep' \in [Sweeps -> {"ready", "sweeping", "finished"}]
         /\ batch' = [batch EXCEPT ![s] = batch'[s]]
         /\ batch'[s] \in SUBSET StuckKey
         /\ \A e \in batch'[s] : /\ keys[e.key].status = "pending"
                                 /\ keys[e.key].payment = e.payment
                                 /\ age[e.key] # Fresh
<1>1. PICK found \in SUBSET Eligible(s) :
        /\ batch' = [batch EXCEPT ![s] =
                       {[key |-> k, payment |-> keys[k].payment] : k \in found}]
        /\ sweep' = [sweep EXCEPT ![s] = IF found = {} THEN Rest(s) ELSE "sweeping"]
  BY DEF Fetch
<1>2. batch'[s] = {[key |-> k, payment |-> keys[k].payment] : k \in found}
  BY <1>1 DEF TypeOK
<1>3. \A k \in found : /\ k \in Keys /\ keys[k].status = "pending" /\ age[k] # Fresh
                       /\ keys[k].payment \in Requests \cup {None}
  BY DEF Eligible, Stuck, Fresh, TypeOK, KeyRow
<1>4. sweep' \in [Sweeps -> {"ready", "sweeping", "finished"}]
  BY <1>1 DEF TypeOK, Rest
<1>5. /\ batch'[s] \in SUBSET StuckKey
      /\ \A e \in batch'[s] : /\ keys[e.key].status = "pending"
                              /\ keys[e.key].payment = e.payment
                              /\ age[e.key] # Fresh
  BY <1>2, <1>3 DEF StuckKey
<1>6. batch' = [batch EXCEPT ![s] = batch'[s]]
  BY <1>1, <1>2
<1> QED
  BY <1>4, <1>5, <1>6 DEF Fetch

\* The row of a key that a sweep gave up.
TimedOut(row) ==
  [status |-> "failed", hash |-> row.hash, payment |-> row.payment,
   response |-> Error(500, "processing_timeout")]

\* A turn of a sweep's loop: no stuck key has a payment, so what a sweep
\* resolves it fails, and only if it is still pending.
LEMMA ResolveEffect ==
  ASSUME TypeOK, Sweeping, NEW s \in Sweeps, Resolve(s)
  PROVE  /\ UNCHANGED <<payments, opened, age, handlers>>
         /\ sweep' \in [Sweeps -> {"ready", "sweeping", "finished"}]
         /\ \E rest \in SUBSET batch[s] : batch' = [batch EXCEPT ![s] = rest]
         /\ \/ UNCHANGED <<keys, recovered>>
            \/ \E e \in batch[s] :
                 /\ e.key \in Keys /\ keys[e.key].status = "pending"
                 /\ keys' = [keys EXCEPT ![e.key] = TimedOut(@)]
                 /\ \/ recovered' = [recovered EXCEPT ![e.key] = @ + 1]
                    \/ recovered' = recovered
<1>1. PICK e \in batch[s] : (\E outcome \in Resolutions(e) : Mark(e, outcome)) /\ Next1(s, e)
  BY DEF Resolve
<1>2. e.payment = None /\ e.key \in Keys
  BY DEF Sweeping, TypeOK, StuckKey
<1>3. Mark(e, "failed")
  BY <1>1, <1>2 DEF Resolutions
<1>4. sweep' \in [Sweeps -> {"ready", "sweeping", "finished"}]
  BY <1>1 DEF TypeOK, Next1, Rest
<1>5. \E rest \in SUBSET batch[s] : batch' = [batch EXCEPT ![s] = rest]
  BY <1>1 DEF Next1
<1> QED
  BY <1>2, <1>3, <1>4, <1>5 DEF Resolve, Mark, ResolvedRow, TimedOut

\* A sweep never touches a row that is not pending, and keeps its hash.
LEMMA ResolveKeeps ==
  ASSUME TypeOK, Sweeping, NEW s \in Sweeps, Resolve(s), NEW k \in Keys
  PROVE  /\ keys'[k].hash = keys[k].hash
         /\ keys[k].status # "pending" => keys'[k] = keys[k] /\ recovered'[k] = recovered[k]
         /\ keys[k].status # "absent" => keys'[k].status # "absent"
<1>1. CASE UNCHANGED <<keys, recovered>>
  BY <1>1
<1>2. ASSUME NEW l \in Keys, keys[l].status = "pending",
             keys' = [keys EXCEPT ![l] = TimedOut(@)],
             \/ recovered' = [recovered EXCEPT ![l] = @ + 1]
             \/ recovered' = recovered
      PROVE  /\ keys'[k].hash = keys[k].hash
             /\ keys[k].status # "pending" => keys'[k] = keys[k] /\ recovered'[k] = recovered[k]
             /\ keys[k].status # "absent" => keys'[k].status # "absent"
  <2>1. CASE k = l
    BY <1>2, <2>1 DEF TypeOK, TimedOut
  <2>2. CASE k # l
    BY <1>2, <2>2 DEF TypeOK
  <2> QED
    BY <2>1, <2>2
<1> QED
  BY <1>1, <1>2, ResolveEffect

\* Init establishes the invariants.
LEMMA InitInvariant == Init => IInv /\ Answering /\ Timely /\ Replaying
<1>1. NoRow \in KeyRow
  BY DEF NoRow, KeyRow, KeyStatuses
<1> QED
  BY <1>1 DEF Init, IInv, TypeOK, Progress, Claiming, Claimants, Outcomes, Outcome, Sweeping,
              Answering,
              Timely, Replaying, Abandoned, NoRow, Working, Active, Answered, Fresh

\* Every step keeps every variable in its type.
LEMMA TypeStep == IInv /\ [Next]_vars => TypeOK'
<1> SUFFICES ASSUME IInv, [Next]_vars PROVE TypeOK'
  OBVIOUS
<1> USE DEF IInv, TypeOK, Key, Body, Active, Working, Answered
<1>1. ASSUME NEW r \in Requests, NEW next, QuietStep(r, next)
      PROVE  TypeOK'
  <2>1. req' \in [Requests -> Request \cup {None}]
    BY <1>1 DEF QuietStep
  <2>2. answer'[r] \in Response \cup {None}
    <3>1. CASE answer'[r] = keys[Key(r)].response /\ pc[r] = "lookup"
      <4>1. Key(r) \in Keys
        BY <3>1 DEF Progress, Request
      <4> QED
        BY <3>1, <4>1 DEF KeyRow
    <3> QED
      BY <1>1, <3>1 DEF QuietStep
  <2> QED
    BY <1>1, <2>1, <2>2 DEF QuietStep, tables, sweepers
<1>2. ASSUME NEW r \in Requests, InsertKey(r)
      PROVE  TypeOK'
  <2>1. Key(r) \in Keys /\ Body(r) \in Bodies
    BY <1>2 DEF InsertKey, Progress, Request
  <2>2. [status |-> "pending", hash |-> Body(r), payment |-> None, response |-> None] \in KeyRow
    BY <2>1 DEF KeyRow, KeyStatuses
  <2>3. keys' \in [Keys -> KeyRow]
    BY <1>2, <2>1, <2>2 DEF InsertKey
  <2> QED
    BY <1>2, <2>3, AnswerType DEF InsertKey, Goto, Reply, sweepers
<1>3. ASSUME NEW r \in Requests, InsertPayment(r) \/ InsertEvent(r)
      PROVE  TypeOK'
  BY <1>3, AnswerType DEF InsertPayment, InsertEvent, Goto, Reply, sweepers
<1>4. ASSUME NEW r \in Requests, FailKey(r)
      PROVE  TypeOK'
  <2>1. Key(r) \in Keys
    BY <1>4 DEF FailKey, Progress, Request
  <2>2. keys' \in [Keys -> KeyRow]
    <3>1. [status |-> "failed", hash |-> keys[Key(r)].hash, payment |-> None,
           response |-> Stored(answer[r])] \in KeyRow
      <4>1. Stored(answer[r]) \in Response
        BY AnswerType
      <4>2. keys[Key(r)] \in KeyRow /\ "failed" \in KeyStatuses
        BY <2>1 DEF KeyStatuses
      <4> QED
        BY <4>1, <4>2, RowType
    <3> QED
      BY <1>4, <2>1, <3>1 DEF FailKey
  <2> QED
    BY <1>4, <2>2 DEF FailKey, Goto, sweepers
<1>5. ASSUME NEW r \in Requests, CompleteKey(r)
      PROVE  TypeOK'
  <2>1. Key(r) \in Keys
    BY <1>5 DEF CompleteKey, Progress, Request
  <2>2. keys' \in [Keys -> KeyRow]
    <3>1. [status |-> "completed", hash |-> keys[Key(r)].hash, payment |-> r,
           response |-> answer[r]] \in KeyRow
      BY <2>1, RowType DEF KeyStatuses
    <3> QED
      BY <1>5, <2>1, <3>1 DEF CompleteKey
  <2> QED
    BY <1>5, <2>2 DEF CompleteKey, Goto, sweepers
<1>6. ASSUME NEW k \in Keys, GrowOld(k)
      PROVE  TypeOK'
  BY <1>6 DEF GrowOld, handlers, sweepers, Fresh, Stuck, Expired
<1>7. ASSUME NEW s \in Sweeps, Fetch(s)
      PROVE  TypeOK'
  BY <1>7, FetchEffect DEF tables, handlers
<1>8. ASSUME NEW s \in Sweeps, Resolve(s)
      PROVE  TypeOK'
  <2>1. keys' \in [Keys -> KeyRow] /\ recovered' \in [Keys -> Nat]
    <3>1. ASSUME NEW k \in Keys
          PROVE  TimedOut(keys[k]) \in KeyRow
      BY RowType, AnswerType DEF TimedOut, KeyRow, KeyStatuses
    <3> QED
      BY <1>8, <3>1, ResolveEffect
  <2> QED
    BY <1>8, <2>1, ResolveEffect DEF handlers
<1>9. ASSUME IdleSweepStep
      PROVE  TypeOK'
  BY <1>9 DEF IdleSweepStep, tables, handlers
<1>10. CASE UNCHANGED vars
  BY <1>10 DEF vars, tables, handlers, sweepers
<1> QED
  BY <1>1, <1>2, <1>3, <1>4, <1>5, <1>6, <1>7, <1>8, <1>9, <1>10, StepCases

\* Every step keeps what the handlers have done in agreement with where they
\* are: a payment exists from Insert on, its event from createEvent on.
LEMMA ProgressStep == IInv /\ [Next]_vars => Progress'
<1> SUFFICES ASSUME IInv, [Next]_vars PROVE Progress'
  OBVIOUS
<1> USE DEF IInv, TypeOK, Progress, Active, Working
<1>1. ASSUME NEW r \in Requests, NEW next, QuietStep(r, next)
      PROVE  Progress'
  BY <1>1 DEF QuietStep, tables
<1>2. ASSUME NEW r \in Requests, InsertKey(r)
      PROVE  Progress'
  BY <1>2 DEF InsertKey, Goto, Reply
<1>3. ASSUME NEW r \in Requests, InsertPayment(r)
      PROVE  Progress'
  <2>1. Internal \in Response /\ Internal.status # 201
    BY AnswerType
  <2> QED
    BY <1>3, <2>1 DEF InsertPayment, Goto, Reply
<1>4. ASSUME NEW r \in Requests, InsertEvent(r)
      PROVE  Progress'
  <2>1. Internal \in Response /\ Internal.status # 201
    BY AnswerType
  <2> QED
    BY <1>4, <2>1 DEF InsertEvent, Goto, Reply
<1>5. ASSUME NEW r \in Requests, FailKey(r) \/ CompleteKey(r)
      PROVE  Progress'
  BY <1>5 DEF FailKey, CompleteKey, Goto
<1>6. CASE UNCHANGED <<payments, opened, handlers>>
  BY <1>6 DEF handlers
<1> QED
  BY <1>1, <1>2, <1>3, <1>4, <1>5, <1>6, StepCases, ResolveEffect
     DEF GrowOld, Fetch, IdleSweepStep, tables, handlers, vars

\* Every step leaves each key with at most one claimant: InsertKey claims a
\* key that had none, because its row did not exist.
LEMMA ClaimingStep == IInv /\ [Next]_vars => Claiming'
<1> SUFFICES ASSUME IInv, [Next]_vars PROVE Claiming'
  OBVIOUS
<1> USE DEF IInv, TypeOK
<1>0. ASSUME Claimants' \subseteq Claimants, \A r \in Claimants : req'[r] = req[r],
             \A k \in Keys : /\ keys'[k].hash = keys[k].hash
                             /\ keys[k].status # "absent" => keys'[k].status # "absent"
      PROVE  Claiming'
  <2>1. \A r \in Claimants : Key(r) \in Keys
    BY DEF Claimants, Progress, Working, Request, Key
  <2> QED
    BY <1>0, <2>1 DEF Claiming, Key, Body
<1>1. ASSUME NEW r \in Requests, NEW next, QuietStep(r, next)
      PROVE  Claiming'
  <2>1. Claimants' \subseteq Claimants
    BY <1>1 DEF QuietStep, Claimants, Working, Active, tables
  <2>2. \A q \in Claimants : req'[q] = req[q]
    BY <1>1 DEF QuietStep, Claimants, Progress, Working
  <2> QED
    BY <1>0, <1>1, <2>1, <2>2 DEF QuietStep, tables
<1>2. ASSUME NEW r \in Requests, InsertKey(r)
      PROVE  Claiming'
  <2>1. /\ Key(r) \in Keys /\ keys[Key(r)].status = "absent" /\ req' = req
        /\ keys' = [keys EXCEPT ![Key(r)] =
                      [status |-> "pending", hash |-> Body(r), payment |-> None,
                       response |-> None]]
    BY <1>2 DEF InsertKey, Progress, Request, Key, Body
  <2>2. \A q \in Claimants : Key(q) # Key(r) /\ Key(q) \in Keys
    BY <2>1 DEF Claiming, Claimants, Progress, Working, Request, Key
  <2>3. Claimants' \subseteq Claimants \cup {r}
    BY <1>2 DEF InsertKey, Goto, Reply, Claimants, Working
  <2> QED
    BY <2>1, <2>2, <2>3 DEF Claiming, Key, Body
<1>3. ASSUME NEW r \in Requests, InsertPayment(r) \/ InsertEvent(r)
      PROVE  Claiming'
  <2>1. Claimants' \subseteq Claimants
    BY <1>3 DEF InsertPayment, InsertEvent, Goto, Reply, Claimants, Working
  <2> QED
    BY <1>0, <1>3, <2>1 DEF InsertPayment, InsertEvent
<1>4. ASSUME NEW r \in Requests, FailKey(r) \/ CompleteKey(r)
      PROVE  Claiming'
  <2>1. Claimants' \subseteq Claimants /\ req' = req
    BY <1>4 DEF FailKey, CompleteKey, Goto, Claimants, Working
  <2>2. \A k \in Keys : /\ keys'[k].hash = keys[k].hash
                        /\ keys[k].status # "absent" => keys'[k].status # "absent"
    BY <1>4 DEF FailKey, CompleteKey
  <2> QED
    BY <1>0, <2>1, <2>2
<1>5. ASSUME NEW s \in Sweeps, Resolve(s)
      PROVE  Claiming'
  <2>1. Claimants' = Claimants /\ req' = req
    BY <1>5, ResolveEffect DEF Claimants, handlers
  <2>2. \A k \in Keys : /\ keys'[k].hash = keys[k].hash
                        /\ keys[k].status # "absent" => keys'[k].status # "absent"
    BY <1>5, ResolveKeeps
  <2> QED
    BY <1>0, <2>1, <2>2
<1>6. CASE UNCHANGED <<payments, keys, handlers>>
  BY <1>0, <1>6 DEF handlers, Claimants
<1> QED
  BY <1>1, <1>2, <1>3, <1>4, <1>5, <1>6, StepCases
     DEF GrowOld, Fetch, IdleSweepStep, tables, handlers, vars

\* Every step keeps what the sweeps hold in agreement with the rows: an
\* existing key, which had no payment when it was fetched.
LEMMA SweepingStep == IInv /\ [Next]_vars => Sweeping'
<1> SUFFICES ASSUME IInv, [Next]_vars PROVE Sweeping'
  OBVIOUS
<1> USE DEF IInv, TypeOK
<1>0. ASSUME \A k \in Keys : keys[k].status # "absent" => keys'[k].status # "absent",
             \A s \in Sweeps : batch'[s] \subseteq batch[s]
      PROVE  Sweeping'
  BY <1>0 DEF Sweeping, StuckKey
<1>1. ASSUME NEW r \in Requests, \/ InsertKey(r) \/ InsertPayment(r) \/ InsertEvent(r)
                                 \/ FailKey(r) \/ CompleteKey(r)
      PROVE  Sweeping'
  <2>1. UNCHANGED batch
    BY <1>1 DEF InsertKey, InsertPayment, InsertEvent, FailKey, CompleteKey, sweepers
  <2>2. \A k \in Keys : keys[k].status # "absent" => keys'[k].status # "absent"
    BY <1>1 DEF InsertKey, InsertPayment, InsertEvent, FailKey, CompleteKey
  <2> QED
    BY <1>0, <2>1, <2>2
<1>2. ASSUME NEW s \in Sweeps, Fetch(s)
      PROVE  Sweeping'
  <2>1. UNCHANGED keys
    BY <1>2 DEF Fetch, tables
  <2>2. \A e \in batch'[s] : e.payment = None /\ keys[e.key].status # "absent"
    BY <1>2, FetchEffect DEF Outcomes, Outcome, StuckKey
  <2>3. \A t \in Sweeps \ {s} : batch'[t] = batch[t]
    BY <1>2, FetchEffect
  <2> QED
    BY <2>1, <2>2, <2>3 DEF Sweeping
<1>3. ASSUME NEW s \in Sweeps, Resolve(s)
      PROVE  Sweeping'
  <2>1. \A k \in Keys : keys[k].status # "absent" => keys'[k].status # "absent"
    BY <1>3, ResolveKeeps
  <2>2. \A t \in Sweeps : batch'[t] \subseteq batch[t]
    BY <1>3, ResolveEffect
  <2> QED
    BY <1>0, <2>1, <2>2
<1>4. CASE IdleSweepStep
  <2>1. UNCHANGED keys /\ \A t \in Sweeps : batch'[t] \subseteq batch[t]
    BY <1>4 DEF IdleSweepStep, tables
  <2> QED
    BY <1>0, <2>1
<1>5. CASE UNCHANGED <<keys, batch>>
  BY <1>0, <1>5
<1> QED
  BY <1>1, <1>2, <1>3, <1>4, <1>5, StepCases
     DEF QuietStep, GrowOld, tables, sweepers, vars

\* The key of a handler that is still working on it has not been completed:
\* its only claimant is that handler, and it would have returned.
LEMMA WorkingKeyNotCompleted ==
  ASSUME IInv, NEW r \in Requests, pc[r] \in Working
  PROVE  Key(r) \in Keys /\ keys[Key(r)].status \in {"pending", "failed"}
<1>1. Key(r) \in Keys
  BY DEF IInv, Progress, Working, Request, Key
<1>2. r \in Claimants
  BY DEF Claimants
<1>3. keys[Key(r)].status # "absent"
  BY <1>2 DEF IInv, Claiming
<1>4. ASSUME keys[Key(r)].status = "completed"
      PROVE  FALSE
  <2>1. PICK q \in payments : Key(q) = Key(r) /\ pc[q] \notin Working
    BY <1>1, <1>4 DEF IInv, Outcomes, Outcome
  <2> QED
    BY <1>2, <2>1 DEF IInv, Claiming, Claimants
<1> QED
  BY <1>1, <1>3, <1>4 DEF IInv, TypeOK, KeyRow, KeyStatuses

\* No step forgets a payment or an event, gives a payment another request, or
\* puts the handler that created it back to work.
LEMMA PaymentsKept ==
  ASSUME IInv, [Next]_vars
  PROVE  /\ payments \subseteq payments' /\ opened \subseteq opened'
         /\ \A r \in payments : req'[r] = req[r] /\ (pc'[r] \in Working => pc[r] \in Working)
<1> USE DEF IInv, TypeOK, Progress, Working
<1>1. ASSUME NEW r \in Requests, NEW next, QuietStep(r, next)
      PROVE  /\ payments \subseteq payments' /\ opened \subseteq opened'
             /\ \A q \in payments : req'[q] = req[q] /\ (pc'[q] \in Working => pc[q] \in Working)
  BY <1>1 DEF QuietStep, tables, Active
<1>2. ASSUME NEW r \in Requests, \/ InsertKey(r) \/ InsertPayment(r) \/ InsertEvent(r)
                                 \/ FailKey(r) \/ CompleteKey(r)
      PROVE  /\ payments \subseteq payments' /\ opened \subseteq opened'
             /\ \A q \in payments : req'[q] = req[q] /\ (pc'[q] \in Working => pc[q] \in Working)
  BY <1>2 DEF InsertKey, InsertPayment, InsertEvent, FailKey, CompleteKey, Goto, Reply
<1>3. CASE UNCHANGED <<payments, opened, handlers>>
  BY <1>3 DEF handlers
<1> QED
  BY <1>1, <1>2, <1>3, StepCases, ResolveEffect
     DEF GrowOld, Fetch, IdleSweepStep, tables, handlers, vars

\* A key whose row a step does not touch keeps its past.
LEMMA OutcomeKept ==
  ASSUME IInv, [Next]_vars, NEW k \in Keys,
         keys'[k] = keys[k], recovered'[k] = recovered[k]
  PROVE  Outcome(k)'
<1>1. Outcome(k)
  BY DEF IInv, Outcomes
<1>2. ASSUME keys'[k].status = "completed"
      PROVE  \E r \in payments' \cap opened' :
               /\ Key(r)' = k /\ Body(r)' = keys'[k].hash
               /\ keys'[k].payment = r /\ keys'[k].response = Created(r)
               /\ pc'[r] \notin Working
  <2>1. PICK r \in payments \cap opened :
          /\ Key(r) = k /\ Body(r) = keys[k].hash
          /\ keys[k].payment = r /\ keys[k].response = Created(r)
          /\ pc[r] \notin Working
    BY <1>1, <1>2 DEF Outcome
  <2>2. r \in payments' \cap opened' /\ req'[r] = req[r] /\ pc'[r] \notin Working
    BY <2>1, PaymentsKept
  <2> QED
    BY <2>1, <2>2 DEF Key, Body
<1> QED
  BY <1>1, <1>2 DEF Outcome

\* Every step leaves the row of each key truthful: Fail stores an error,
\* Complete the payment of the handler that claimed the key, and a sweep
\* resolves only keys that nobody resolved before.
LEMMA OutcomesStep == IInv /\ [Next]_vars => Outcomes'
<1> SUFFICES ASSUME IInv, [Next]_vars, NEW k \in Keys PROVE Outcome(k)'
  BY DEF Outcomes
<1>0. Outcome(k) /\ TypeOK /\ Sweeping
  BY DEF IInv, Outcomes
<1>1. CASE keys'[k] = keys[k] /\ recovered'[k] = recovered[k]
  BY <1>1, OutcomeKept
<1>2. ASSUME NEW r \in Requests, InsertKey(r), Key(r) = k
      PROVE  Outcome(k)'
  <2>1. /\ keys[k].status = "absent"
        /\ keys'[k] = [status |-> "pending", hash |-> Body(r), payment |-> None,
                       response |-> None]
        /\ recovered' = recovered
    BY <1>0, <1>2 DEF InsertKey, TypeOK, sweepers
  <2> QED
    BY <1>0, <2>1 DEF Outcome
<1>3. ASSUME NEW r \in Requests, FailKey(r), Key(r) = k
      PROVE  Outcome(k)'
  <2>1. /\ keys'[k] = [status |-> "failed", hash |-> keys[k].hash, payment |-> None,
                       response |-> Stored(answer[r])]
        /\ recovered' = recovered
    BY <1>0, <1>3 DEF FailKey, TypeOK, sweepers
  <2>2. Stored(answer[r]) \in Response /\ Stored(answer[r]).status # 201
    BY AnswerType
  <2> QED
    BY <1>0, <2>1, <2>2 DEF Outcome
<1>4. ASSUME NEW r \in Requests, CompleteKey(r), Key(r) = k
      PROVE  Outcome(k)'
  <2>1. /\ keys'[k] = [status |-> "completed", hash |-> keys[k].hash, payment |-> r,
                       response |-> answer[r]]
        /\ UNCHANGED <<recovered, payments, opened, req>>
        /\ pc'[r] \notin Working
    BY <1>0, <1>4 DEF CompleteKey, Goto, TypeOK, sweepers, Working
  <2>2. r \in payments \cap opened /\ answer[r] = Created(r) /\ Body(r) = keys[k].hash
    BY <1>4 DEF IInv, CompleteKey, Progress, Claiming, Claimants
  <2>3. Key(r)' = k /\ Body(r)' = keys'[k].hash
    BY <1>4, <2>1, <2>2 DEF Key, Body
  <2> QED
    BY <1>0, <2>1, <2>2, <2>3 DEF Outcome
<1>5. ASSUME NEW l \in Keys, keys[l].status = "pending",
             keys' = [keys EXCEPT ![l] = TimedOut(@)],
             \/ recovered' = [recovered EXCEPT ![l] = @ + 1]
             \/ recovered' = recovered, l = k
      PROVE  Outcome(k)'
  <2>1. keys'[k] = TimedOut(keys[k]) /\ recovered'[k] \in 0..1
    BY <1>0, <1>5 DEF TypeOK, Outcome
  <2> QED
    BY <2>1, AnswerType DEF Outcome, TimedOut
<1>6. ASSUME NEW s \in Sweeps, Resolve(s)
      PROVE  Outcome(k)'
  <2>1. CASE UNCHANGED <<keys, recovered>>
    BY <1>1, <2>1
  <2>2. ASSUME NEW l \in Keys, keys[l].status = "pending",
               keys' = [keys EXCEPT ![l] = TimedOut(@)],
               \/ recovered' = [recovered EXCEPT ![l] = @ + 1]
               \/ recovered' = recovered, l # k
        PROVE  Outcome(k)'
    BY <1>0, <1>1, <2>2 DEF TypeOK
  <2> QED
    BY <1>0, <1>5, <1>6, <2>1, <2>2, ResolveEffect
<1>7. ASSUME NEW r \in Requests, InsertKey(r) \/ FailKey(r) \/ CompleteKey(r), Key(r) # k
      PROVE  keys'[k] = keys[k] /\ recovered'[k] = recovered[k]
  BY <1>0, <1>7 DEF InsertKey, FailKey, CompleteKey, TypeOK, sweepers
<1> QED
  BY <1>0, <1>1, <1>2, <1>3, <1>4, <1>6, <1>7, StepCases
     DEF QuietStep, InsertPayment, InsertEvent, GrowOld, Fetch, IdleSweepStep, tables, handlers,
         sweepers, vars

\* The inductive invariant holds in every reachable state.
LEMMA Invariance == Spec => []IInv
<1>1. Init => IInv
  BY InitInvariant
<1>2. IInv /\ [Next]_vars => IInv'
  BY TypeStep, ProgressStep, ClaimingStep, OutcomesStep, SweepingStep DEF IInv
<1> QED
  BY <1>1, <1>2, PTL DEF Spec

-----------------------------------------------------------------------------
(* What holds of every instance *)

\* The tables and the local states of handlers and sweeps keep their types.
THEOREM TypeCorrect == Spec => []TypeOK
BY Invariance, PTL DEF IInv

\* However often a request is sent again under its key, and whatever fails or
\* crashes, at most one payment is created for the key.
THEOREM AtMostOnePayment == Spec => []OnePaymentPerKey
<1>1. IInv => OnePaymentPerKey
  BY DEF IInv, Claiming, Claimants, OnePaymentPerKey
<1> QED
  BY <1>1, Invariance, PTL

\* A completed key stores the 201 of the payment that was made for it.
THEOREM CompletedKeysAreTrue == Spec => []CompletedKeyNamesItsPayment
<1>1. IInv => CompletedKeyNamesItsPayment
  BY DEF IInv, Outcomes, Outcome, CompletedKeyNamesItsPayment
<1> QED
  BY <1>1, Invariance, PTL

\* With any number of sweeps at work, each key is resolved by at most one.
THEOREM AtMostOneResolution == Spec => []ResolvedOnce
<1>1. IInv => ResolvedOnce
  BY DEF IInv, Outcomes, Outcome, ResolvedOnce
<1> QED
  BY <1>1, Invariance, PTL

\* Neither a sweep nor a late handler overwrites a completed key.
THEOREM CompletedKeysAreFinal == Spec => CompletedIsFinal
<1>1. ASSUME IInv, [Next]_vars, NEW k \in Keys, keys[k].status = "completed"
      PROVE  keys'[k] = keys[k]
  <2>1. TypeOK /\ Sweeping
    BY <1>1 DEF IInv
  <2>2. ASSUME NEW r \in Requests, InsertKey(r)
        PROVE  keys'[k] = keys[k]
    BY <1>1, <2>1, <2>2 DEF InsertKey, TypeOK
  <2>3. ASSUME NEW r \in Requests, FailKey(r) \/ CompleteKey(r)
        PROVE  keys'[k] = keys[k]
    <3>1. keys[Key(r)].status # "completed"
      BY <1>1, <2>3, WorkingKeyNotCompleted DEF FailKey, CompleteKey, Working
    <3> QED
      BY <1>1, <2>1, <2>3, <3>1 DEF FailKey, CompleteKey, TypeOK
  <2>4. ASSUME NEW s \in Sweeps, Resolve(s)
        PROVE  keys'[k] = keys[k]
    BY <1>1, <2>1, <2>4, ResolveKeeps
  <2> QED
    BY <1>1, <2>1, <2>2, <2>3, <2>4, StepCases
       DEF QuietStep, InsertPayment, InsertEvent, GrowOld, Fetch, IdleSweepStep, tables, vars
<1>2. IInv /\ [Next]_vars =>
        [\A k \in Keys : keys[k].status = "completed" => keys'[k] = keys[k]]_vars
  BY <1>1
<1> QED
  BY <1>2, Invariance, PTL DEF Spec, CompletedIsFinal

\* Every step keeps the answers true: the handler that created a payment may
\* answer 201, and a replay repeats it for the same key and body.
LEMMA AnsweringStep == IInv /\ Answering /\ [Next]_vars => Answering'
<1> SUFFICES ASSUME IInv, Answering, [Next]_vars, NEW q \in Requests, pc'[q] \in Answered
             PROVE  /\ answer'[q] \in Response
                    /\ answer'[q].status = 201 =>
                         \E p \in payments' :
                           /\ answer'[q] = Created(p) /\ pc'[q] # "refused"
                           /\ Key(p)' = Key(q)' /\ Body(p)' = Body(q)'
  BY DEF Answering
<1>0. TypeOK /\ Progress /\ Sweeping
  BY DEF IInv
<1>1. CASE pc'[q] = pc[q] /\ answer'[q] = answer[q] /\ (pc[q] = "refused" \/ req'[q] = req[q])
  <2>1. ASSUME answer[q].status = 201
        PROVE  \E p \in payments' : /\ answer[q] = Created(p) /\ pc[q] # "refused"
                                    /\ Key(p)' = Key(q)' /\ Body(p)' = Body(q)'
    <3>1. PICK p \in payments : /\ answer[q] = Created(p) /\ pc[q] # "refused"
                                /\ Key(p) = Key(q) /\ Body(p) = Body(q)
      BY <1>1, <2>1 DEF Answering
    <3>2. p \in payments' /\ req'[p] = req[p]
      BY PaymentsKept
    <3> QED
      BY <1>1, <3>1, <3>2 DEF Key, Body
  <2> QED
    BY <1>1, <2>1 DEF Answering
<1>2. CASE answer'[q] \in Response /\ answer'[q].status # 201
  BY <1>2
<1>3. ASSUME NEW next, QuietStep(q, next)
      PROVE  \/ answer'[q] \in Response /\ answer'[q].status # 201
             \/ /\ pc[q] = "lookup" /\ answer'[q] = keys[Key(q)].response
                /\ keys[Key(q)].status \in {"completed", "failed"} /\ keys[Key(q)].hash = Body(q)
                /\ UNCHANGED <<payments, req>> /\ pc'[q] = "replayed"
             \/ pc[q] = "fail" /\ answer'[q] = answer[q]
             \/ /\ pc[q] = "complete" /\ answer'[q] = answer[q] /\ UNCHANGED <<payments, req>>
                /\ pc'[q] = "done"
  BY <1>0, <1>3 DEF QuietStep, Answered, Active, Working, tables, TypeOK
<1>4. CASE /\ pc[q] = "lookup" /\ answer'[q] = keys[Key(q)].response
           /\ keys[Key(q)].status \in {"completed", "failed"} /\ keys[Key(q)].hash = Body(q)
           /\ UNCHANGED <<payments, req>> /\ pc'[q] = "replayed"
  <2>1. Key(q) \in Keys /\ Outcome(Key(q))
    BY <1>4 DEF IInv, Progress, Outcomes, Request, Key
  <2>2. CASE keys[Key(q)].status = "failed"
    BY <1>4, <2>1, <2>2 DEF Outcome
  <2>3. CASE keys[Key(q)].status = "completed"
    <3>1. PICK p \in payments : /\ Key(p) = Key(q) /\ Body(p) = Body(q)
                                /\ answer'[q] = Created(p)
      BY <1>4, <2>1, <2>3 DEF Outcome
    <3>2. answer'[q] \in Response
      BY <1>0, <3>1, AnswerType DEF TypeOK
    <3> QED
      BY <1>4, <3>1, <3>2 DEF Key, Body
  <2> QED
    BY <1>4, <2>2, <2>3
<1>5. CASE pc[q] = "fail" /\ answer'[q] = answer[q]
  BY <1>0, <1>5 DEF Progress
<1>6. CASE /\ pc[q] = "complete" /\ answer'[q] = answer[q] /\ UNCHANGED <<payments, req>>
           /\ pc'[q] = "done"
  <2>1. q \in payments /\ answer[q] = Created(q)
    BY <1>0, <1>6 DEF Progress
  <2> QED
    BY <1>6, <2>1, AnswerType DEF Key, Body
<1>7. ASSUME NEW r \in Requests, NEW next, QuietStep(r, next), r # q
      PROVE  pc'[q] = pc[q] /\ answer'[q] = answer[q] /\ req'[q] = req[q]
  BY <1>0, <1>7 DEF QuietStep, TypeOK
<1>8. ASSUME NEW r \in Requests, \/ InsertKey(r) \/ InsertPayment(r) \/ InsertEvent(r)
                                 \/ FailKey(r) \/ CompleteKey(r)
      PROVE  \/ pc'[q] = pc[q] /\ answer'[q] = answer[q] /\ req'[q] = req[q]
             \/ answer'[q] = Internal
             \/ pc[q] = "fail" /\ answer'[q] = answer[q]
             \/ /\ pc[q] = "complete" /\ answer'[q] = answer[q] /\ UNCHANGED <<payments, req>>
                /\ pc'[q] = "done"
  <2>1. CASE r = q
    BY <1>0, <1>8, <2>1 DEF InsertKey, InsertPayment, InsertEvent, FailKey, CompleteKey, Goto,
                           Reply, Answered, TypeOK
  <2>2. CASE r # q
    BY <1>0, <1>8, <2>2 DEF InsertKey, InsertPayment, InsertEvent, FailKey, CompleteKey, Goto,
                           Reply, TypeOK
  <2> QED
    BY <2>1, <2>2
<1>9. CASE UNCHANGED handlers
  BY <1>1, <1>9 DEF handlers
<1>10. ASSUME NEW r \in Requests, NEW next, QuietStep(r, next)
       PROVE  \/ pc'[q] = pc[q] /\ answer'[q] = answer[q] /\ req'[q] = req[q]
              \/ QuietStep(q, next)
  BY <1>7, <1>10
<1>11. Internal \in Response /\ Internal.status # 201
  BY AnswerType
<1> QED
  BY <1>0, <1>1, <1>2, <1>3, <1>4, <1>5, <1>6, <1>8, <1>9, <1>10, <1>11, StepCases,
     ResolveEffect
     DEF GrowOld, Fetch, IdleSweepStep, handlers, vars

\* A client told 201, first-hand or by a replay, was told of the payment that
\* its own key and body created.
THEOREM SuccessIsOwn == Spec => []SuccessNamesOwnPayment
<1>1. Answering => SuccessNamesOwnPayment
  BY DEF Answering, SuccessNamesOwnPayment
<1>2. Init => Answering
  BY InitInvariant
<1> QED
  BY <1>1, <1>2, AnsweringStep, Invariance, PTL DEF Spec

-----------------------------------------------------------------------------
(* Refinement *)

\* The payments made under each key, and the status of each key.
Made == [k \in Keys |-> {r \in payments : Key(r) = k}]
Status == [k \in Keys |-> keys[k].status]

\* Every step is a step of the register of AtMostOncePayment or leaves it alone.
LEMMA RegisterStep == IInv /\ [Next]_vars => [Register!Next]_(Register!register)
<1> SUFFICES ASSUME IInv, [Next]_vars PROVE [Register!Next]_(Register!register)
  OBVIOUS
<1>0. TypeOK /\ Progress /\ Sweeping
  BY DEF IInv
<1>1. \A r \in payments : req'[r] = req[r]
  BY PaymentsKept
<1>2. payments' = payments => Made' = Made
  BY <1>1 DEF Made, Key
<1>3. CASE UNCHANGED <<Made, Status>>
  BY <1>3 DEF Register!register, Made, Status
<1>4. ASSUME NEW r \in Requests, InsertKey(r)
      PROVE  Register!Next
  <2>1. Key(r) \in Keys /\ keys[Key(r)].status = "absent"
    BY <1>0, <1>4 DEF InsertKey, Progress, Request, Key
  <2>2. Status' = [Status EXCEPT ![Key(r)] = "pending"]
    BY <1>0, <1>4, <2>1 DEF InsertKey, TypeOK, Status
  <2>3. PICK k \in Keys : k = Key(r)
    BY <2>1
  <2>4. Register!Claim(k)
    BY <1>2, <1>4, <2>1, <2>2, <2>3 DEF InsertKey, Register!Claim, Made, Status
  <2> QED
    BY <2>4 DEF Register!Next
<1>5. ASSUME NEW r \in Requests, InsertPayment(r)
      PROVE  Register!Next
  <2>1. Key(r) \in Keys /\ keys[Key(r)].status \in {"pending", "failed"}
    BY <1>5, WorkingKeyNotCompleted DEF InsertPayment, Working
  <2>2. Made[Key(r)] = {}
    <3>1. r \in Claimants /\ r \notin payments
      BY <1>0, <1>5 DEF InsertPayment, Claimants, Working, Progress
    <3>2. \A q \in payments : Key(q) # Key(r)
      BY <3>1 DEF IInv, Claiming, Claimants
    <3> QED
      BY <2>1, <3>2 DEF Made
  <2>3. Made' = [Made EXCEPT ![Key(r)] = {r}]
    <3>1. payments' = payments \cup {r} /\ req' = req
      BY <1>5 DEF InsertPayment
    <3>2. \A k \in Keys : Made'[k] = IF k = Key(r) THEN {r} ELSE Made[k]
      BY <2>1, <2>2, <3>1 DEF Made, Key
    <3> QED
      BY <3>2 DEF Made
  <2>4. PICK k \in Keys : k = Key(r)
    BY <2>1
  <2>5. Register!Make(k, r)
    BY <1>5, <2>1, <2>2, <2>3, <2>4 DEF InsertPayment, Register!Make, Made, Status
  <2> QED
    BY <2>5 DEF Register!Next
<1>6. ASSUME NEW r \in Requests, CompleteKey(r)
      PROVE  Register!Next
  <2>1. Key(r) \in Keys /\ keys[Key(r)].status \in {"pending", "failed"}
    BY <1>6, WorkingKeyNotCompleted DEF CompleteKey, Working
  <2>2. r \in Made[Key(r)]
    BY <1>0, <1>6, <2>1 DEF CompleteKey, Progress, Made
  <2>3. Status' = [Status EXCEPT ![Key(r)] = "completed"]
    BY <1>0, <1>6, <2>1 DEF CompleteKey, TypeOK, Status
  <2>4. PICK k \in Keys : k = Key(r)
    BY <2>1
  <2>5. Register!Complete(k)
    BY <1>2, <1>6, <2>1, <2>2, <2>3, <2>4 DEF CompleteKey, Register!Complete, Made, Status
  <2> QED
    BY <2>5 DEF Register!Next
<1>7. ASSUME NEW k \in Keys, keys[k].status \in {"pending", "failed"}, Made' = Made,
             Status' = [Status EXCEPT ![k] = "failed"]
      PROVE  [Register!Next]_(Register!register)
  <2>1. CASE keys[k].status = "pending"
    <3>1. Register!Fail(k)
      BY <1>7, <2>1 DEF Register!Fail, Made, Status
    <3> QED
      BY <3>1 DEF Register!Next
  <2>2. CASE keys[k].status = "failed"
    <3>1. Status' = Status
      BY <1>7, <2>2 DEF Status
    <3> QED
      BY <1>3, <1>7, <3>1
  <2> QED
    BY <1>7, <2>1, <2>2
<1>8. ASSUME NEW r \in Requests, FailKey(r)
      PROVE  [Register!Next]_(Register!register)
  <2>1. Key(r) \in Keys /\ keys[Key(r)].status \in {"pending", "failed"}
    BY <1>8, WorkingKeyNotCompleted DEF FailKey, Working
  <2>2. Status' = [Status EXCEPT ![Key(r)] = "failed"] /\ Made' = Made
    BY <1>0, <1>2, <1>8, <2>1 DEF FailKey, TypeOK, Status
  <2> QED
    BY <1>7, <2>1, <2>2
<1>9. ASSUME NEW s \in Sweeps, Resolve(s)
      PROVE  [Register!Next]_(Register!register)
  <2>1. Made' = Made
    BY <1>0, <1>2, <1>9, ResolveEffect
  <2>2. CASE UNCHANGED keys
    <3>1. Status' = Status
      BY <2>2 DEF Status
    <3> QED
      BY <1>3, <2>1, <3>1
  <2>3. ASSUME NEW k \in Keys, keys[k].status = "pending",
               keys' = [keys EXCEPT ![k] = TimedOut(@)]
        PROVE  [Register!Next]_(Register!register)
    <3>1. Status' = [Status EXCEPT ![k] = "failed"]
      BY <1>0, <2>3 DEF TypeOK, Status, TimedOut
    <3> QED
      BY <1>7, <2>1, <2>3, <3>1
  <2> QED
    BY <1>0, <1>9, <2>2, <2>3, ResolveEffect
<1>10. keys' = keys => Status' = Status
  BY DEF Status
<1>11. ASSUME payments' = payments, keys' = keys
       PROVE  [Register!Next]_(Register!register)
  BY <1>2, <1>3, <1>10, <1>11
<1> QED
  BY <1>0, <1>4, <1>5, <1>6, <1>8, <1>9, <1>11, StepCases
     DEF QuietStep, InsertEvent, GrowOld, Fetch, IdleSweepStep, tables, vars

\* Seen by key, the handlers, the retries, the failures and the sweeps
\* together implement AtMostOncePayment.
THEOREM ImplementsRegister == Spec => RegisterSpec
<1>1. Init => Register!Init
  BY DEF Init, Register!Init, NoRow
<1> QED
  BY <1>1, RegisterStep, Invariance, PTL DEF Spec, RegisterSpec, Register!Spec

-----------------------------------------------------------------------------
(* If no handler outlives sweepMinAge *)

\* Once a key exists, nobody starts to work for it any more.
LEMMA StaysAbandoned ==
  ASSUME IInv, [Next]_vars, NEW k \in Keys, Abandoned(k), keys[k].status # "absent"
  PROVE  Abandoned(k)'
<1>0. TypeOK /\ Progress /\ Sweeping
  BY DEF IInv
<1> SUFFICES ASSUME NEW q \in Requests, pc'[q] \in Working, req'[q].key = k PROVE FALSE
  BY DEF Abandoned, Key
<1>1. ~(pc[q] \in Working /\ req'[q] = req[q])
  BY DEF Abandoned, Key
<1>2. ASSUME NEW r \in Requests, NEW next, QuietStep(r, next)
      PROVE  FALSE
  BY <1>0, <1>1, <1>2 DEF QuietStep, TypeOK, Working, Active
<1>3. ASSUME NEW r \in Requests, InsertKey(r)
      PROVE  FALSE
  <2>1. q = r
    BY <1>0, <1>1, <1>3 DEF InsertKey, Goto, Reply, TypeOK, Working
  <2> QED
    BY <1>3, <2>1 DEF InsertKey, Key
<1>4. ASSUME NEW r \in Requests, \/ InsertPayment(r) \/ InsertEvent(r)
                                 \/ FailKey(r) \/ CompleteKey(r)
      PROVE  FALSE
  BY <1>0, <1>1, <1>4 DEF InsertPayment, InsertEvent, FailKey, CompleteKey, Goto, Reply, TypeOK,
                         Working
<1>5. ~UNCHANGED handlers
  BY <1>1 DEF handlers
<1> QED
  BY <1>0, <1>2, <1>3, <1>4, <1>5, StepCases, ResolveEffect
     DEF GrowOld, Fetch, IdleSweepStep, vars

\* The handler that resolves its key was the only one working for it.
LEMMA ResolverLeaves ==
  ASSUME IInv, NEW r \in Requests, FailKey(r) \/ CompleteKey(r), NEW k \in Keys, Key(r) = k
  PROVE  Abandoned(k)'
<1>1. pc[r] \in Working /\ pc'[r] \notin Working /\ req' = req
      /\ \A q \in Requests \ {r} : pc'[q] = pc[q]
  BY DEF IInv, TypeOK, FailKey, CompleteKey, Goto, Working
<1>2. \A q \in Requests \ {r} : pc[q] \in Working => Key(q) # k
  BY <1>1 DEF IInv, Claiming, Claimants
<1> QED
  BY <1>1, <1>2 DEF Abandoned, Key

\* If handlers are faster than sweepMinAge, every step leaves the keys that
\* sweeps may touch without a handler at work for them.
LEMMA TimelyStep ==
  ASSUME ~SlowHandlers
  PROVE  IInv /\ Timely /\ [Next]_vars => Timely'
<1> SUFFICES ASSUME IInv, Timely, [Next]_vars, NEW k \in Keys
             PROVE  /\ age'[k] # Fresh => keys'[k].status # "absent"
                    /\ \/ keys'[k].status \in {"completed", "failed"}
                       \/ age'[k] # Fresh
                       \/ \E s \in Sweeps : \E e \in batch'[s] : e.key = k
                       => Abandoned(k)'
  BY DEF Timely
<1> DEFINE Touchable == \/ keys[k].status \in {"completed", "failed"}
                        \/ age[k] # Fresh
                        \/ \E s \in Sweeps : \E e \in batch[s] : e.key = k
<1>0. TypeOK /\ Progress /\ Sweeping
  BY DEF IInv
<1>1. /\ Touchable => Abandoned(k) /\ keys[k].status # "absent"
      /\ age[k] # Fresh => keys[k].status # "absent"
  BY <1>0 DEF Timely, Sweeping
<1>2. Touchable => Abandoned(k)'
  BY <1>1, StaysAbandoned
<1>3. CASE /\ keys'[k].status \in {"completed", "failed"} => Touchable
           /\ keys[k].status # "absent" => keys'[k].status # "absent"
           /\ age' = age
           /\ \A s \in Sweeps : batch'[s] \subseteq batch[s]
  BY <1>1, <1>2, <1>3
<1>4. ASSUME NEW r \in Requests, InsertKey(r)
      PROVE  /\ keys'[k].status \in {"completed", "failed"} => Touchable
             /\ keys[k].status # "absent" => keys'[k].status # "absent"
             /\ age' = age /\ batch' = batch
  BY <1>0, <1>4 DEF InsertKey, TypeOK, sweepers
<1>5. ASSUME NEW r \in Requests, FailKey(r) \/ CompleteKey(r)
      PROVE  /\ keys[k].status # "absent" => keys'[k].status # "absent"
             /\ age' = age /\ batch' = batch
             /\ Key(r) # k => keys'[k] = keys[k]
             /\ Key(r) = k => keys'[k].status # "absent" /\ Abandoned(k)'
  <2>1. /\ age' = age /\ batch' = batch
        /\ Key(r) # k => keys'[k] = keys[k]
        /\ Key(r) = k => keys'[k].status \in {"completed", "failed"}
    BY <1>0, <1>5 DEF FailKey, CompleteKey, TypeOK, sweepers
  <2>2. Key(r) = k => Abandoned(k)'
    BY <1>5, ResolverLeaves
  <2> QED
    BY <2>1, <2>2
<1>6. ASSUME NEW l \in Keys, GrowOld(l)
      PROVE  /\ keys' = keys /\ batch' = batch
             /\ l # k => age'[k] = age[k]
             /\ l = k => keys[k].status # "absent" /\ Abandoned(k)'
  BY <1>0, <1>6 DEF GrowOld, TypeOK, sweepers, handlers, Abandoned, Key
<1>7. ASSUME NEW s \in Sweeps, Fetch(s)
      PROVE  /\ keys' = keys /\ age' = age
             /\ \A t \in Sweeps : \A e \in batch'[t] : e.key = k => Touchable
  <2>1. \A e \in batch'[s] : e.key = k => Touchable
    BY <1>0, <1>7, FetchEffect
  <2>2. \A t \in Sweeps \ {s} : batch'[t] = batch[t]
    BY <1>0, <1>7, FetchEffect DEF TypeOK
  <2> QED
    BY <1>7, <2>1, <2>2 DEF Fetch, tables
<1>8. ASSUME NEW s \in Sweeps, Resolve(s)
      PROVE  /\ keys'[k].status \in {"completed", "failed"} => Touchable
             /\ keys[k].status # "absent" => keys'[k].status # "absent"
             /\ age' = age
             /\ \A t \in Sweeps : batch'[t] \subseteq batch[t]
  <2>1. /\ age' = age
        /\ \A t \in Sweeps : batch'[t] \subseteq batch[t]
    BY <1>0, <1>8, ResolveEffect DEF TypeOK
  <2>2. keys'[k] # keys[k] => \E e \in batch[s] : e.key = k
    BY <1>0, <1>8, ResolveEffect DEF TypeOK
  <2>3. keys[k].status # "absent" => keys'[k].status # "absent"
    BY <1>0, <1>8, ResolveKeeps
  <2> QED
    BY <2>1, <2>2, <2>3
<1>9. ASSUME IdleSweepStep
      PROVE  keys' = keys /\ age' = age /\ \A t \in Sweeps : batch'[t] \subseteq batch[t]
  BY <1>0, <1>9 DEF IdleSweepStep, tables, TypeOK
<1>10. ASSUME \/ \E r \in Requests : \/ \E next : QuietStep(r, next)
                                     \/ InsertPayment(r) \/ InsertEvent(r)
              \/ UNCHANGED vars
       PROVE  UNCHANGED <<keys, age, batch>>
  BY <1>10 DEF QuietStep, InsertPayment, InsertEvent, tables, sweepers, vars
<1>11. CASE UNCHANGED <<keys, age, batch>>
  BY <1>3, <1>11
<1>12. ASSUME NEW r \in Requests, InsertKey(r)
       PROVE  /\ age'[k] # Fresh => keys'[k].status # "absent"
              /\ \/ keys'[k].status \in {"completed", "failed"}
                 \/ age'[k] # Fresh
                 \/ \E s \in Sweeps : \E e \in batch'[s] : e.key = k
                 => Abandoned(k)'
  BY <1>3, <1>4, <1>12
<1>13. ASSUME NEW r \in Requests, FailKey(r) \/ CompleteKey(r)
       PROVE  /\ age'[k] # Fresh => keys'[k].status # "absent"
              /\ \/ keys'[k].status \in {"completed", "failed"}
                 \/ age'[k] # Fresh
                 \/ \E s \in Sweeps : \E e \in batch'[s] : e.key = k
                 => Abandoned(k)'
  <2>1. CASE Key(r) = k
    BY <1>5, <1>13, <2>1
  <2>2. CASE Key(r) # k
    BY <1>3, <1>5, <1>13, <2>2
  <2> QED
    BY <2>1, <2>2
<1>14. ASSUME NEW l \in Keys, GrowOld(l)
       PROVE  /\ age'[k] # Fresh => keys'[k].status # "absent"
              /\ \/ keys'[k].status \in {"completed", "failed"}
                 \/ age'[k] # Fresh
                 \/ \E s \in Sweeps : \E e \in batch'[s] : e.key = k
                 => Abandoned(k)'
  BY <1>1, <1>2, <1>6, <1>14
<1>15. ASSUME NEW s \in Sweeps, Fetch(s)
       PROVE  /\ age'[k] # Fresh => keys'[k].status # "absent"
              /\ \/ keys'[k].status \in {"completed", "failed"}
                 \/ age'[k] # Fresh
                 \/ \E t \in Sweeps : \E e \in batch'[t] : e.key = k
                 => Abandoned(k)'
  BY <1>1, <1>2, <1>7, <1>15
<1>16. ASSUME NEW s \in Sweeps, Resolve(s)
       PROVE  /\ age'[k] # Fresh => keys'[k].status # "absent"
              /\ \/ keys'[k].status \in {"completed", "failed"}
                 \/ age'[k] # Fresh
                 \/ \E t \in Sweeps : \E e \in batch'[t] : e.key = k
                 => Abandoned(k)'
  BY <1>3, <1>8, <1>16
<1>17. CASE IdleSweepStep
  BY <1>3, <1>9, <1>17
<1> HIDE DEF Touchable
<1> QED
  BY <1>0, <1>10, <1>11, <1>12, <1>13, <1>14, <1>15, <1>16, <1>17, StepCases

\* A resolved key is never overwritten again, if no handler outlives the
\* sweeps' minimum age.
LEMMA ResolvedKept ==
  ASSUME IInv, Timely, [Next]_vars, NEW k \in Keys, keys[k].status \in {"completed", "failed"}
  PROVE  keys'[k] = keys[k]
<1>0. TypeOK /\ Sweeping /\ Abandoned(k)
  BY DEF IInv, Timely
<1>1. ASSUME NEW r \in Requests, InsertKey(r)
      PROVE  keys'[k] = keys[k]
  BY <1>0, <1>1 DEF InsertKey, TypeOK
<1>2. ASSUME NEW r \in Requests, FailKey(r) \/ CompleteKey(r)
      PROVE  keys'[k] = keys[k]
  <2>1. Key(r) # k
    BY <1>0, <1>2 DEF FailKey, CompleteKey, Abandoned, Working
  <2> QED
    BY <1>0, <1>2, <2>1 DEF FailKey, CompleteKey, TypeOK
<1>3. ASSUME NEW s \in Sweeps, Resolve(s)
      PROVE  keys'[k] = keys[k]
  BY <1>0, <1>3, ResolveKeeps
<1> QED
  BY <1>0, <1>1, <1>2, <1>3, StepCases
     DEF QuietStep, InsertPayment, InsertEvent, GrowOld, Fetch, IdleSweepStep, tables, vars

\* If no handler outlives sweepMinAge, a key once resolved, by a handler or
\* by a sweep, is never overwritten: the guard of markFailed and markCompleted
\* then suffices although UpdateKey has none.
THEOREM ResolvedKeysAreFinal ==
  ASSUME ~SlowHandlers
  PROVE  Spec => ResolvedIsFinal
<1>1. Init => Timely
  BY InitInvariant
<1>2. IInv /\ Timely /\ [Next]_vars => Timely'
  BY TimelyStep
<1>3. IInv /\ Timely /\ [Next]_vars =>
        [\A k \in Keys : keys[k].status \in {"completed", "failed"} => keys'[k] = keys[k]]_vars
  BY ResolvedKept
<1> QED
  BY <1>1, <1>2, <1>3, Invariance, PTL DEF Spec, ResolvedIsFinal

\* Then what a replay answered stays what the row of the key says.
LEMMA ReplayingStep == IInv /\ Timely /\ Replaying /\ [Next]_vars => Replaying'
<1> SUFFICES ASSUME IInv, Timely, Replaying, [Next]_vars,
                    NEW q \in Requests, pc'[q] = "replayed"
             PROVE  /\ keys'[Key(q)'].status \in {"completed", "failed"}
                    /\ answer'[q] = keys'[Key(q)'].response
  BY DEF Replaying
<1>0. TypeOK /\ Progress /\ Sweeping
  BY DEF IInv
<1>1. CASE pc[q] = "replayed" /\ answer'[q] = answer[q] /\ req'[q] = req[q]
  <2>1. /\ Key(q)' = Key(q) /\ Key(q) \in Keys
        /\ keys[Key(q)].status \in {"completed", "failed"}
        /\ answer[q] = keys[Key(q)].response
    BY <1>0, <1>1 DEF Progress, Replaying, Request, Key
  <2> QED
    BY <1>1, <2>1, ResolvedKept
<1>2. ASSUME NEW r \in Requests, NEW next, QuietStep(r, next)
      PROVE  \/ pc[q] = "replayed" /\ answer'[q] = answer[q] /\ req'[q] = req[q]
             \/ /\ keys[Key(q)].status \in {"completed", "failed"}
                /\ answer'[q] = keys[Key(q)].response
                /\ UNCHANGED <<keys, req>>
  BY <1>0, <1>2 DEF QuietStep, TypeOK, tables
<1>3. ASSUME NEW r \in Requests, \/ InsertKey(r) \/ InsertPayment(r) \/ InsertEvent(r)
                                 \/ FailKey(r) \/ CompleteKey(r)
      PROVE  pc[q] = "replayed" /\ answer'[q] = answer[q] /\ req'[q] = req[q]
  BY <1>0, <1>3 DEF InsertKey, InsertPayment, InsertEvent, FailKey, CompleteKey, Goto, Reply,
                    TypeOK
<1>4. CASE UNCHANGED handlers
  BY <1>1, <1>4 DEF handlers
<1>5. CASE /\ keys[Key(q)].status \in {"completed", "failed"}
           /\ answer'[q] = keys[Key(q)].response
           /\ UNCHANGED <<keys, req>>
  BY <1>5 DEF Key
<1> QED
  BY <1>0, <1>1, <1>2, <1>3, <1>4, <1>5, StepCases, ResolveEffect
     DEF GrowOld, Fetch, IdleSweepStep, vars

\* If no handler outlives sweepMinAge, all the replays of one key are the same
\* response.
THEOREM ReplaysAreEqual ==
  ASSUME ~SlowHandlers
  PROVE  Spec => []ReplaysAgree
<1>1. Init => Timely /\ Replaying
  BY InitInvariant
<1>2. IInv /\ Timely /\ [Next]_vars => Timely'
  BY TimelyStep
<1>3. Replaying => ReplaysAgree
  BY DEF Replaying, ReplaysAgree
<1> QED
  BY <1>1, <1>2, <1>3, ReplayingStep, Invariance, PTL DEF Spec

=============================================================================
