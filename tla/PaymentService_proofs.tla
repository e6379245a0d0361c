----------------------- MODULE PaymentService_proofs -----------------------
(***************************************************************************)
(* Proofs about PaymentService, for any sets of payments and requests.     *)
(*                                                                         *)
(* The heart of the argument is the row lock: whoever is past its SELECT   *)
(* ... FOR UPDATE holds the lock of its payment (Locking), so nobody else  *)
(* can commit a new status for it and what was read stays current          *)
(* (Reading).  The audit trail then grows by events that start where the   *)
(* previous one ended.                                                     *)
(***************************************************************************)
EXTENDS PaymentService, SequenceTheorems, TLAPS

Holding == {"update", "log", "commit"}

\* What a request asks for agrees with the code it is running.
Calling ==
  \A r \in Requests :
    /\ pc[r] # "idle" => call[r] \in Calls
    /\ pc[r] \in Creating => To(r) = "initiated"
    /\ pc[r] \in InTransaction => To(r) \in Targets

\* An identifier is created by one request only, which finds no such row.
Creation ==
  /\ \A p \in opened : status[p] # Absent
  /\ \A r \in Requests :
       /\ \A q \in Requests \ {r} :
            (pc[r] # "idle" /\ pc[q] # "idle" /\ To(r) = "initiated") =>
              call[q] # call[r]
       /\ pc[r] = "insert" => status[Pay(r)] = Absent
       /\ pc[r] = "event" => /\ status[Pay(r)] # Absent
                             /\ Pay(r) \notin opened

\* Row locks are held by exactly the transactions that took them.
Locking ==
  /\ \A p \in Payments : lock[p] # NoRequest =>
       pc[lock[p]] \in Holding /\ Pay(lock[p]) = p
  /\ \A r \in Requests : pc[r] \in Holding => lock[Pay(r)] = r

\* What a transaction read is the committed status, and the edge it writes
\* is one of the status graph.
Reading ==
  \A r \in Requests :
    /\ pc[r] \in Holding => status[Pay(r)] = seen[r] /\ seen[r] \in Statuses
    /\ pc[r] \in {"log", "commit"} => CanTransitionTo(seen[r], To(r))

\* A request has no event in the trail before it commits.
Recording ==
  \A p \in Payments : \A i \in 1..Len(trail[p]) : pc[trail[p][i].id] = "done"

IInv ==
  TypeOK /\ Calling /\ Creation /\ Locking /\ Reading /\ Recording /\ AuditTrail

-----------------------------------------------------------------------------
(* Steps *)

\* UpdateStatus when the row still has the status that was read.
UpdateHitsRow(r) ==
  /\ pc[r] = "update"
  /\ CanTransitionTo(seen[r], To(r))
  /\ lock' = [lock EXCEPT ![Pay(r)] = r]
  /\ counted' = counted \cup {r}
  /\ pc' = [pc EXCEPT ![r] = "log"]
  /\ UNCHANGED <<status, opened, trail, call, seen, reply>>

\* Init establishes the inductive invariant.
LEMMA InitInvariant == Init => IInv
BY NoRequestAssumption
   DEF Init, IInv, TypeOK, Calling, Creation, Locking, Reading, Recording, AuditTrail,
       Active, Creating, InTransaction, Holding, Replies

\* Every step is one of the statements, a rollback, or a stutter.
LEMMA StepCases ==
  ASSUME [Next]_vars
  PROVE  \/ \E r \in Requests :
              \/ \E p \in Payments : ArriveCreate(r, p)
              \/ \E p \in Payments, to \in Targets : ArriveTransition(r, p, to)
              \/ Insert(r) \/ CreateEvent(r) \/ GetByIDForUpdate(r)
              \/ UpdateHitsRow(r)
              \/ InsertEvent(r) \/ Commit(r)
              \/ \E reason \in Replies \ {"ok"} : pc[r] \in Active /\ Rollback(r, reason)
         \/ UNCHANGED vars
BY DEF Next, Arrive, Step, AllDone, UpdateHitsRow, UpdateStatus, RejectUnknown, RejectTransition,
       StatementFails, Crash, Replies, Active, InTransaction

\* Two requests that are creating payments create different ones.
LEMMA CreatorsDiffer ==
  ASSUME TypeOK, Calling, Creation, NEW r \in Requests, NEW q \in Requests, r # q,
         pc[r] \in Creating, pc[q] \in Creating
  PROVE  Pay(r) # Pay(q)
<1>1. call[r] \in Calls /\ call[q] \in Calls /\ To(r) = "initiated" /\ To(q) = "initiated"
  BY DEF Calling, Creating
<1>2. call[r] # call[q]
  BY <1>1 DEF Creation, Creating
<1> QED
  BY <1>1, <1>2 DEF Calls, Pay, To

\* Every step keeps every variable in its type: the statements of Create and
\* transition() write only statuses of the enumeration, and well-formed events.
LEMMA TypeStep == IInv /\ [Next]_vars => TypeOK'
<1> SUFFICES ASSUME IInv, [Next]_vars PROVE TypeOK'
  OBVIOUS
<1> USE NoRequestAssumption DEF IInv, TypeOK, Pay, To, Active, Creating, InTransaction
<1> USE DEF Calling, Reading
<1>1. ASSUME NEW r \in Requests, NEW p \in Payments, ArriveCreate(r, p)
     PROVE  TypeOK'
  BY <1>1 DEF ArriveCreate, Holding, Calls, Targets, Statuses, Event, Replies
<1>2. ASSUME NEW r \in Requests, NEW p \in Payments, NEW to \in Targets, ArriveTransition(r, p, to)
     PROVE  TypeOK'
  BY <1>2 DEF ArriveTransition, Holding, Calls, Targets, Statuses, Event, Replies
<1>3. ASSUME NEW r \in Requests, Insert(r)
     PROVE  TypeOK'
  <2>1. Pay(r) \in Payments /\ status' = [status EXCEPT ![Pay(r)] = "initiated"]
    BY <1>3 DEF Insert, Calls
  <2>2. pc' \in [Requests -> Active \cup {"idle", "done"}] /\ reply' \in [Requests -> Replies]
    BY <1>3 DEF Insert, Finish, Replies
  <2>3. UNCHANGED <<opened, trail, lock, counted, call, seen>>
    BY <1>3 DEF Insert
  <2> QED
    BY <2>1, <2>2, <2>3 DEF Statuses
<1>4. ASSUME NEW r \in Requests, CreateEvent(r)
     PROVE  TypeOK'
  BY <1>4 DEF CreateEvent, Finish, Holding, Calls, Targets, Statuses, Event, Replies
<1>5. ASSUME NEW r \in Requests, GetByIDForUpdate(r)
     PROVE  TypeOK'
  BY <1>5 DEF GetByIDForUpdate, Holding, Calls, Targets, Statuses, Event, Replies
<1>6. ASSUME NEW r \in Requests, UpdateHitsRow(r)
     PROVE  TypeOK'
  BY <1>6 DEF UpdateHitsRow, Holding, Calls, Targets, Statuses, Event, Replies
<1>7. ASSUME NEW r \in Requests, InsertEvent(r)
     PROVE  TypeOK'
  BY <1>7 DEF InsertEvent, Holding, Calls, Targets, Statuses, Event, Replies
<1>8. ASSUME NEW r \in Requests, Commit(r)
     PROVE  TypeOK'
  BY <1>8 DEF Commit, Release, Finish, Holding, Calls, Targets, Statuses, Event, Replies
<1>9. ASSUME NEW r \in Requests, NEW reason \in Replies, pc[r] \in Active,
            Rollback(r, reason)
     PROVE  TypeOK'
  BY <1>9 DEF Rollback, Release, Finish, Holding, Calls, Targets, Statuses, Event, Replies
<1>10. CASE UNCHANGED vars
  BY <1>10 DEF vars, Holding, Calls, Targets, Statuses, Event, Replies
<1> QED
  BY <1>1, <1>2, <1>3, <1>4, <1>5, <1>6, <1>7, <1>8, <1>9, <1>10, StepCases

\* Every step leaves the requests with the calls they arrived with, and with
\* the code that belongs to them.
LEMMA CallingStep == IInv /\ [Next]_vars => Calling'
<1> SUFFICES ASSUME IInv, [Next]_vars PROVE Calling'
  OBVIOUS
<1> USE NoRequestAssumption DEF IInv, TypeOK, Pay, To, Active, Creating, InTransaction
<1> USE DEF Calling, Calls, Targets
<1>1. ASSUME NEW r \in Requests, NEW p \in Payments, ArriveCreate(r, p)
     PROVE  Calling'
  BY <1>1 DEF ArriveCreate
<1>2. ASSUME NEW r \in Requests, NEW p \in Payments, NEW to \in Targets, ArriveTransition(r, p, to)
     PROVE  Calling'
  BY <1>2 DEF ArriveTransition
<1>3. ASSUME NEW r \in Requests, Insert(r)
     PROVE  Calling'
  <2>1. CASE pc' = [pc EXCEPT ![r] = "event"]
    BY <1>3, <2>1 DEF Insert
  <2>2. CASE Finish(r, "error")
    BY <1>3, <2>2 DEF Insert, Finish
  <2> QED
    BY <1>3, <2>1, <2>2 DEF Insert
<1>4. ASSUME NEW r \in Requests, CreateEvent(r)
     PROVE  Calling'
  BY <1>4 DEF CreateEvent, Finish
<1>5. ASSUME NEW r \in Requests, GetByIDForUpdate(r)
     PROVE  Calling'
  BY <1>5 DEF GetByIDForUpdate
<1>6. ASSUME NEW r \in Requests, UpdateHitsRow(r)
     PROVE  Calling'
  BY <1>6 DEF UpdateHitsRow
<1>7. ASSUME NEW r \in Requests, InsertEvent(r)
     PROVE  Calling'
  BY <1>7 DEF InsertEvent
<1>8. ASSUME NEW r \in Requests, Commit(r)
     PROVE  Calling'
  BY <1>8 DEF Commit, Release, Finish
<1>9. ASSUME NEW r \in Requests, NEW reason \in Replies, pc[r] \in Active,
            Rollback(r, reason)
     PROVE  Calling'
  BY <1>9 DEF Rollback, Release, Finish
<1>10. CASE UNCHANGED vars
  BY <1>10 DEF vars
<1> QED
  BY <1>1, <1>2, <1>3, <1>4, <1>5, <1>6, <1>7, <1>8, <1>9, <1>10, StepCases

\* Every step keeps the identifiers of Create unique: Insert finds no row, and
\* createEvent finds a row whose creation is not recorded yet.
LEMMA CreationStep == IInv /\ [Next]_vars => Creation'
<1> SUFFICES ASSUME IInv, [Next]_vars PROVE Creation'
  OBVIOUS
<1> USE NoRequestAssumption DEF IInv, TypeOK, Pay, To, Active, Creating, InTransaction
<1> USE DEF Creation, Calling, Calls, Reading, Holding, Targets, Absent, Statuses
<1>1. ASSUME NEW r \in Requests, NEW p \in Payments, ArriveCreate(r, p)
     PROVE  Creation'
  BY <1>1 DEF ArriveCreate
<1>2. ASSUME NEW r \in Requests, NEW p \in Payments, NEW to \in Targets, ArriveTransition(r, p, to)
     PROVE  Creation'
  BY <1>2 DEF ArriveTransition
<1>3. ASSUME NEW r \in Requests, Insert(r)
     PROVE  Creation'
  <2>1. \A q \in Requests \ {r} : pc[q] \in Creating => Pay(q) # Pay(r)
    BY <1>3, CreatorsDiffer DEF Insert
  <2>2. Pay(r) \in Payments /\ status[Pay(r)] = Absent
    BY <1>3 DEF Insert
  <2>3. PICK next \in {"event", "done"} : pc' = [pc EXCEPT ![r] = next]
    BY <1>3 DEF Insert, Finish
  <2>4. status' = [status EXCEPT ![Pay(r)] = "initiated"] /\ UNCHANGED <<opened, call>>
    BY <1>3 DEF Insert
  <2>0. \A p \in opened' : status'[p] # Absent
    BY <2>2, <2>4
  <2> SUFFICES ASSUME NEW q \in Requests
               PROVE  /\ \A o \in Requests \ {q} :
                           (pc'[q] # "idle" /\ pc'[o] # "idle" /\ To(q) = "initiated")
                             => call[o] # call[q]
                      /\ pc'[q] = "insert" => status'[Pay(q)] = Absent
                      /\ pc'[q] = "event" => status'[Pay(q)] # Absent /\ Pay(q) \notin opened
    BY <2>0, <2>4
  <2>5. \A o \in Requests : pc'[o] # "idle" => pc[o] # "idle"
    BY <1>3, <2>3 DEF Insert
  <2>6. CASE q = r
    BY <1>3, <2>2, <2>3, <2>4, <2>5, <2>6 DEF Insert
  <2>7. CASE q # r
    BY <1>3, <2>1, <2>2, <2>3, <2>4, <2>5, <2>7 DEF Insert
  <2> QED
    BY <2>6, <2>7
<1>4. ASSUME NEW r \in Requests, CreateEvent(r)
     PROVE  Creation'
  <2>1. \A q \in Requests \ {r} : pc[q] \in Creating => Pay(q) # Pay(r)
    BY <1>4, CreatorsDiffer DEF CreateEvent
  <2> QED
    BY <1>4, <2>1 DEF CreateEvent, Finish
<1>5. ASSUME NEW r \in Requests, GetByIDForUpdate(r)
     PROVE  Creation'
  BY <1>5 DEF GetByIDForUpdate
<1>6. ASSUME NEW r \in Requests, UpdateHitsRow(r)
     PROVE  Creation'
  BY <1>6 DEF UpdateHitsRow
<1>7. ASSUME NEW r \in Requests, InsertEvent(r)
     PROVE  Creation'
  BY <1>7 DEF InsertEvent
<1>8. ASSUME NEW r \in Requests, Commit(r)
     PROVE  Creation'
  <2>1. Pay(r) \in Payments /\ status[Pay(r)] # Absent /\ To(r) # Absent
    BY <1>8 DEF Commit
  <2>2. status' = [status EXCEPT ![Pay(r)] = To(r)] /\ UNCHANGED <<opened, call>>
    BY <1>8 DEF Commit
  <2>3. pc' = [pc EXCEPT ![r] = "done"]
    BY <1>8 DEF Commit, Finish
  <2> QED
    BY <1>8, <2>1, <2>2, <2>3 DEF Commit
<1>9. ASSUME NEW r \in Requests, NEW reason \in Replies, pc[r] \in Active,
            Rollback(r, reason)
     PROVE  Creation'
  BY <1>9 DEF Rollback, Release, Finish
<1>10. CASE UNCHANGED vars
  BY <1>10 DEF vars
<1> QED
  BY <1>1, <1>2, <1>3, <1>4, <1>5, <1>6, <1>7, <1>8, <1>9, <1>10, StepCases

\* Every step keeps the row locks with the transactions that took them: each
\* path out of WithTransaction releases its own lock and no other.
LEMMA LockingStep == IInv /\ [Next]_vars => Locking'
<1> SUFFICES ASSUME IInv, [Next]_vars PROVE Locking'
  OBVIOUS
<1> USE NoRequestAssumption DEF IInv, TypeOK, Pay, To, Active, Creating, InTransaction
<1> USE DEF Locking, Calling, Calls, Holding
<1>1. ASSUME NEW r \in Requests, NEW p \in Payments, ArriveCreate(r, p)
     PROVE  Locking'
  BY <1>1 DEF ArriveCreate
<1>2. ASSUME NEW r \in Requests, NEW p \in Payments, NEW to \in Targets, ArriveTransition(r, p, to)
     PROVE  Locking'
  BY <1>2 DEF ArriveTransition
<1>3. ASSUME NEW r \in Requests, Insert(r)
     PROVE  Locking'
  <2>1. CASE pc' = [pc EXCEPT ![r] = "event"]
    BY <1>3, <2>1 DEF Insert
  <2>2. CASE Finish(r, "error")
    BY <1>3, <2>2 DEF Insert, Finish
  <2> QED
    BY <1>3, <2>1, <2>2 DEF Insert
<1>4. ASSUME NEW r \in Requests, CreateEvent(r)
     PROVE  Locking'
  BY <1>4 DEF CreateEvent, Finish
<1>5. ASSUME NEW r \in Requests, GetByIDForUpdate(r)
     PROVE  Locking'
  BY <1>5 DEF GetByIDForUpdate
<1>6. ASSUME NEW r \in Requests, UpdateHitsRow(r)
     PROVE  Locking'
  BY <1>6 DEF UpdateHitsRow
<1>7. ASSUME NEW r \in Requests, InsertEvent(r)
     PROVE  Locking'
  BY <1>7 DEF InsertEvent
<1>8. ASSUME NEW r \in Requests, Commit(r)
     PROVE  Locking'
  BY <1>8 DEF Commit, Release, Finish
<1>9. ASSUME NEW r \in Requests, NEW reason \in Replies, pc[r] \in Active,
            Rollback(r, reason)
     PROVE  Locking'
  BY <1>9 DEF Rollback, Release, Finish
<1>10. CASE UNCHANGED vars
  BY <1>10 DEF vars
<1> QED
  BY <1>1, <1>2, <1>3, <1>4, <1>5, <1>6, <1>7, <1>8, <1>9, <1>10, StepCases

\* Every step leaves what the open transactions read current: a commit by one
\* of them changes only the row that it has locked.
LEMMA ReadingStep == IInv /\ [Next]_vars => Reading'
<1> SUFFICES ASSUME IInv, [Next]_vars PROVE Reading'
  OBVIOUS
<1> USE NoRequestAssumption DEF IInv, TypeOK, Pay, To, Active, Creating, InTransaction
<1> USE DEF Reading, Locking, Calling, Creation, Calls, Holding, Statuses, Absent
<1>1. ASSUME NEW r \in Requests, NEW p \in Payments, ArriveCreate(r, p)
     PROVE  Reading'
  BY <1>1 DEF ArriveCreate
<1>2. ASSUME NEW r \in Requests, NEW p \in Payments, NEW to \in Targets, ArriveTransition(r, p, to)
     PROVE  Reading'
  BY <1>2 DEF ArriveTransition
<1>3. ASSUME NEW r \in Requests, Insert(r)
     PROVE  Reading'
  <2>1. CASE pc' = [pc EXCEPT ![r] = "event"]
    BY <1>3, <2>1 DEF Insert
  <2>2. CASE Finish(r, "error")
    BY <1>3, <2>2 DEF Insert, Finish
  <2> QED
    BY <1>3, <2>1, <2>2 DEF Insert
<1>4. ASSUME NEW r \in Requests, CreateEvent(r)
     PROVE  Reading'
  BY <1>4 DEF CreateEvent, Finish
<1>5. ASSUME NEW r \in Requests, GetByIDForUpdate(r)
     PROVE  Reading'
  BY <1>5 DEF GetByIDForUpdate
<1>6. ASSUME NEW r \in Requests, UpdateHitsRow(r)
     PROVE  Reading'
  BY <1>6 DEF UpdateHitsRow
<1>7. ASSUME NEW r \in Requests, InsertEvent(r)
     PROVE  Reading'
  BY <1>7 DEF InsertEvent
<1>8. ASSUME NEW r \in Requests, Commit(r)
     PROVE  Reading'
  BY <1>8 DEF Commit, Release, Finish
<1>9. ASSUME NEW r \in Requests, NEW reason \in Replies, pc[r] \in Active,
            Rollback(r, reason)
     PROVE  Reading'
  BY <1>9 DEF Rollback, Release, Finish
<1>10. CASE UNCHANGED vars
  BY <1>10 DEF vars
<1> QED
  BY <1>1, <1>2, <1>3, <1>4, <1>5, <1>6, <1>7, <1>8, <1>9, <1>10, StepCases

\* Every step leaves the unfinished requests without an event in the trail.
LEMMA RecordingStep == IInv /\ [Next]_vars => Recording'
<1> SUFFICES ASSUME IInv, [Next]_vars PROVE Recording'
  OBVIOUS
<1> USE NoRequestAssumption DEF IInv, TypeOK, Pay, To, Active, Creating, InTransaction
<1> USE DEF Recording, Calling, Calls
<1>1. ASSUME NEW r \in Requests, NEW p \in Payments, ArriveCreate(r, p)
     PROVE  Recording'
  BY <1>1 DEF ArriveCreate
<1>2. ASSUME NEW r \in Requests, NEW p \in Payments, NEW to \in Targets, ArriveTransition(r, p, to)
     PROVE  Recording'
  BY <1>2 DEF ArriveTransition
<1>3. ASSUME NEW r \in Requests, Insert(r)
     PROVE  Recording'
  <2>1. CASE pc' = [pc EXCEPT ![r] = "event"]
    BY <1>3, <2>1 DEF Insert
  <2>2. CASE Finish(r, "error")
    BY <1>3, <2>2 DEF Insert, Finish
  <2> QED
    BY <1>3, <2>1, <2>2 DEF Insert
<1>4. ASSUME NEW r \in Requests, CreateEvent(r)
     PROVE  Recording'
  BY <1>4 DEF CreateEvent, Finish
<1>5. ASSUME NEW r \in Requests, GetByIDForUpdate(r)
     PROVE  Recording'
  BY <1>5 DEF GetByIDForUpdate
<1>6. ASSUME NEW r \in Requests, UpdateHitsRow(r)
     PROVE  Recording'
  <2>1. \A q \in Requests : pc[q] = "done" => pc'[q] = "done"
    BY <1>6 DEF UpdateHitsRow
  <2>2. \A p \in Payments : \A i \in 1..Len(trail[p]) : trail[p][i] \in Event
    OBVIOUS
  <2>3. trail' = trail
    BY <1>6 DEF UpdateHitsRow
  <2> QED
    BY <2>1, <2>2, <2>3 DEF Event
<1>7. ASSUME NEW r \in Requests, InsertEvent(r)
     PROVE  Recording'
  BY <1>7 DEF InsertEvent
<1>8. ASSUME NEW r \in Requests, Commit(r)
     PROVE  Recording'
  BY <1>8 DEF Commit, Release, Finish
<1>9. ASSUME NEW r \in Requests, NEW reason \in Replies, pc[r] \in Active,
            Rollback(r, reason)
     PROVE  Recording'
  BY <1>9 DEF Rollback, Release, Finish
<1>10. CASE UNCHANGED vars
  BY <1>10 DEF vars
<1> QED
  BY <1>1, <1>2, <1>3, <1>4, <1>5, <1>6, <1>7, <1>8, <1>9, <1>10, StepCases

\* Every step keeps the trail a gapless explanation of the status: Insert finds
\* it empty, and Commit appends an event that starts at the current status.
LEMMA AuditTrailStep == IInv /\ [Next]_vars => AuditTrail'
<1> SUFFICES ASSUME IInv, [Next]_vars PROVE AuditTrail'
  OBVIOUS
<1> USE DEF IInv, TypeOK
<1>1. CASE UNCHANGED <<status, trail>>
  BY <1>1 DEF AuditTrail
<1>2. ASSUME NEW r \in Requests, Insert(r)
      PROVE  AuditTrail'
  <2>1. /\ Pay(r) \in Payments /\ status[Pay(r)] = Absent
        /\ status' = [status EXCEPT ![Pay(r)] = "initiated"] /\ trail' = trail
    BY <1>2 DEF Insert, Calling, Calls, Creation, Pay
  <2>2. Len(trail[Pay(r)]) = 0
    <3>1. trail[Pay(r)] \in Seq(Event)
      BY <2>1
    <3>2. ASSUME Len(trail[Pay(r)]) > 0 PROVE FALSE
      <4>1. trail[Pay(r)][Len(trail[Pay(r)])] \in Event
        BY <3>1, <3>2
      <4>2. trail[Pay(r)][Len(trail[Pay(r)])].to = Absent
        BY <2>1, <3>2 DEF AuditTrail
      <4> QED
        BY <4>1, <4>2 DEF Event, Statuses, Absent
    <3> QED
      BY <3>1, <3>2
  <2> QED
    BY <2>1, <2>2 DEF AuditTrail, Absent
<1>3. ASSUME NEW r \in Requests, Commit(r)
      PROVE  AuditTrail'
  <2> DEFINE e == [id |-> r, from |-> seen[r], to |-> To(r)]
  <2>1. e \in Event /\ Pay(r) \in Payments
    BY <1>3 DEF Commit, Event, Calling, Reading, Calls, Targets, Statuses, Holding, Pay, To, InTransaction, Active
  <2>2. /\ status' = [status EXCEPT ![Pay(r)] = To(r)]
        /\ trail' = [trail EXCEPT ![Pay(r)] = Append(@, e)]
        /\ status[Pay(r)] = seen[r] /\ seen[r] # Absent
    BY <1>3 DEF Commit, Reading, Holding, Statuses, Absent
  <2> HIDE DEF e
  <2> SUFFICES ASSUME NEW p \in Payments
               PROVE  /\ \A i \in 1..Len(trail'[p]) :
                           trail'[p][i].from = IF i = 1 THEN "initiated"
                                               ELSE trail'[p][i-1].to
                      /\ status'[p] = IF Len(trail'[p]) > 0
                                        THEN trail'[p][Len(trail'[p])].to
                                        ELSE IF status'[p] = Absent THEN Absent
                                             ELSE "initiated"
    BY DEF AuditTrail
  <2>3. CASE p # Pay(r)
    BY <2>1, <2>2, <2>3 DEF AuditTrail
  <2>4. CASE p = Pay(r)
    <3>1. trail[p] \in Seq(Event) /\ trail'[p] = Append(trail[p], e)
      BY <2>2, <2>4
    <3>2. /\ Len(trail'[p]) = Len(trail[p]) + 1
          /\ \A i \in 1..Len(trail[p]) : trail'[p][i] = trail[p][i]
          /\ trail'[p][Len(trail[p]) + 1] = e
          /\ Len(trail[p]) \in Nat
      BY <2>1, <3>1, AppendProperties
    <3>3. e.from = IF Len(trail[p]) = 0 THEN "initiated"
                   ELSE trail[p][Len(trail[p])].to
      BY <2>2, <2>4, <3>2 DEF e, AuditTrail
    <3>4. status'[p] = e.to
      BY <2>2, <2>4 DEF e
    <3>5. ASSUME NEW i \in 1..Len(trail'[p])
          PROVE  trail'[p][i].from = IF i = 1 THEN "initiated" ELSE trail'[p][i-1].to
      <4>1. CASE i = Len(trail[p]) + 1
        BY <3>2, <3>3, <4>1
      <4>2. CASE i \in 1..Len(trail[p])
        <5>1. i # 1 => i - 1 \in 1..Len(trail[p])
          BY <3>2, <4>2
        <5>2. trail[p][i].from = IF i = 1 THEN "initiated" ELSE trail[p][i-1].to
          BY <4>2 DEF AuditTrail
        <5>3. trail'[p][i] = trail[p][i]
          BY <3>2, <4>2
        <5>4. i # 1 => trail'[p][i-1] = trail[p][i-1]
          BY <3>2, <5>1
        <5> QED
          BY <5>2, <5>3, <5>4
      <4> QED
        BY <3>2, <4>1, <4>2
    <3> QED
      BY <3>2, <3>4, <3>5
  <2> QED
    BY <2>3, <2>4
<1> QED
  BY <1>1, <1>2, <1>3, StepCases
     DEF vars, ArriveCreate, ArriveTransition, CreateEvent, GetByIDForUpdate, UpdateHitsRow,
         InsertEvent, Rollback

-----------------------------------------------------------------------------
(* Invariants of the specification *)

\* The inductive invariant holds in every reachable state.
LEMMA Invariance == Spec => []IInv
<1>1. IInv /\ [Next]_vars => IInv'
  BY TypeStep, CallingStep, CreationStep, LockingStep, ReadingStep, RecordingStep,
     AuditTrailStep DEF IInv
<1> QED
  BY InitInvariant, <1>1, PTL DEF Spec

\* The tables, the locks and the requests' local states keep their types, for
\* any number of payments and of concurrent requests.
THEOREM TypeCorrect == Spec => []TypeOK
BY Invariance, PTL DEF IInv

\* The audit trail always explains the status of its payment: transition()
\* writes both in one transaction, under the row lock.
THEOREM AuditTrailExplains == Spec => []AuditTrail
BY Invariance, PTL DEF IInv

\* What transition() read FOR UPDATE is still the committed status when it
\* updates, logs and commits.
THEOREM ReadsStayCurrent == Spec => []ReadStaysCurrent
<1>1. IInv => ReadStaysCurrent
  BY DEF IInv, Reading, Holding, ReadStaysCurrent
<1> QED
  BY Invariance, <1>1, PTL

\* Whoever waits for a row lock waits for a request that is in its transaction
\* and waits for nobody.
THEOREM NoWaitingChain == Spec => []WaitsForRunning
<1>1. IInv => WaitsForRunning
  <2> SUFFICES ASSUME IInv, NEW r \in Requests, Waiting(r)
               PROVE  pc[lock[Pay(r)]] \in InTransaction /\ ~Waiting(lock[Pay(r)])
    BY DEF WaitsForRunning
  <2> DEFINE holder == lock[Pay(r)]
  <2>1. Pay(r) \in Payments /\ holder # NoRequest
    BY DEF Waiting, IInv, TypeOK, Calling, Calls, Pay
  <2>2. pc[holder] \in Holding /\ Pay(holder) = Pay(r)
    BY <2>1 DEF IInv, Locking
  <2> HIDE DEF holder
  <2>3. lock[Pay(holder)] = holder
    BY <2>2 DEF holder
  <2> QED
    BY <2>2, <2>3 DEF Waiting, Holding, InTransaction, holder
<1> QED
  BY Invariance, <1>1, PTL

-----------------------------------------------------------------------------
(* Refinement *)

\* Every step of the service is a step of the ledger or leaves it alone.
LEMMA LedgerStep == IInv /\ [Next]_vars => [Ledger!Next]_(Ledger!ledger)
<1> SUFFICES ASSUME IInv, [Next]_vars PROVE [Ledger!Next]_(Ledger!ledger)
  OBVIOUS
<1> USE DEF IInv, TypeOK
<1>1. CASE UNCHANGED <<status, opened, trail>>
  BY <1>1 DEF Ledger!ledger
<1>2. ASSUME NEW r \in Requests, Insert(r)
      PROVE  Ledger!Next
  <2>1. Pay(r) \in Payments /\ Ledger!Open(Pay(r))
    BY <1>2 DEF Insert, Calling, Calls, Creation, Pay, Ledger!Open, Ledger!Absent, Absent
  <2> QED
    BY <2>1 DEF Ledger!Next
<1>3. ASSUME NEW r \in Requests, CreateEvent(r)
      PROVE  Ledger!Next
  <2>1. Pay(r) \in Payments /\ Ledger!RecordOpening(Pay(r))
    BY <1>3 DEF CreateEvent, Calling, Calls, Creation, Pay, Ledger!RecordOpening,
            Ledger!Absent, Absent
  <2> QED
    BY <2>1 DEF Ledger!Next
<1>4. ASSUME NEW r \in Requests, Commit(r)
      PROVE  Ledger!Next
  <2>1. Pay(r) \in Payments /\ To(r) \in Targets
    BY <1>4 DEF Commit, Calling, Calls, InTransaction, Pay
  <2>2. status[Pay(r)] = seen[r] /\ CanTransitionTo(seen[r], To(r))
    BY <1>4 DEF Commit, Reading, Holding
  <2>3. \A i \in DOMAIN trail[Pay(r)] : trail[Pay(r)][i].id # r
    <3>1. trail[Pay(r)] \in Seq(Event)
      BY <2>1
    <3>2. DOMAIN trail[Pay(r)] = 1..Len(trail[Pay(r)])
      BY <3>1
    <3> QED
      BY <1>4, <2>1, <3>2 DEF Commit, Recording
  <2>4. Ledger!Move(Pay(r), To(r), r)
    BY <1>4, <2>2, <2>3 DEF Commit, Ledger!Move, Ledger!CanTransitionTo, CanTransitionTo
  <2> QED
    BY <2>1, <2>4 DEF Ledger!Next, Ledger!Targets, Targets
<1> QED
  BY <1>1, <1>2, <1>3, <1>4, StepCases
     DEF vars, ArriveCreate, ArriveTransition, GetByIDForUpdate, UpdateHitsRow, InsertEvent,
         Rollback

\* Seen through its tables, the service with all its locks, failures and
\* crashes implements the ledger: each payment is opened once and then moves
\* along the edges of CanTransitionTo, each move recorded as it happens.
THEOREM ImplementsLedger == Spec => LedgerSpec
<1>1. Init => Ledger!Init
  BY DEF Init, Ledger!Init, Ledger!Absent, Absent
<1> QED
  BY <1>1, LedgerStep, Invariance, PTL DEF Spec, LedgerSpec, Ledger!Spec

-----------------------------------------------------------------------------
(* Money moves once *)

\* How far along a payment is: every edge of the status graph goes up.
Rank(s) ==
  IF s = "initiated" THEN 0
  ELSE IF s = "processing" THEN 1
  ELSE IF s \in {"succeeded", "failed", "cancelled"} THEN 2
  ELSE 3

\* The statuses recorded for a payment rise from one event to the next.
Rising ==
  \A p \in Payments : \A i, j \in 1..Len(trail[p]) :
    i < j => Rank(trail[p][i].to) < Rank(trail[p][j].to)

\* CanTransitionTo only ever moves a payment up.
LEMMA TransitionsRise ==
  ASSUME NEW from, NEW to, CanTransitionTo(from, to)
  PROVE  Rank(from) < Rank(to)
BY DEF CanTransitionTo, Rank

\* Every step keeps the trail rising: Commit appends the target of an edge
\* that starts at the last status recorded.
LEMMA RisingStep == IInv /\ Rising /\ [Next]_vars => Rising'
<1> SUFFICES ASSUME IInv, Rising, [Next]_vars PROVE Rising'
  OBVIOUS
<1> USE DEF IInv, TypeOK
<1>1. CASE UNCHANGED trail
  BY <1>1 DEF Rising
<1>2. ASSUME NEW r \in Requests, Commit(r)
      PROVE  Rising'
  <2> DEFINE e == [id |-> r, from |-> seen[r], to |-> To(r)]
  <2>1. e \in Event /\ Pay(r) \in Payments
    BY <1>2 DEF Commit, Event, Calling, Reading, Calls, Targets, Statuses, Holding, Pay, To,
                InTransaction, Active
  <2>2. /\ trail' = [trail EXCEPT ![Pay(r)] = Append(@, e)]
        /\ status[Pay(r)] = seen[r]
        /\ CanTransitionTo(seen[r], e.to)
    BY <1>2 DEF Commit, Reading, Holding
  <2> HIDE DEF e
  <2> SUFFICES ASSUME NEW p \in Payments,
                      NEW i \in 1..Len(trail'[p]), NEW j \in 1..Len(trail'[p]), i < j
               PROVE  Rank(trail'[p][i].to) < Rank(trail'[p][j].to)
    BY DEF Rising
  <2>3. CASE p # Pay(r)
    BY <2>2, <2>3 DEF Rising
  <2>4. CASE p = Pay(r)
    <3>1. trail[p] \in Seq(Event) /\ trail'[p] = Append(trail[p], e)
      BY <2>2, <2>4
    <3>2. /\ Len(trail'[p]) = Len(trail[p]) + 1
          /\ \A n \in 1..Len(trail[p]) : trail'[p][n] = trail[p][n]
          /\ trail'[p][Len(trail[p]) + 1] = e
          /\ Len(trail[p]) \in Nat
      BY <2>1, <3>1, AppendProperties
    <3>3. i \in 1..Len(trail[p])
      BY <3>2
    <3>4. CASE j \in 1..Len(trail[p])
      BY <3>2, <3>3, <3>4 DEF Rising
    <3>5. CASE j = Len(trail[p]) + 1
      <4> DEFINE last == Len(trail[p])
      <4>1. last \in 1..Len(trail[p]) /\ seen[r] = trail[p][last].to
        BY <2>2, <2>4, <3>2, <3>3 DEF AuditTrail
      <4>2. Rank(trail[p][last].to) < Rank(e.to)
        BY <2>2, <4>1, TransitionsRise
      <4>3. i = last \/ Rank(trail[p][i].to) < Rank(trail[p][last].to)
        BY <3>2, <3>3, <4>1 DEF Rising
      <4>4. Rank(trail[p][i].to) \in Nat /\ Rank(trail[p][last].to) \in Nat /\ Rank(e.to) \in Nat
        BY DEF Rank
      <4>5. trail'[p][i] = trail[p][i] /\ trail'[p][j] = e
        BY <3>2, <3>3, <3>5
      <4> QED
        BY <4>2, <4>3, <4>4, <4>5
    <3> QED
      BY <3>2, <3>4, <3>5
  <2> QED
    BY <2>3, <2>4
<1> QED
  BY <1>1, <1>2, StepCases
     DEF vars, ArriveCreate, ArriveTransition, Insert, CreateEvent, GetByIDForUpdate,
         UpdateHitsRow, InsertEvent, Rollback

\* The trail of every payment rises in every reachable state.
LEMMA AlwaysRising == Spec => []Rising
<1>1. Init => Rising
  BY DEF Init, Rising
<1> QED
  BY <1>1, RisingStep, Invariance, PTL DEF Spec

\* However the requests race, no payment is captured twice, refunded twice,
\* or both captured and cancelled.
THEOREM MoneyMovesOnce == Spec => []CapturedOrCancelledOnce
<1>1. Rising => CapturedOrCancelledOnce
  <2> SUFFICES ASSUME Rising, NEW p \in Payments,
                      NEW i \in 1..Len(trail[p]), NEW j \in 1..Len(trail[p]), i # j
               PROVE  /\ trail[p][i].to # trail[p][j].to
                      /\ {trail[p][i].to, trail[p][j].to} # {"succeeded", "cancelled"}
    BY DEF CapturedOrCancelledOnce
  <2>1. Rank(trail[p][i].to) # Rank(trail[p][j].to)
    <3>1. Rank(trail[p][i].to) < Rank(trail[p][j].to) \/ Rank(trail[p][j].to) < Rank(trail[p][i].to)
      BY DEF Rising
    <3>2. Rank(trail[p][i].to) \in Nat /\ Rank(trail[p][j].to) \in Nat
      BY DEF Rank
    <3> QED
      BY <3>1, <3>2
  <2>2. Rank("succeeded") = Rank("cancelled")
    BY DEF Rank
  <2> QED
    BY <2>1, <2>2
<1> QED
  BY <1>1, AlwaysRising, PTL

\* A request answered with success has its own event in the trail.
Answering ==
  \A r \in Requests :
    /\ reply[r] # "none" => pc[r] = "done"
    /\ (reply[r] = "ok" /\ To(r) \in Targets) =>
         \E i \in 1..Len(trail[Pay(r)]) :
           trail[Pay(r)][i].id = r /\ trail[Pay(r)][i].to = To(r)

\* Every step keeps the answers honest: only Commit answers a transition with
\* success, and the trail only grows.
LEMMA AnsweringStep == IInv /\ Answering /\ [Next]_vars => Answering'
<1> SUFFICES ASSUME IInv, Answering, [Next]_vars PROVE Answering'
  OBVIOUS
<1> USE DEF IInv, TypeOK
<1>1. CASE UNCHANGED <<trail, reply, pc, call>>
  BY <1>1 DEF Answering, To, Pay
<1>2. ASSUME NEW r \in Requests, pc[r] \notin {"done"}, UNCHANGED <<trail, reply>>,
             NEW next, pc' = [pc EXCEPT ![r] = next],
             \A q \in Requests \ {r} : call'[q] = call[q]
      PROVE  Answering'
  BY <1>2 DEF Answering, To, Pay
<1>3. ASSUME NEW r \in Requests, NEW reason \in Replies, Finish(r, reason),
             UNCHANGED <<trail, call>>, reason = "ok" => To(r) \notin Targets
      PROVE  Answering'
  BY <1>3 DEF Answering, Finish, To, Pay
<1>4. ASSUME NEW r \in Requests, Commit(r)
      PROVE  Answering'
  <2> DEFINE e == [id |-> r, from |-> seen[r], to |-> To(r)]
  <2>1. e \in Event /\ Pay(r) \in Payments
    BY <1>4 DEF Commit, Event, Calling, Reading, Calls, Targets, Statuses, Holding, Pay, To,
                InTransaction, Active
  <2>2. /\ trail' = [trail EXCEPT ![Pay(r)] = Append(@, e)]
        /\ call' = call
    BY <1>4 DEF Commit
  <2>3. PICK answer \in Replies : Finish(r, answer)
    BY <1>4 DEF Commit, Replies
  <2> HIDE DEF e
  <2>4. /\ trail[Pay(r)] \in Seq(Event)
        /\ trail'[Pay(r)] = Append(trail[Pay(r)], e)
        /\ \A p \in Payments : p # Pay(r) => trail'[p] = trail[p]
    BY <2>1, <2>2
  <2>5. /\ Len(trail'[Pay(r)]) = Len(trail[Pay(r)]) + 1
        /\ \A n \in 1..Len(trail[Pay(r)]) : trail'[Pay(r)][n] = trail[Pay(r)][n]
        /\ trail'[Pay(r)][Len(trail[Pay(r)]) + 1] = e
        /\ Len(trail[Pay(r)]) \in Nat
    BY <2>1, <2>4, AppendProperties
  <2> SUFFICES ASSUME NEW q \in Requests
               PROVE  /\ reply'[q] # "none" => pc'[q] = "done"
                      /\ (reply'[q] = "ok" /\ To(q)' \in Targets) =>
                           \E i \in 1..Len(trail'[Pay(q)']) :
                             /\ trail'[Pay(q)'][i].id = q
                             /\ trail'[Pay(q)'][i].to = To(q)'
    BY DEF Answering
  <2>0. To(q)' = To(q) /\ Pay(q)' = Pay(q)
    BY <2>2 DEF To, Pay
  <2>6. CASE q = r
    <3>1. Len(trail[Pay(r)]) + 1 \in 1..Len(trail'[Pay(r)])
      BY <2>5
    <3>2. e.id = r /\ e.to = To(r)
      BY DEF e
    <3> QED
      BY <2>0, <2>3, <2>5, <2>6, <3>1, <3>2 DEF Finish
  <2>7. CASE q # r
    <3>1. reply'[q] = reply[q] /\ pc'[q] = pc[q]
      BY <2>3, <2>7 DEF Finish
    <3>2. reply[q] # "none" => Pay(q) \in Payments
      BY DEF Answering, Calling, Calls, Pay
    <3>3. 1..Len(trail[Pay(r)]) \subseteq 1..Len(trail'[Pay(r)])
      BY <2>5
    <3>4. reply[q] = "ok" /\ To(q) \in Targets =>
            \E i \in 1..Len(trail'[Pay(q)]) :
              trail'[Pay(q)][i].id = q /\ trail'[Pay(q)][i].to = To(q)
      <4>1. SUFFICES ASSUME reply[q] = "ok", To(q) \in Targets
                     PROVE  \E i \in 1..Len(trail'[Pay(q)]) :
                              trail'[Pay(q)][i].id = q /\ trail'[Pay(q)][i].to = To(q)
        OBVIOUS
      <4>2. PICK i \in 1..Len(trail[Pay(q)]) :
              trail[Pay(q)][i].id = q /\ trail[Pay(q)][i].to = To(q)
        BY <4>1 DEF Answering
      <4>3. i \in 1..Len(trail'[Pay(q)]) /\ trail'[Pay(q)][i] = trail[Pay(q)][i]
        BY <2>4, <2>5, <3>2, <3>3, <4>1
      <4> QED
        BY <4>2, <4>3
    <3> QED
      BY <2>0, <3>1, <3>4 DEF Answering
  <2> QED
    BY <2>6, <2>7
<1>5. ASSUME NEW r \in Requests, CreateEvent(r)
      PROVE  Answering'
  <2>1. To(r) = "initiated" /\ "initiated" \notin Targets
    BY <1>5 DEF CreateEvent, Calling, Creating, Targets
  <2>2. PICK answer \in Replies : Finish(r, answer)
    BY <1>5 DEF CreateEvent, Replies
  <2> QED
    BY <1>3, <1>5, <2>1, <2>2 DEF CreateEvent
<1>6. ASSUME NEW r \in Requests, Insert(r)
      PROVE  Answering'
  BY <1>2, <1>3, <1>6 DEF Insert, Replies
<1> QED
  BY <1>1, <1>2, <1>3, <1>4, <1>5, <1>6, StepCases
     DEF vars, ArriveCreate, ArriveTransition, GetByIDForUpdate, UpdateHitsRow, InsertEvent,
         Rollback

\* A request answered with success has its event in the trail, always.
LEMMA AlwaysAnswering == Spec => []Answering
<1>1. Init => Answering
  BY DEF Init, Answering
<1> QED
  BY <1>1, AnsweringStep, Invariance, PTL DEF Spec

\* Of the requests that ask for the same transition of a payment at most one
\* is answered with success, and its event is in the audit trail.
THEOREM AtMostOneWinner == Spec => []OneWinner
<1>1. Answering /\ CapturedOrCancelledOnce /\ IInv => OneWinner
  <2> SUFFICES ASSUME Answering, CapturedOrCancelledOnce, IInv,
                      NEW r \in Requests, reply[r] = "ok", To(r) \in Targets,
                      NEW q \in Requests \ {r}, call[q] = call[r], reply[q] = "ok"
               PROVE  FALSE
    BY DEF OneWinner, Answering
  <2>1. Pay(r) \in Payments /\ Pay(q) = Pay(r) /\ To(q) = To(r)
    BY DEF IInv, Answering, Calling, Calls, Pay, To
  <2>2. PICK i \in 1..Len(trail[Pay(r)]) :
          trail[Pay(r)][i].id = r /\ trail[Pay(r)][i].to = To(r)
    BY DEF Answering
  <2>3. PICK j \in 1..Len(trail[Pay(r)]) :
          trail[Pay(r)][j].id = q /\ trail[Pay(r)][j].to = To(r)
    BY <2>1 DEF Answering
  <2>4. i # j
    BY <2>2, <2>3
  <2> QED
    BY <2>1, <2>2, <2>3, <2>4 DEF CapturedOrCancelledOnce
<1> QED
  BY <1>1, AlwaysAnswering, MoneyMovesOnce, Invariance, PTL

=============================================================================
