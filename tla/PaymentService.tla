--------------------------- MODULE PaymentService ---------------------------
(***************************************************************************)
(* internal/service/payment.go over internal/repository/payment.go: how    *)
(* concurrent HTTP requests create payments and move them through their    *)
(* statuses.                                                               *)
(*                                                                         *)
(* Each request is one handler goroutine, of any server instance.  Every   *)
(* SQL statement is one step, so statements of different requests          *)
(* interleave freely.  Create runs two statements that commit separately   *)
(* (Insert, then createEvent).  Confirm, Capture, Cancel and Refund run    *)
(* transition(): Begin, SELECT ... FOR UPDATE, UPDATE, INSERT event,       *)
(* Commit.  What a transaction has written stays invisible until Commit.   *)
(* Every statement may fail, and a request may die at any point.           *)
(***************************************************************************)
EXTENDS PaymentStatus, Sequences, FiniteSets, Integers

CONSTANTS Payments,    \* payment ids (UUIDv7, never reused)
          Requests,    \* HTTP requests, each handled once
          NoRequest,   \* the holder of a row lock nobody holds
          NoCall       \* the call of a request that has not arrived

ASSUME NoRequestAssumption == NoRequest \notin Requests

VARIABLES
  status,    \* payments.status of the committed row, or Absent
  opened,    \* payments with a committed event whose from_status is NULL
  trail,     \* the other committed payment_events rows, in commit order
  lock,      \* the request whose transaction holds the row lock
  counted,   \* requests that incremented payment_state_transitions_total
  pc,        \* the next statement of each request
  call,      \* the payment and the status a request asks for
  seen,      \* the status a transition read under SELECT ... FOR UPDATE
  reply      \* what the handler answered, "none" if it died

tables == <<status, opened, trail>>
vars == <<status, opened, trail, lock, counted, pc, call, seen, reply>>

Calls == [payment : Payments, to : Targets \cup {"initiated"}]
Event == [id : Requests, from : Statuses, to : Statuses]
Replies == {"none", "ok", "not_found", "invalid_transition", "error"}

Creating == {"insert", "event"}
InTransaction == {"read", "update", "log", "commit"}
Active == Creating \cup InTransaction

Pay(r) == call[r].payment
To(r) == call[r].to

-----------------------------------------------------------------------------
(* Helpers *)

\* The handler returns: respond, respondError or (answer "none") nothing.
Finish(r, answer) ==
  /\ pc' = [pc EXCEPT ![r] = "done"]
  /\ reply' = [reply EXCEPT ![r] = answer]

\* The row locks of r's transaction go when it commits or rolls back.
Release(r) ==
  lock' = [p \in Payments |-> IF lock[p] = r THEN NoRequest ELSE lock[p]]

\* WithTransaction's error path (also taken, with nothing to release, by the
\* autocommitted statements of Create): whatever r wrote is discarded.
Rollback(r, answer) ==
  /\ Release(r)
  /\ Finish(r, answer)
  /\ UNCHANGED <<status, opened, trail, counted, call, seen>>

Init ==
  /\ status = [p \in Payments |-> Absent]
  /\ opened = {}
  /\ trail = [p \in Payments |-> <<>>]
  /\ lock = [p \in Payments |-> NoRequest]
  /\ counted = {}
  /\ pc = [r \in Requests |-> "idle"]
  /\ call = [r \in Requests |-> NoCall]
  /\ seen = [r \in Requests |-> Absent]
  /\ reply = [r \in Requests |-> "none"]

-----------------------------------------------------------------------------
(* Create *)

\* POST /v1/payments.  The id is a fresh UUIDv7: no other request creates it.
ArriveCreate(r, p) ==
  /\ pc[r] = "idle"
  /\ status[p] = Absent
  /\ \A q \in Requests : call[q] # [payment |-> p, to |-> "initiated"]
  /\ call' = [call EXCEPT ![r] = [payment |-> p, to |-> "initiated"]]
  /\ pc' = [pc EXCEPT ![r] = "insert"]
  /\ UNCHANGED <<status, opened, trail, lock, counted, seen, reply>>

\* repo.Insert commits on its own.  The error may also be a lost answer of a
\* statement that took effect; Create then returns without createEvent.
Insert(r) ==
  /\ pc[r] = "insert"
  /\ status' = [status EXCEPT ![Pay(r)] = "initiated"]
  /\ \/ /\ pc' = [pc EXCEPT ![r] = "event"]
        /\ UNCHANGED reply
     \/ Finish(r, "error")
  /\ UNCHANGED <<opened, trail, lock, counted, call, seen>>

\* createEvent commits on its own.  The foreign key of payment_events takes a
\* KEY SHARE lock on the payment row, so it waits for SELECT ... FOR UPDATE.
CreateEvent(r) ==
  /\ pc[r] = "event"
  /\ lock[Pay(r)] = NoRequest
  /\ opened' = opened \cup {Pay(r)}
  /\ \E answer \in {"ok", "error"} : Finish(r, answer)
  /\ UNCHANGED <<status, trail, lock, counted, call, seen>>

-----------------------------------------------------------------------------
(* Confirm, Capture, Cancel, Refund: transition() *)

\* POST /v1/payments/{id}/<verb>, for any id the client cares to name, up to
\* pool.Begin: an open transaction holds nothing until its first statement.
ArriveTransition(r, p, to) ==
  /\ pc[r] = "idle"
  /\ call' = [call EXCEPT ![r] = [payment |-> p, to |-> to]]
  /\ pc' = [pc EXCEPT ![r] = "read"]
  /\ UNCHANGED <<status, opened, trail, lock, counted, seen, reply>>

\* GetByIDForUpdate finds no row: ErrPaymentNotFound rolls back.
RejectUnknown(r) ==
  /\ pc[r] = "read"
  /\ status[Pay(r)] = Absent
  /\ Rollback(r, "not_found")

\* MUTANT of GetByIDForUpdate: a plain SELECT that takes no row lock.
GetByIDUnlocked(r) ==
  /\ pc[r] = "read"
  /\ status[Pay(r)] # Absent
  /\ seen' = [seen EXCEPT ![r] = status[Pay(r)]]
  /\ pc' = [pc EXCEPT ![r] = "update"]
  /\ UNCHANGED <<status, opened, trail, lock, counted, call, reply>>

\* GetByIDForUpdate: waits for the row lock, takes it, reads the row.
GetByIDForUpdate(r) ==
  /\ pc[r] = "read"
  /\ status[Pay(r)] # Absent
  /\ lock[Pay(r)] = NoRequest
  /\ lock' = [lock EXCEPT ![Pay(r)] = r]
  /\ seen' = [seen EXCEPT ![r] = status[Pay(r)]]
  /\ pc' = [pc EXCEPT ![r] = "update"]
  /\ UNCHANGED <<status, opened, trail, counted, call, reply>>

\* MUTANT of RejectTransition: a transition that is not possible any more is
\* taken for one already done and answered with success.
AcceptStaleTransition(r) ==
  /\ pc[r] = "update"
  /\ ~CanTransitionTo(seen[r], To(r))
  /\ Rollback(r, "ok")

\* MUTANT of RejectTransition: returns without ending the transaction.
RejectAndLeakLock(r) ==
  /\ pc[r] = "update"
  /\ ~CanTransitionTo(seen[r], To(r))
  /\ Finish(r, "invalid_transition")
  /\ UNCHANGED <<status, opened, trail, lock, counted, call, seen>>

\* CanTransitionTo refuses: ErrInvalidStateTransition rolls back.
RejectTransition(r) ==
  /\ pc[r] = "update"
  /\ ~CanTransitionTo(seen[r], To(r))
  /\ Rollback(r, "invalid_transition")

\* MUTANT of UpdateStatus: runs on the pool instead of the transaction, so
\* the new status is visible at once and survives a rollback.
UpdateStatusOnPool(r) ==
  /\ pc[r] = "update"
  /\ CanTransitionTo(seen[r], To(r))
  /\ lock[Pay(r)] \in {NoRequest, r}
  /\ lock' = [lock EXCEPT ![Pay(r)] = r]
  /\ status' = [status EXCEPT ![Pay(r)] = To(r)]
  /\ counted' = counted \cup {r}
  /\ pc' = [pc EXCEPT ![r] = "log"]
  /\ UNCHANGED <<opened, trail, call, seen, reply>>

\* UpdateStatus: UPDATE ... WHERE status = from takes (or keeps) the row lock.
\* No row matches if the status is not the one read: the error rolls back.
\* The transition counter is incremented here, before the commit.
UpdateStatus(r) ==
  /\ pc[r] = "update"
  /\ CanTransitionTo(seen[r], To(r))
  /\ lock[Pay(r)] \in {NoRequest, r}
  /\ IF status[Pay(r)] = seen[r]
       THEN /\ lock' = [lock EXCEPT ![Pay(r)] = r]
            /\ counted' = counted \cup {r}
            /\ pc' = [pc EXCEPT ![r] = "log"]
            /\ UNCHANGED <<status, opened, trail, call, seen, reply>>
       ELSE Rollback(r, "invalid_transition")

\* tx.InsertEvent
InsertEvent(r) ==
  /\ pc[r] = "log"
  /\ pc' = [pc EXCEPT ![r] = "commit"]
  /\ UNCHANGED <<status, opened, trail, lock, counted, call, seen, reply>>

\* MUTANT of Commit: the event was never written (its error was ignored).
CommitWithoutEvent(r) ==
  /\ pc[r] = "commit"
  /\ status' = [status EXCEPT ![Pay(r)] = To(r)]
  /\ Release(r)
  /\ \E answer \in {"ok", "error", "none"} : Finish(r, answer)
  /\ UNCHANGED <<opened, trail, counted, call, seen>>

\* MUTANT of Commit: createEvent is passed Absent as the event's from_status.
CommitWithoutFrom(r) ==
  /\ pc[r] = "commit"
  /\ status' = [status EXCEPT ![Pay(r)] = To(r)]
  /\ trail' = [trail EXCEPT ![Pay(r)] =
                 Append(@, [id |-> r, from |-> Absent, to |-> To(r)])]
  /\ Release(r)
  /\ \E answer \in {"ok", "error", "none"} : Finish(r, answer)
  /\ UNCHANGED <<opened, counted, call, seen>>

\* tx.Commit makes the UPDATE and the INSERT visible together.  Its answer may
\* be lost ("error"), and the process may die before it replies ("none").
Commit(r) ==
  /\ pc[r] = "commit"
  /\ status' = [status EXCEPT ![Pay(r)] = To(r)]
  /\ trail' = [trail EXCEPT ![Pay(r)] =
                 Append(@, [id |-> r, from |-> seen[r], to |-> To(r)])]
  /\ Release(r)
  /\ \E answer \in {"ok", "error", "none"} : Finish(r, answer)
  /\ UNCHANGED <<opened, counted, call, seen>>

-----------------------------------------------------------------------------
(* Failures *)

\* A statement (or uuid.NewV7, or Begin) fails without effect: transition()
\* rolls back, Create returns the error, and the handler answers an error.
StatementFails(r) ==
  /\ pc[r] \in Active
  /\ pc[r] = "update" => CanTransitionTo(seen[r], To(r))
  /\ Rollback(r, "error")

\* The request dies (process crash): the server aborts its transaction.
Crash(r) ==
  /\ pc[r] \in Active
  /\ Rollback(r, "none")

-----------------------------------------------------------------------------

Arrive(r) ==
  \E p \in Payments :
    \/ ArriveCreate(r, p)
    \/ \E to \in Targets : ArriveTransition(r, p, to)

\* The steps a request takes when the database answers it.
Step(r) ==
  \/ Insert(r)
  \/ CreateEvent(r)
  \/ RejectUnknown(r)
  \/ GetByIDForUpdate(r)
  \/ RejectTransition(r)
  \/ UpdateStatus(r)
  \/ InsertEvent(r)
  \/ Commit(r)

\* Every request has been handled: nothing is left to happen.
AllDone ==
  /\ \A r \in Requests : pc[r] = "done"
  /\ UNCHANGED vars

Next ==
  \/ \E r \in Requests : Arrive(r) \/ Step(r) \/ StatementFails(r) \/ Crash(r)
  \/ AllDone

Spec == Init /\ [][Next]_vars

\* The database answers every statement that is not waiting for a lock.
FairSpec == Spec /\ \A r \in Requests : WF_vars(Step(r))

-----------------------------------------------------------------------------
(* Properties *)

\* Types of the tables, of the locks and of each request's local state.
TypeOK ==
  /\ status \in [Payments -> Statuses \cup {Absent}]
  /\ opened \subseteq Payments
  /\ trail \in [Payments -> Seq(Event)]
  /\ lock \in [Payments -> Requests \cup {NoRequest}]
  /\ counted \subseteq Requests
  /\ pc \in [Requests -> Active \cup {"idle", "done"}]
  /\ call \in [Requests -> Calls \cup {NoCall}]
  /\ seen \in [Requests -> Statuses \cup {Absent}]
  /\ reply \in [Requests -> Replies]

\* The audit trail explains the status of every payment: its transitions
\* chain from "initiated" to the current status with no gap and no fork
\* (transition() writes both under one lock, in one transaction).
AuditTrail ==
  \A p \in Payments :
    /\ \A i \in 1..Len(trail[p]) :
         trail[p][i].from = IF i = 1 THEN "initiated" ELSE trail[p][i-1].to
    /\ status[p] = IF Len(trail[p]) > 0 THEN trail[p][Len(trail[p])].to
                   ELSE IF status[p] = Absent THEN Absent ELSE "initiated"

\* What a transaction read FOR UPDATE is still the committed status when it
\* updates, logs and commits; the UPDATE of UpdateStatus never misses its row.
ReadStaysCurrent ==
  \A r \in Requests :
    pc[r] \in {"update", "log", "commit"} => status[Pay(r)] = seen[r]

\* Money moves once: however Capture, Cancel and Refund race, no payment is
\* captured twice, refunded twice, or both captured and cancelled.
CapturedOrCancelledOnce ==
  \A p \in Payments :
    \A i, j \in 1..Len(trail[p]) :
      i # j => /\ trail[p][i].to # trail[p][j].to
               /\ {trail[p][i].to, trail[p][j].to} # {"succeeded", "cancelled"}

\* Of the requests that ask for the same transition of a payment, at most one
\* is answered with success, and its own event is in the audit trail.
OneWinner ==
  \A r \in Requests :
    (reply[r] = "ok" /\ To(r) \in Targets) =>
      /\ \E i \in 1..Len(trail[Pay(r)]) :
           trail[Pay(r)][i].id = r /\ trail[Pay(r)][i].to = To(r)
      /\ \A q \in Requests \ {r} : call[q] = call[r] => reply[q] # "ok"

\* Requests that wait for a row lock: SELECT ... FOR UPDATE, the UPDATE, and the
\* foreign key check of createEvent.
Waiting(r) ==
  /\ \/ pc[r] = "read" /\ status[Pay(r)] # Absent
     \/ pc[r] = "update" /\ CanTransitionTo(seen[r], To(r))
     \/ pc[r] = "event"
  /\ lock[Pay(r)] \notin {NoRequest, r}

\* No chain of requests waits for one another: whoever waits for a row waits for
\* a request that is still in its transaction and itself waits for nobody, so
\* its next statement, whatever comes of it, brings the lock nearer.
WaitsForRunning ==
  \A r \in Requests :
    Waiting(r) => LET holder == lock[Pay(r)]
                  IN  pc[holder] \in InTransaction /\ ~Waiting(holder)

\* Seen through its tables alone, the service implements PaymentLedger.
Ledger == INSTANCE PaymentLedger
LedgerSpec == Ledger!Spec

\* Every request that arrived returns from its handler: a row lock is never
\* left behind for the requests waiting on it (WithTransaction always ends
\* its transaction).
EveryCallReturns ==
  \A r \in Requests : pc[r] \in Active ~> pc[r] = "done"

\* VIOLATED.  internal/metrics/metrics.go says the counter is the "Total
\* number of payment state transitions": a request that incremented it and
\* has returned made the transition.
CountedTransitionsHappened ==
  \A r \in counted :
    pc[r] = "done" => \E i \in 1..Len(trail[Pay(r)]) : trail[Pay(r)][i].id = r

=============================================================================
