--------------------------- MODULE PaymentLedger ---------------------------
(***************************************************************************)
(* What the payment service promises of a payment and of its audit trail,  *)
(* with no requests, transactions, locks or failures: a payment is opened  *)
(* once, and from then on each step moves it along one edge of the status  *)
(* graph and records that edge at the same instant.                        *)
(***************************************************************************)
EXTENDS PaymentStatus, Sequences

CONSTANTS Payments,   \* payment identifiers
          Requests    \* identifiers of transitions (one per request)

VARIABLES status,     \* status of each payment, or Absent
          opened,     \* payments whose creation is in the audit trail
          trail       \* the transitions recorded for each payment, in order

ledger == <<status, opened, trail>>

Init ==
  /\ status = [p \in Payments |-> Absent]
  /\ opened = {}
  /\ trail = [p \in Payments |-> <<>>]

Open(p) ==
  /\ status[p] = Absent
  /\ status' = [status EXCEPT ![p] = "initiated"]
  /\ UNCHANGED <<opened, trail>>

RecordOpening(p) ==
  /\ status[p] # Absent
  /\ p \notin opened
  /\ opened' = opened \cup {p}
  /\ UNCHANGED <<status, trail>>

Move(p, to, id) ==
  /\ CanTransitionTo(status[p], to)
  /\ \A i \in DOMAIN trail[p] : trail[p][i].id # id
  /\ trail' = [trail EXCEPT ![p] =
                 Append(@, [id |-> id, from |-> status[p], to |-> to])]
  /\ status' = [status EXCEPT ![p] = to]
  /\ UNCHANGED opened

Next ==
  \E p \in Payments :
    \/ Open(p)
    \/ RecordOpening(p)
    \/ \E to \in Targets, id \in Requests : Move(p, to, id)

Spec == Init /\ [][Next]_ledger

=============================================================================
