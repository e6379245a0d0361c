---------------------------- MODULE PagedReading ----------------------------
(***************************************************************************)
(* What the paged list promises a client that reads all payments of one    *)
(* customer, with no limits, cursors or rows: payments appear at any time  *)
(* and stay; each page shows payments of that customer older than all that *)
(* were shown before, and at least one unless it is the last; and nothing  *)
(* there was at the beginning is missing at the end, provided the reading  *)
(* is a whole one.                                                         *)
(***************************************************************************)
EXTENDS Integers

CONSTANTS Payments,   \* numbers: the older, the smaller
          Customers

VARIABLES owned,      \* owned[c]: the payments of customer c
          reader,     \* whose payments are read
          state,      \* "idle", "listing" or "over"
          whole,      \* whether every page is promised, or just one
          owed,       \* what was there when the reading began
          shown       \* what it has shown

reading == <<owned, reader, state, whole, owed, shown>>

Init ==
  /\ owned = [c \in Customers |-> {}]
  /\ reader \in Customers /\ state = "idle" /\ whole \in BOOLEAN
  /\ owed = {} /\ shown = {}

Appear(i, c) ==
  /\ \A d \in Customers : i \notin owned[d]
  /\ owned' = [owned EXCEPT ![c] = @ \cup {i}]
  /\ UNCHANGED <<reader, state, whole, owed, shown>>

Begin(c) ==
  /\ state # "listing"
  /\ state' = "listing" /\ reader' = c /\ whole' \in BOOLEAN
  /\ owed' = owned[c] /\ shown' = {}
  /\ UNCHANGED owned

Show(p) ==
  /\ state = "listing"
  /\ p \subseteq owned[reader]
  /\ \A i \in p, j \in shown : i < j
  /\ shown' = shown \cup p
  /\ \/ state' = "listing" /\ p # {}
     \/ state' = "over" /\ (whole => owed \subseteq shown')
  /\ UNCHANGED <<owned, reader, whole, owed>>

Next ==
  \/ \E i \in Payments, c \in Customers : Appear(i, c)
  \/ \E c \in Customers : Begin(c)
  \/ \E p \in SUBSET Payments : Show(p)

Spec == Init /\ [][Next]_reading

=============================================================================
