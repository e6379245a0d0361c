--------------------------- MODULE PaymentStatus ---------------------------
(***************************************************************************)
(* The status graph of a payment, from internal/domain/payment.go.  It is  *)
(* constant-level: every module that speaks of a payment's status uses it. *)
(***************************************************************************)

\* The values of the PaymentStatus enumeration (and of the SQL enum type).
Statuses == {"initiated", "processing", "succeeded", "failed", "cancelled",
             "refunded"}

\* The status read for a row that does not exist.
Absent == "absent"

\* What Confirm, Capture, Cancel and Refund each ask transition() for.
Targets == {"processing", "succeeded", "cancelled", "refunded"}

\* MUTANT of CanTransitionTo: a captured payment may still be cancelled.
CanCancelCaptured(from, to) ==
  \/ from = "initiated"  /\ to \in {"processing", "cancelled"}
  \/ from = "processing" /\ to \in {"succeeded", "failed", "cancelled"}
  \/ from = "succeeded"  /\ to \in {"refunded", "cancelled"}

\* Payment.CanTransitionTo: the edges of the status graph.
CanTransitionTo(from, to) ==
  \/ from = "initiated"  /\ to \in {"processing", "cancelled"}
  \/ from = "processing" /\ to \in {"succeeded", "failed", "cancelled"}
  \/ from = "succeeded"  /\ to = "refunded"

=============================================================================
