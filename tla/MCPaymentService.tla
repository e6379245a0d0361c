-------------------------- MODULE MCPaymentService --------------------------
(* Model-checking instance of PaymentService: symmetry of the identifiers.  *)
EXTENDS PaymentService, TLC

Symmetry == Permutations(Payments) \cup Permutations(Requests)

=============================================================================
