-------------------------- MODULE AtMostOncePayment -------------------------
(***************************************************************************)
(* What the idempotency layer promises of a key, without requests, request *)
(* hashes, sweeps or crashes: under one key at most one payment is ever    *)
(* made; a key is completed only after its payment was made; a completed   *)
(* key stays completed.  A key given up as failed may still be completed   *)
(* later, which is the weakest part of the promise.                        *)
(***************************************************************************)
CONSTANTS Keys, Requests

VARIABLES made,      \* the payments made under each key
          outcome    \* status of each key, "absent" before its first use

register == <<made, outcome>>

Init ==
  /\ made = [k \in Keys |-> {}]
  /\ outcome = [k \in Keys |-> "absent"]

Claim(k) ==
  /\ outcome[k] = "absent"
  /\ outcome' = [outcome EXCEPT ![k] = "pending"]
  /\ UNCHANGED made

Make(k, payment) ==
  /\ outcome[k] \in {"pending", "failed"}
  /\ made[k] = {}
  /\ made' = [made EXCEPT ![k] = {payment}]
  /\ UNCHANGED outcome

Complete(k) ==
  /\ outcome[k] \in {"pending", "failed"}
  /\ made[k] # {}
  /\ outcome' = [outcome EXCEPT ![k] = "completed"]
  /\ UNCHANGED made

Fail(k) ==
  /\ outcome[k] = "pending"
  /\ outcome' = [outcome EXCEPT ![k] = "failed"]
  /\ UNCHANGED made

Next ==
  \E k \in Keys :
    \/ Claim(k)
    \/ \E payment \in Requests : Make(k, payment)
    \/ Complete(k)
    \/ Fail(k)

Spec == Init /\ [][Next]_register

=============================================================================
