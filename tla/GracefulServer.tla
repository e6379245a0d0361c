--------------------------- MODULE GracefulServer ---------------------------
(***************************************************************************)
(* What Server.Start promises the clients of a process, with no pool, no   *)
(* sweeps and no configuration: it takes requests only while it is up,     *)
(* answers each at most once, and after a signal it leaves in an orderly   *)
(* way only when everything it took has been answered.  At any time it may *)
(* instead go down and lose what it was working on, but then its exit code *)
(* says so.                                                                *)
(***************************************************************************)
CONSTANTS Requests

VARIABLES server,    \* "down", "up", "stopping" or "gone"
          request,   \* request[r]: "none", "taken", "answered" or "lost"
          orderly    \* whether the process said that it ended well

service == <<server, request, orderly>>

Init ==
  /\ server = "down"
  /\ request = [r \in Requests |-> "none"]
  /\ orderly = FALSE

ComeUp == server = "down" /\ server' = "up" /\ UNCHANGED <<request, orderly>>

Stop == server = "up" /\ server' = "stopping" /\ UNCHANGED <<request, orderly>>

Take(r) ==
  /\ server = "up" /\ request[r] = "none"
  /\ request' = [request EXCEPT ![r] = "taken"]
  /\ UNCHANGED <<server, orderly>>

Answer(r) ==
  /\ server \in {"up", "stopping"} /\ request[r] = "taken"
  /\ request' = [request EXCEPT ![r] = "answered"]
  /\ UNCHANGED <<server, orderly>>

Leave ==
  /\ server = "stopping"
  /\ \A r \in Requests : request[r] # "taken"
  /\ server' = "gone" /\ orderly' = TRUE
  /\ UNCHANGED request

Die ==
  /\ server # "gone"
  /\ server' = "gone"
  /\ request' = [r \in Requests |-> IF request[r] = "taken" THEN "lost" ELSE request[r]]
  /\ UNCHANGED orderly

Next ==
  \/ ComeUp \/ Stop \/ Leave \/ Die
  \/ \E r \in Requests : Take(r) \/ Answer(r)

Spec == Init /\ [][Next]_service

=============================================================================
