------------------------- MODULE MCServerLifecycle -------------------------
(* Model-checking instance of ServerLifecycle: environments that load, fail *)
(* to load, and give the pool one connection, two, none, or fewer than none.*)
EXTENDS ServerLifecycle

Good == [url |-> TRUE, key |-> TRUE, reachable |-> TRUE, conns |-> {1}]

MCEnvs == {Good, [Good EXCEPT !.url = FALSE], [Good EXCEPT !.key = FALSE],
           [Good EXCEPT !.reachable = FALSE]}
          \cup {[Good EXCEPT !.conns = c] : c \in {{}, {-1}, {0}, {4}, {8}, {9}}}

=============================================================================
