-------------------------- MODULE MCCreatePayment --------------------------
(* Model-checking instances of CreatePayment: the bodies, what validation   *)
(* finds wrong with each, and the symmetry of the identifiers.              *)
EXTENDS CreatePayment, TLC

CONSTANTS good, other, cheap, short

Sample == INSTANCE SampleBodies WITH
  MaxAmount <- 10, Now <- [month |-> 6, year |-> 2025],
  UPIIDs <- {<<"name", "@", "bank">>}, IFSCs <- {}

Sent == good :> Sample!ByCard(Sample!Visa, 3) @@ other :> Sample!ByUPI
        @@ cheap :> Sample!Free @@ short :> Sample!ShortCard

KindsOf(bodies) == [b \in bodies |-> Sample!KindOf(Sent[b])]

\* Two acceptable bodies, one, one beside a body whose handler panics, and one
\* of each class that the handler treats differently.
MCTwoValid == KindsOf({good, other})
MCOneValid == KindsOf({good})
MCPanicking == KindsOf({good, short})
MCMixed == KindsOf({good, cheap, short})

Symmetry == Permutations(Requests) \cup Permutations(Keys)

=============================================================================
