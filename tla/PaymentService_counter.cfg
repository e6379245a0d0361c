\* The transition counter against the transitions that were committed.
SPECIFICATION Spec
CONSTANTS
  Payments = {p1}
  Requests = {r1, r2}
  NoRequest = NoRequest
  NoCall = NoCall
INVARIANT CountedTransitionsHappened
