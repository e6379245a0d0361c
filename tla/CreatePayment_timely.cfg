\* No handler outlives sweepMinAge; one body of each kind of rejection.
SPECIFICATION Spec
CONSTANTS
  Requests = {r1, r2, r3}
  Keys = {k1}
  good = good
  other = other
  cheap = cheap
  short = short
  Bodies = {good, cheap, short}
  BodyKind <- MCMixed
  StartupSweeps = {startup}
  Workers = {worker}
  SweepLimit = 1
  SlowHandlers = FALSE
  None = None
SYMMETRY Symmetry
INVARIANT ReplaysAgree
PROPERTY ResolvedIsFinal
