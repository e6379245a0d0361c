\* A handler that outlives sweepMinAge completes a key a sweep has failed.
SPECIFICATION Spec
CONSTANTS
  Requests = {r1, r2}
  Keys = {k1}
  good = good
  other = other
  cheap = cheap
  short = short
  Bodies = {good}
  BodyKind <- MCOneValid
  StartupSweeps = {startup}
  Workers = {worker}
  SweepLimit = 1
  SlowHandlers = TRUE
  None = None
PROPERTY ResolvedIsFinal
