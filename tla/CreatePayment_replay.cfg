\* The answer of a failed request against the answer of its replay.
SPECIFICATION Spec
CONSTANTS
  Requests = {r1, r2}
  Keys = {k1}
  good = good
  other = other
  cheap = cheap
  short = short
  Bodies = {good, cheap, short}
  BodyKind <- MCMixed
  StartupSweeps = {startup}
  Workers = {worker}
  SweepLimit = 1
  SlowHandlers = FALSE
  None = None
INVARIANT ReplayRepeatsAnswer
