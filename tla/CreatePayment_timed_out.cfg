\* A sweep times out a key whose payment was created.
SPECIFICATION Spec
CONSTANTS
  Requests = {r1, r2}
  Keys = {k1}
  good = good
  other = other
  cheap = cheap
  short = short
  Bodies = {good}
  BodyKind <- MCOneValid
  StartupSweeps = {startup}
  Workers = {worker}
  SweepLimit = 1
  SlowHandlers = FALSE
  None = None
INVARIANT TimedOutKeyHasNoPayment
