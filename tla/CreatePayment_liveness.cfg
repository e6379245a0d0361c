\* One worker, two keys and a LIMIT of one: no key starves,
\* also when its handler panicked.
SPECIFICATION FairSpec
CONSTANTS
  Requests = {r1, r2}
  Keys = {k1, k2}
  good = good
  other = other
  cheap = cheap
  short = short
  Bodies = {good, short}
  BodyKind <- MCPanicking
  StartupSweeps = {}
  Workers = {worker}
  SweepLimit = 1
  SlowHandlers = TRUE
  None = None
PROPERTY EveryKeyResolved
