\* Three requests race for one key with two bodies; handlers may outlive the
\* sweeps' minimum age.
SPECIFICATION Spec
CONSTANTS
  Requests = {r1, r2, r3}
  Keys = {k1}
  good = good
  other = other
  cheap = cheap
  short = short
  Bodies = {good, other}
  BodyKind <- MCTwoValid
  StartupSweeps = {startup}
  Workers = {worker}
  SweepLimit = 1
  SlowHandlers = TRUE
  None = None
SYMMETRY Symmetry
INVARIANTS
  TypeOK
  OnePaymentPerKey
  CompletedKeyNamesItsPayment
  SuccessNamesOwnPayment
  ResolvedOnce
PROPERTIES
  CompletedIsFinal
  RegisterSpec
