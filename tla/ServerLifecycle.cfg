\* Two requests and both sweeps share one or two connections, in integers of
\* three bits.  The process stops.
SPECIFICATION Spec
CONSTANTS
  Requests = {r1, r2}
  Envs <- MCEnvs
  DefaultConns = 2
  HalfWord = 4
  MaxStatements = 2
INVARIANTS
  TypeOK
  OrderlyExit
  OnlyWorkerIsRefused
PROPERTIES
  ServerSpec
  ShutdownCompletes
  RequestsEnd
CHECK_DEADLOCK FALSE
