\* What recovery would rebuild of a stored payment is not what the handler returned.
SPECIFICATION Spec
CONSTANTS
  N = 3
  MaxAmount = 10
  Limits = {1, 2, 3}
  DefaultLimit = 1
  MaxLimit = 2
  Bodies <- MCBodies
  Times <- MCTimes
  Now <- MCNow
  UPIIDs <- MCUPIIDs
  IFSCs <- MCIFSCs
  NULL = NULL
INVARIANT RebuiltResponseIsHandlers
