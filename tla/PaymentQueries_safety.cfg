\* Three identifiers, four methods of payment and two customers; pages of one
\* or two payments, and a limit above the maximum.
SPECIFICATION Spec
CONSTANTS
  N = 3
  MaxAmount = 10
  Limits = {1, 2, 3}
  DefaultLimit = 1
  MaxLimit = 2
  Bodies <- MCBodies
  Times <- MCTimes
  Now <- MCNow
  UPIIDs <- MCUPIIDs
  IFSCs <- MCIFSCs
  NULL = NULL
INVARIANTS
  TypeOK
  OnlyCurrencyCanFail
  BrandMatchesCvv
  MistypedCardRefused
  PageExtendsWalk
  WalkIsComplete
  ReadBackAgrees
PROPERTIES
  ReadingSpec
  WalkEnds
