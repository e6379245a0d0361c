\* One payment and five concurrent requests: enough to create, confirm and
\* capture it and still have two requests race for the refund.
SPECIFICATION Spec
CONSTANTS
  Payments = {p1}
  Requests = {r1, r2, r3, r4, r5}
  NoRequest = NoRequest
  NoCall = NoCall
SYMMETRY Symmetry
INVARIANTS
  TypeOK
  AuditTrail
  ReadStaysCurrent
  CapturedOrCancelledOnce
  OneWinner
  WaitsForRunning
PROPERTY LedgerSpec
