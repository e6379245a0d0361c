\* Two payments, three requests, no symmetry (the property is temporal).
SPECIFICATION FairSpec
CONSTANTS
  Payments = {p1, p2}
  Requests = {r1, r2, r3}
  NoRequest = NoRequest
  NoCall = NoCall
PROPERTY EveryCallReturns
