CONSTANTS
  Caller = {c1,c2}
  k1 = k1
  k2 = k2
  u1 = u1
  Keyed = {k1,k2}
  Unkeyed = {u1}
  Request <- MCRequest
  Concurrency = 2
  Maximum = 5
  Ttl = 1
  MaxRequests = 3
  MaxTime = 1
  MaxTroubles = 1
SPECIFICATION Spec
INVARIANTS OneOfferPerKey LinksResolve OffersMatch
PROPERTIES EveryBatchEnds
CHECK_DEADLOCK FALSE
