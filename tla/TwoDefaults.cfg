CONSTANTS
  Caller = {c1,c2}
  d1 = d1
  d2 = d2
  n1 = n1
  p1 = p1
  p2 = p2
  None = None
  Definition = {d1,d2,n1}
  Revocable = {d1,d2}
  Prepared = {d1,d2}
  Point = {p1,p2}
  Unbound = {p2}
  Configured <- MCConfigured
  Request <- MCRequest
  MaxRequests = 3
  MaxTroubles = 0
SPECIFICATION Spec
INVARIANTS AtMostOneDefault
CHECK_DEADLOCK FALSE
