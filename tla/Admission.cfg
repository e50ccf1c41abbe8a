CONSTANTS
  Caller = {c1,c2}
  p1 = p1
  p2 = p2
  i2 = i2
  v1 = v1
  i1 = i1
  Ip = {i1,i2}
  Point = {p1,p2}
  Vendor = {v1}
  VendorOf <- MCVendorOf
  Request <- MCRequest
  PerIp = 1
  PerServicePoint = 1
  Window = 2
  SessionTtl = 3
  MaxPending = 1
  MaxRequests = 3
  MaxTime = 3
  MaxSwitches = 2
  MaxTroubles = 1
SPECIFICATION Spec
SYMMETRY Callers
INVARIANTS PendingBounded OnePerReference RateKept
PROPERTIES BarredRefused
CHECK_DEADLOCK FALSE
