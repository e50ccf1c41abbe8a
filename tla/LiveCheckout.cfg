CONSTANTS
  Session = {s1}
  Checkout = {s1}
  Proof = {p1}
  None = None
  Handler = {h1}
  Cleaner = {k1}
  SessionTtl = 1
  ResultVisibility = 1
  Presentation <- ShortLived
  FailedExchange <- NoFailures
  TrustedDefinition <- MCTrusted
  RequiredFields <- MCRequired
  LegacyAllowed = FALSE
  Reader = {}
  LastCreation = 0
  MaxTime = 2
  MaxTroubles = 1
SPECIFICATION FairSpec
PROPERTIES EventuallyDecided EventuallyRemoved
CHECK_DEADLOCK FALSE
