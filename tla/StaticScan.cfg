CONSTANTS
  Session = {s1}
  Checkout = {}
  Proof = {p1}
  None = None
  Handler = {h1}
  Cleaner = {k1,k2}
  SessionTtl = 1
  ResultVisibility = 1
  Presentation <- OnePresentation
  FailedExchange <- AllFailures
  TrustedDefinition <- MCTrusted
  RequiredFields <- MCRequired
  LegacyAllowed = FALSE
  Reader = {"details","list","result"}
  LastCreation = 0
  MaxTime = 3
  MaxTroubles = 0
SPECIFICATION Spec
SYMMETRY Exchanges
INVARIANTS MaterialKept ApprovalJustified
PROPERTIES NothingLost
CHECK_DEADLOCK FALSE
