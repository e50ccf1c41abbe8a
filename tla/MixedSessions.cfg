CONSTANTS
  Session = {s1,s2}
  Checkout = {s2}
  Proof = {p1}
  None = None
  Handler = {h1}
  Cleaner = {k1}
  SessionTtl = 1
  ResultVisibility = 1
  Presentation <- OnePresentation
  FailedExchange <- OneFailure
  TrustedDefinition <- MCTrusted
  RequiredFields <- MCRequired
  LegacyAllowed = FALSE
  Reader = {"details","list","result"}
  LastCreation = 0
  MaxTime = 2
  MaxTroubles = 0
SPECIFICATION Spec
INVARIANTS MaterialKept
PROPERTIES ImplementsSessionContract DisclosureInWindow
CHECK_DEADLOCK FALSE
