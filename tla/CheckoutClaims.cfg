CONSTANTS
  Session = {s1}
  Checkout = {s1}
  Proof = {p1,p2}
  None = None
  Handler = {h1,h2}
  Cleaner = {}
  SessionTtl = 1
  ResultVisibility = 1
  Presentation <- MCPresentation
  FailedExchange <- OneFailure
  TrustedDefinition <- MCTrusted
  RequiredFields <- MCRequired
  LegacyAllowed = FALSE
  Reader = {"details","list","result"}
  LastCreation = 0
  MaxTime = 3
  MaxTroubles = 2
SPECIFICATION Spec
SYMMETRY Exchanges
INVARIANTS TypeOK SingleExchange ClaimOwnership ApprovalJustified WebhooksMatchStore
PROPERTIES DecisionsFinal NothingLost
CHECK_DEADLOCK FALSE
