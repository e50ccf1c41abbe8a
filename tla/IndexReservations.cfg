CONSTANTS
  Caller = {c1,c2,c3}
  Registry <- MCRegistry
  Maximum <- MCMaximum
  Operation <- MCReservation
  Contents <- MCCounters
  Empty <- NoneReserved
  Answer <- MCAnswer
  Result <- ReserveRange
  MaxCalls = 4
  MaxTroubles = 2
SPECIFICATION Spec
INVARIANTS IndexesUnique
PROPERTIES ImplementsAtomicFile EveryOperationEnds
CHECK_DEADLOCK FALSE
