CONSTANTS
  Credential = {c1,c2}
  Revocable = {c1}
  Historic = {c1}
  Caller = {k1,k2}
  Expected = {1}
  MaxRevision = 3
  MaxTroubles = 1
SPECIFICATION FairSpec
INVARIANTS TypeOK ListMatches ToldConsistently
PROPERTIES ExpectationKept ImplementsContract EveryCallEnds
