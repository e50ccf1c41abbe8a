CONSTANTS
  Credential = {c1}
  Revocable = {c1}
  Historic = {}
  Caller = {k1}
  Expected = {}
  MaxRevision = 3
  MaxTroubles = 1
SPECIFICATION Spec
INVARIANTS RevokedIsListed
