CONSTANTS
  NItems = 3
  Workers = {w1, w2}
  Main = main
  f = f
  Paths = {f}
  NoPath = none
  PathOf <- MCPathOf
  BatchSize = 2
  Older = 1
  MaxSnapshots = 3
  MaxFailures = 1
  MaxRaises = 1
SPECIFICATION FairSpec
INVARIANT TypeOK
INVARIANT StoredOnce
INVARIANT VerdictsStored
INVARIANT ErrorsNotStored
INVARIANT PruneKeeps
PROPERTY CallEnds
