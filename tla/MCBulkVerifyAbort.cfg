CONSTANTS
  NItems = 3
  Workers = {w1, w2}
  Main = main
  f = f
  Paths = {f}
  NoPath = none
  PathOf <- MCPathOf
  BatchSize = 2
  Older = 1
  MaxSnapshots = 3
  MaxFailures = 0
  MaxRaises = 0
SPECIFICATION Spec
INVARIANT ItemNeverAborts
