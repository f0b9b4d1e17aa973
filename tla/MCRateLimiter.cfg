CONSTANTS
  Requests = {r1, r2, r3, r4}
  Concurrency = 2
  MinInterval = 2
  MaxPause = 3
SPECIFICATION FairSpec
INVARIANT TypeOK
INVARIANT PermitsAccounted
PROPERTY Paced
PROPERTY Served
