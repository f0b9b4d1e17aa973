CONSTANTS
  Calls = {c1, c2}
  Files = {f1}
  NoFile = nofile
  Probe = probe
  digest <- Digest
  MaxJobs = 2
  MaxCalls = 2
  MaxTime = 1
SPECIFICATION Spec
SYMMETRY Symmetry
CHECK_DEADLOCK FALSE
INVARIANTS
  TypeOK
  LaterCallWins
PROPERTIES
  PruneHidesNothing
