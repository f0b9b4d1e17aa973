CONSTANTS
  Calls = {c1, c2}
  Sites = {"serves", "headless", "elsewhere", "offsite", "gone", "throttles", "breaks"}
  Attempts = 2
  Ttl = 1
  Latency = 0
  MaxTime = 2
  MaxChanges = 1
  MaxCalls = 3
SPECIFICATION Spec
CHECK_DEADLOCK FALSE
INVARIANTS
  TypeOK
  TellsTheTruth
  OutlastsRetries
  NeverGoesBack
SYMMETRY CallSymmetry
