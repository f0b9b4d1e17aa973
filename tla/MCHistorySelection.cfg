CONSTANTS
  Calls = {c1}
  Files = {f1}
  NoFile = nofile
  Probe = probe
  digest <- Digest
  MaxJobs = 1
  MaxCalls = 1
  MaxTime = 1
SPECIFICATION Spec
CHECK_DEADLOCK FALSE
PROPERTIES
  JudgedByItsCapture
