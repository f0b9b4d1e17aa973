CONSTANTS
  u1 = u1
  u2 = u2
  c1 = c1
  c2 = c2
  Calls = {c1, c2}
  Urls = {u1, u2}
  Inputs <- MCInputs
  ReuseRecent = {c1}
  Concurrency = 2
  Retries = 1
  MaxAttempts = 2
  MaxLost = 1
  MaxCrashes = 1
  MaxFailures = 1
SPECIFICATION FairSpec
INVARIANT TypeOK
INVARIANT JobsAccounted
INVARIANT ResultIsTheJob
INVARIANT ResultsRecorded
INVARIANT QuotaStops
PROPERTY CallReturns
