CONSTANTS
  Lookups = {c1, c2}
  Selections <- MCSelections
  Url <- MCUrl
  Rows <- MCRows
  NoRow = NoRow
  Accept <- MCAccept
  Limit = 1
  CdxTtl = 1
  NoCaptureTtl = 0
  Latency = 0
  MaxTime = 2
  MaxLookups = 2
SPECIFICATION Spec
CHECK_DEADLOCK FALSE
INVARIANT ExactIsFound
SYMMETRY LookupSymmetry
