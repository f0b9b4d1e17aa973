CONSTANTS
  Calls = {c1, c2}
  Forced = {}
  Workers = 1
  Inodes = {i1, i2}
  NoFile = none
  i1 = i1
  i2 = i2
  a = a
  b = b
  Chunks = {a, b}
  Contents <- MCContents
  MaxTime = 1
  MaxChanges = 2
SPECIFICATION MCSpec
INVARIANT TypeOK
INVARIANT ReusableIsCurrent
INVARIANT AnswerWasTrue
INVARIANT KnownNotRehashed
PROPERTY CallEnds
