CONSTANTS
  Jobs = {j1}
  Pollers = {p1, p2}
  Submitted = 3
  Slack = 1
  MaxTime = 4
SPECIFICATION FairSpec
INVARIANT TypeOK
INVARIANT FinalAnswerStored
INVARIANT IdentityKept
INVARIANT SuccessHasCapture
INVARIANT WaitedIsResumable
PROPERTY FinalStaysFinal
PROPERTY WaitEnds
