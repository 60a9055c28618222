SPECIFICATION FairSpec
CONSTANTS
  InSize = 3
  Huge = 1000
  Options <- CommandLines
  Reach = 10
  Start = 20
  End = 80
  Ranges = TRUE
  Sendfile = TRUE
INVARIANTS CopyExact DoneIsWhole
PROPERTY CommandEnds
CHECK_DEADLOCK FALSE
