SPECIFICATION Spec
CONSTANTS
  InSize = 3
  Huge = 1000
  Options <- WholeFile
  Reach = 10
  Start = 20
  End = 80
  Ranges = TRUE
  Sendfile = TRUE
INVARIANT CountCoversLength
CHECK_DEADLOCK FALSE
