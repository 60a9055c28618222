SPECIFICATION FairSpec
CONSTANTS
  Tags = {t1, t2}
  Rounds = 1
  Kinds = {"read", "write"}
  Slots = {s1, s2}
  Nobody = nobody
  Writable = FALSE
INVARIANT WholeReplies
PROPERTIES ImplementsDisk RequestsAnswered EndNoticed
CHECK_DEADLOCK FALSE
