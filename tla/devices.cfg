CONSTANTS
  Tags = {t1, t2}
  Kinds = {"read", "write", "other"}
  Writable = TRUE
  Users = {u1, u2}
  Reads = 2
  Nobody = Nobody
SPECIFICATION Spec
INVARIANT LoopHasFile
PROPERTIES ImplementsDisk DevicesEnd
CHECK_DEADLOCK FALSE
