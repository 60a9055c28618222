SPECIFICATION FairSpec
CONSTANTS
  Adders = {a1, a2}
  Workers = {w1, w2}
  Jobs = {j1, j2, j3}
  NoJob = nojob
  Free = free
INVARIANT QueueServed
PROPERTIES PoolServes ImplementsPool
CHECK_DEADLOCK FALSE
