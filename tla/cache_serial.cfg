SPECIFICATION Spec
CONSTANTS
  Readers = {r1, r2}
  Starter = dev
  NoThread = none
  SectorSize = 2
  Size = 8
  Word = 64
  MaxIo = 2
  Retry = 2
  Requests <- AnyRequests
  Prefetch <- FirstSectors
  PastEnd = {"cut"}
  ShortAnswers = TRUE
  Pressure = TRUE
INVARIANTS MemoryHeld ReadsImage HealthyReadsServed
CONSTRAINT StopAtOverlap
SYMMETRY ReaderSymmetry
