SPECIFICATION FairSpec
CONSTANTS
  Readers = {r1}
  Starter = dev
  NoThread = none
  SectorSize = 2
  Size = 3
  Word = 64
  MaxIo = 2
  Retry = 2
  Requests <- FewRequests
  Prefetch <- FirstSectors
  PastEnd = {"refuse", "cut"}
  ShortAnswers = TRUE
  Pressure = TRUE
PROPERTIES ImplementsDisk ReadsAnswered
