SPECIFICATION InstallSpec
CONSTANTS
  Programs = {"page", "urls"}
  Flashers = {f1}
  Nobody = nobody
  MaxStatus = 3
  Manifests <- MCManifests
  Refs <- MCRefs
  FileRefs <- MCFileRefs
INVARIANTS SuccessIsReal CallsFindPage DocumentsAreMeant
PROPERTIES CancelIsFinal PageEnds
CHECK_DEADLOCK FALSE
