SPECIFICATION InstallSpec
CONSTANTS
  Programs = {"flasher"}
  Flashers = {f1, f2}
  Nobody = nobody
  MaxStatus = 0
  Manifests <- MCManifests
  Refs <- MCRefs
  FileRefs <- MCFileRefs
INVARIANTS LockCoversWork ImageServed
PROPERTIES OthersUntouched CancelEnds
CHECK_DEADLOCK FALSE
