CONSTANTS
  None = None
  PinFails = TRUE
  MaxPublications = 1
  Updaters = {u1}
  Releases = {old, new, bad}
  Installed = old
  Candidates = {new, bad}
  Broken = {bad}
  CoreReadsPair = FALSE
  Kept = 1
  Names = {1, 2, 3, 4}
  Histories = {{1, 3}}
  FaultKinds = {"check", "copy", "write", "owner", "undo", "restart", "prune", "crash"}
  MaxFaults = 1
  MaxUpdates = 1
  MaxOthers = 1
CHECK_DEADLOCK FALSE
SPECIFICATION FairSpec
PROPERTIES
  FailedUpdateRestores
  RollbackPointComplete
  PinnedIsServed
