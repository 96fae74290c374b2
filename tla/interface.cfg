CONSTANTS
  None = None
  Nodes = {"n1", "n2"}
  Conns = {"c1", "c2"}
  Names = {"home", "work"}
  FirstList <- MCFirst
  AutoProxy = FALSE
  RingSize = 2
  ReadLimit = 1
  Sessions <- MCSessions
SPECIFICATION FairSpec
INVARIANTS
  ShowsOwnRun
  LinkGoesToItsProfile
PROPERTIES
  AskedThenDone
  SeenSettles
CHECK_DEADLOCK FALSE
