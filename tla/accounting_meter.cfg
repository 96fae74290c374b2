CONSTANTS
  timer = timer
  admin = admin
  other = other
  e0 = e0
  e1 = e1
  None = None
  Timer = timer
  Procs = {timer, admin}
  OpsOf <- TimerAndAdmin
  Ifaces = {e0, e1}
  Targets = {0, 1}
  MaxBytes = 3
  MaxTraffic = 2
  MaxPeriods = 1
  MaxBreaks = 1
  MaxReconfigurations = 1
  MaxCorrections = 1
SPECIFICATION FairSpec
CONSTRAINT FewDisturbances
INVARIANTS
  TotalFollowsCorrection
  NeverOvercounted
  NothingLost
PROPERTIES
  StateBecomesCurrent
