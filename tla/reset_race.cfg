CONSTANTS
  timer = timer
  admin = admin
  other = other
  e0 = e0
  e1 = e1
  None = None
  Timer = timer
  Procs = {timer, admin}
  OpsOf <- TimerAndDirections
  Ifaces = {e0}
  Targets = {0, 1}
  MaxBytes = 3
  MaxTraffic = 2
  MaxPeriods = 0
  MaxBreaks = 0
  MaxReconfigurations = 0
  MaxCorrections = 1
SPECIFICATION Spec
INVARIANT CorrectionsSerialized
