CONSTANTS
  tui = tui
  gui = gui
  p1 = p1
  p2 = p2
  direct = direct
  corporate = corporate
  None = None
  Clients = {tui}
  Ports = {p1, p2}
  UserProxies = {direct, corporate}
  Off = direct
  MaxRestarts = 2
  StorageFails = FALSE
  ProxyFails = TRUE
  StaleBackups = FALSE
  LateSteps = FALSE
  Bound <- Everything
SPECIFICATION FairSpec
CHECK_DEADLOCK FALSE
INVARIANTS
  StoppedStaysStopped
  ProxyServed
  UserProxyKept
PROPERTIES
  ComesToRest
