CONSTANTS
  None = None
  Peers = {p1, p2}
  Burst = 2
  Refill = 2
  MaxTracked = 0
  MaxTime = 5
  Slots = {s1, s2}
  MaxConnections = 1
  MaxStops = 1
  Domain = domain
  Address = address
  Decoy = decoy
  DefaultSni = bing
  Instant = instant
  Unfit = unfit
  ProtocolPorts = {10000, 10001}
  HighPorts = {2080, 10000}
  Offered = {"vless-reality", "anytls"}
  ProxyHosts = {}
  Snis = {}
  MaxEdits = 3
SPECIFICATION HostSpec
INVARIANTS
  BudgetKept
  AnswersGiveNothingAway
  NothingDangles
  RoutesAgree
  NodesReachable
PROPERTIES
  DropsOnlyWhenFull
  EditsKeep
CHECK_DEADLOCK FALSE
