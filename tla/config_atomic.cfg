CONSTANTS
  p1 = p1
  p2 = p2
  n1 = n1
  n2 = n2
  m1 = m1
  m2 = m2
  c1 = c1
  c2 = c2
  c3 = c3
  None = None
  Procs = {p1, p2}
  OpsOf <- WizardOps
  Nodes = {n1, n2}
  LegacyCapable = {n1}
  Modes = {m1}
  Creds = {c1}
  InitialConfig <- MCInitialConfig
  FaultKinds = {"check", "write", "storage", "restart", "prune"}
  Installations = {TRUE}
  MaxFaults = 2
  MaxOps = 3
SPECIFICATION FairSpec
PROPERTIES
  FailedTransactionRestores
  CommandsEnd
  AtomicCommit
