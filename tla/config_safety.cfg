CONSTANTS
  p1 = p1
  p2 = p2
  n1 = n1
  n2 = n2
  m1 = m1
  m2 = m2
  c1 = c1
  c2 = c2
  c3 = c3
  None = None
  Procs = {p1, p2}
  OpsOf <- PublishRegenerateOps
  Nodes = {n1, n2}
  LegacyCapable = {n1}
  Modes = {m1,m2}
  Creds = {c1,c2,c3}
  InitialConfig <- MCInitialConfig
  FaultKinds = {"check", "write", "owner", "undo", "storage", "restart", "rollback", "prune", "crash"}
  Installations = {TRUE,FALSE}
  MaxFaults = 2
  MaxOps = 3
SPECIFICATION Spec
INVARIANTS
  CommittedBundle
  RevokedNeverServed
