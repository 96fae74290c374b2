CONSTANTS
  None = None
  Commands = {c1, c2}
  Installers = {c1}
  Ops = {"install", "replace", "uninstall", "purge", "remove", "switch"}
  Hosts = {"clean", "managed", "leftover", "foreign"}
  Modes = {TRUE, FALSE}
  FaultKinds = {"preflight", "archive", "services", "delete", "check", "write", "start", "undo", "crash"}
  MaxFaults = 1
  MaxCommands = 2
  StorageHosts = {"h"}
  ServerNames = {"h", "s"}
  Absent = Absent
  StorageChanges = 3
  StoragePublications = 1
  StorageFailures = 1
CHECK_DEADLOCK FALSE
SPECIFICATION HostSpec
INVARIANTS
  NothingLost
  OnlyServicesRead
PROPERTIES
  FailedInstallRestores
  UnitsFitMode
