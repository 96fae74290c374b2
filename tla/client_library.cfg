CONSTANTS
  Missing = Missing
  ProfileNames = {"home", "h-me"}
  LegacyPath <- MCLegacyPath
  FirstProfiles <- MCFirst
  LegacyFiles <- MCLegacyFiles
  Urls <- MCUrls
  Replies <- MCReplies
  LocalFiles <- MCFiles
  Documents <- Parse
  OverrideTexts <- MCTexts
  TrafficModes = {"SystemProxy", "Tun"}
  Faults = {"save", "cache", "delete"}
  MaxImports = 4
  MaxCommands = 5
  MaxFaults = 1
  MaxOpens = 2
  Platforms = {"windows", "linux", "macos", "macos-first"}
  Absent = Absent
  Clients = {gui, tui}
  Releases = {1, 2}
  Archives <- MCArchives
  NoArchive = NoArchive
  Systems = {"windows", "linux"}
  Latest = Latest
  MaxLives = 3
  MaxDownloads = 3
SPECIFICATION DirectorySpec
INVARIANTS
  RunsTheMerge
  UserSettingKept
  DownloadsAreSafe
PROPERTIES
  NothingIsLost
  OwnFiles
CHECK_DEADLOCK FALSE
