CONSTANTS
  None = None
  Floating = Floating
  Letters = Letters
  Development = Development
  TrustAnchor = key
  ReleaseKey = key
  Sessions = {t1, t2}
  Drafts <- MCDrafts
  Official <- MCOfficial
  Architecture = "amd64"
  Malformed = Malformed
  Asked <- MCAsked
  Terminals = {t1, t2}
  CertbotTimer = timer
  Hosts <- MCHosts
  Wildcard = Wildcard
  Life = 2
  RenewBefore = 0
  MaxTime = 4
  Overlap = FALSE
  MenuUser = t1
  MonthDays <- MCMonthDays
  DayLength = 8
  Hour = 2
  Timezones <- MCTimezones
  FirstInstant = 34
  LastInstant = 100
  ReleaseEvents = 3
  CertificateChanges = 2
  t1 = t1
  t2 = t2
  timer = timer
  key = key
  a = a
  b = b
  example = example
  org = org
SPECIFICATION Spec
INVARIANTS
  InstalledAsVerified
  PublishedIsServed
PROPERTIES
  HangUpEndsSession
  ResetWhenAnnounced
CHECK_DEADLOCK FALSE
