SPECIFICATION ApiSpec
CONSTANTS
  s1 = s1
  s2 = s2
  k1 = k1
  k2 = k2
  b1 = b1
  b2 = b2
  p1 = p1
  none = none
  tabs = tabs
  other = other
  Servers = {s1, s2}
  Keys = {k1, k2}
  Bodies = {b1, b2}
  Pages = {p1}
  None = none
  MaxRequests = 3
  MaxActive = 1
  MaxFaults = 1
  Browsers = {tabs, other}
  RefreshTtl = 2
  AccessTtl = 1
  MaxTime = 3
  MaxCalls = 3
  MaxRestarts = 1
INVARIANT AnsweredIsStored
INVARIANT ConflictIsJustified
INVARIANT LimitPerServer
INVARIANT TokensAreBounded
INVARIANT BrowserInStep
PROPERTY KeepsPromise
PROPERTY EndedStaysEnded
CHECK_DEADLOCK FALSE
