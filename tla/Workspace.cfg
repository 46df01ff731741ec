SPECIFICATION WorkspaceSpec
CONSTANTS
  Local = {l1}
  l1 = l1
  u1 = u1
  u2 = u2
  u3 = u3
  d1 = d1
  d2 = d2
  Url <- MCUrl
  CacheDir <- MCCacheDir
  NameQuery = {"all", "remote"}
  Naming <- MCNaming
  NoSource = NoSource
  None = None
  Remembered <- MCRemembered
  Width = {1, 2}
  DefaultWidth = 1
  NoLayout = NoLayout
  NoTransition = NoTransition
  MaxTransitions = 2
  MaxInputs = 3
  MaxLaunches = 2
INVARIANTS
  WorkspaceTypeOK
  CloneRowIsTrue
  ListedRemotesAreCloned
  ReportedIsShown
  SettingsAreKept
PROPERTIES
  BusyEnds
  WindowFollowsActive
CHECK_DEADLOCK FALSE
