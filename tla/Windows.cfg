SPECIFICATION WindowsSpec
CONSTANTS
  v1 = v1
  v2 = v2
  c1 = c1
  c2 = c2
  f1 = f1
  f2 = f2
  Views = {v1, v2}
  Calls = {c1, c2}
  None = None
  MaxWins = 2
  MaxJoins = 1
  MaxEvents = 2
  Files = {f1, f2}
  Update = Update
  MaxItems = 1
  MaxStarted = 2
  MaxUpdates = 2
  MaxRestarts = 1
  Predefined = {1}
  Local = {2}
  ViewLimit = 3
  MaxServers = 3
  MaxViews = 4
  MaxMishaps = 1
  MaxTracks = 3
  MaxTasks = 2
INVARIANTS TypeOK ControlApproved  ProgressIsReal  ReferencesLive MediaAgrees ClosedIsQuiet
CHECK_DEADLOCK FALSE
