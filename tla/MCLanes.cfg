SPECIFICATION LanesSpec
CONSTANTS
  d1 = d1
  d2 = d2
  m1 = m1
  m2 = m2
  Msg = {m1, m2}
  Guest = {}
  Daemon = {d1, d2}
  None = None
  Backlog = 2
  DiskFills = FALSE
  Capacity = 0
  MaxCapacity = 0
  MaxCrashes = 1
  MaxFaults = 1
  Tool = {"run_command", "memory_write", "rag_query"}
  Disabled = {"rag_query"}
  NoName = NoName
  MaxSteps = 2
  MaxRetries = 1
  MaxStreak = 3
  MaxLate = 1
  c1 = c1
  c2 = c2
  Viewer = {c1, c2}
  x1 = x1
  x2 = x2
  Value = {x1, x2}
  Unseen = Unseen
  Nobody = Nobody
  RingSize = 2
  MaxLines = 2
  MaxEvents = 3
  v1 = v1
  v2 = v2
  Version = {v1, v2}
  Chunks = 3
  Hole = Hole
  Absent = Absent
  MaxUpdates = 2
  Url <- Urls
  Host <- Hosts
  Ported = {"port"}
  LeadsTo <- Redirects
  Excluded <- Exclusions
  Spam = {"a3"}
  Social <- OneDomain
  Primary <- OneDomain
  NoPage = NoPage
  Enough = 2
  MaxResults = 3
  MaxPages = 2
  MaxSearches = 2
  p1 = p1
  p2 = p2
  Proc = {p1, p2}
  s1 = s1
  s2 = s2
  s3 = s3
  Said = {s1, s2, s3}
  FromUser = {s1, s2}
  Old = Old
  Nothing = Nothing
  NoProc = NoProc
  NoKey = NoKey
SYMMETRY Alike
CHECK_DEADLOCK FALSE
INVARIANTS
  LanesTypeOK
  StoredWhole
  StoresAreSound
  CallsReportedTruly
  AnswersAreSound
PROPERTY
  PublishedIsRemote
