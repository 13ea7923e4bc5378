SPECIFICATION ToolsSpec
CONSTANTS
  p1 = p1
  p2 = p2
  Proc = {p1, p2}
  Clearer = {p1}
  NoProc = NoProc
  Inode = {1, 2, 3, 4, 5, 6, 7, 8}
  Absent = 0
  Empty = Empty
  Torn = Torn
  Part <- MCPart
  Prompt <- TwoPrompts
  Conflict <- MCConflict
  Role <- MCRole
  NoRole = ""
  Overlap <- MCOverlap
  AskedIds = {1, 2}
  MaxCalls = 4
  MaxCrashes = 0
  MaxStamp = 1
  Ticker = Ticker
  c1 = c1
  c2 = c2
  c3 = c3
  Cli = {c1, c2}
  Planner = {c1, c2, c3}
  Name <- Names3
  Within <- NamesWithin
  Timing <- Times3
  Hour = 3
  MaxMinutes = 2
  MaxEntries = 2
  MaxTicks = 2
  MaxSteps = 2
  Unreadable = Unreadable
  NoPlan = NoPlan
  w1 = w1
  w2 = w2
  w3 = w3
  Console = {w1, w2, w3}
  Nobody = Nobody
  j1 = j1
  j2 = j2
  Work = {j1, j2}
  TimedWork = {j2}
  MaxWrites = 3
  MaxSlips = 1
  g1 = g1
  g2 = g2
  Getter = {g1, g2}
  Beside = Beside
  v1 = v1
  v2 = v2
  Version = {v1, v2}
  Length <- TwoOrThree
  Lanes = {1, 2}
  Gone = Gone
  NoHash = NoHash
  MaxUpdates = 1
  h1 = h1
  h2 = h2
  Doctor = {h1, h2}
  l1 = l1
  l2 = l2
  Launch = {l1, l2}
  Common = {"memory"}
  Gated = {"browser"}
  DoctorOnly = {"slim"}
  LaunchOnly = {"secops"}
  Users = {"mine"}
  Unset = "unset"
  FromEnv = "env"
  FromConf = "conf"
  Missing = Missing
  Blank = Blank
  Crews <- TwoAtWork
  Keep = 1
  MaxSeconds = 1
  MaxEdits = 1
  MaxRuns = 2
  n1 = n1
  n2 = n2
  Cve = {n1, n2}
  Exploited = {n1}
  Severe = {n2}
  f1 = f1
  f2 = f2
  Poll = {f1, f2}
  NoLine = NoLine
  Limit = 1
  MaxPieces = 4
SYMMETRY Alike
CHECK_DEADLOCK FALSE
INVARIANTS
  ClearsCostOneArchive
  TimetableIsKept
  ToolsAreSound
  IntelIsComplete
