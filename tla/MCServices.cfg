SPECIFICATION ServicesSpec
CONSTANTS
  c1 = c1
  c2 = c2
  Conn = {c1, c2}
  NoConn = NoConn
  Slots = 1
  Backlog = 2
  Tcp = TRUE
  MaxStartFailures = 1
  p1 = p1
  Pid = {p1}
  NoPid = NoPid
  Anon = {}
  NoSid = NoSid
  u1 = u1
  u2 = u2
  Program = {u1, u2}
  MaxUnclear = 1
  k1 = k1
  Tick = Tick
  Pool = {}
  Cli = {k1}
  Crews <- OneCommandLine
  MaxTasks = 2
  MaxStops = 1
  DrainLimit = 0
  KeepFirst = 1
  Unreadable = Unreadable
  d1 = d1
  g = g
  m1 = m1
  m2 = m2
  Msg = {m1, m2}
  Guest = {g}
  Daemon = {d1}
  None = None
  DiskFills = TRUE
  Capacity = 2
  MaxCapacity = 3
  MaxCrashes = 0
  MaxFaults = 0
  b1 = b1
  b2 = b2
  Caller = {b1, b2}
  IdleReaper = IdleReaper
  t1 = t1
  Tab = {t1}
  FirstTab = t1
  MaxDrivers = 2
  MaxUses = 2
CHECK_DEADLOCK FALSE
INVARIANTS
  SlotsAccounted
  HandledWasAllowed
  WaitingClientsAnswered
PROPERTIES
  ConnectionsEnd
  DeadClaimsPruned
  SeenSessionsKeepTheModel
  IdleModelStopped
  QueuedTasksTaken
  AppendsEnd
  UnusedDriverEnds
