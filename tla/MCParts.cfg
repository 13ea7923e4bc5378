SPECIFICATION PartsSpec
CONSTANTS
  p1 = p1
  p2 = p2
  Pid = {p1, p2}
  NoPid = NoPid
  a1 = a1
  Anon = {a1}
  NoSid = NoSid
  u1 = u1
  u2 = u2
  Program = {u1, u2}
  MaxUnclear = 1
  t1 = t1
  t2 = t2
  Command = {t1, t2}
  d1 = d1
  d2 = d2
  Daemon = {d1, d2}
  Nobody = Nobody
  w1 = w1
  k1 = k1
  Tick = Tick
  Pool = {w1}
  Cli = {k1}
  Crews <- OneBesideTheTick
  MaxTasks = 2
  MaxStops = 1
  DrainLimit = 0
  KeepFirst = 1
  Unreadable = Unreadable
  Width <- LongAndShort
  MaxTorn = 2
  Facts <- OneShared
  s1 = s1
  s2 = s2
  Distiller = {s1, s2}
  Cap = 1
  MaxRuns = 3
  MaxCalls = 2
  MaxNoise = 1
  c1 = c1
  c2 = c2
  Caller = {c1, c2}
  NoSession = NoSession
  MaxSessions = 3
  r1 = r1
  Reader = {r1}
  Window = 5
  Extra = 1
  Limits = {1, 2}
  MaxRows = 4
  MaxHalves = 1
  MaxNotes = 1
  MaxReads = 1
  Alert = {1, 2}
  FromCve = {2}
  WithAddress = {1, 2}
  Shown = 1
  Many = 1
  MaxCommands = 2
  IdleReaper = IdleReaper
  b1 = b1
  b2 = b2
  Tab = {b1, b2}
  FirstTab = b1
  MaxDrivers = 2
  MaxUses = 3
SYMMETRY Alike
CHECK_DEADLOCK FALSE
INVARIANTS
  PartsTypeOK
  OpenSessionsClaimed
  OneDaemonInReach
  QueueTellsTrue
  CopiesFollow
  CallsRelayedTruly
  WindowsAreSound
