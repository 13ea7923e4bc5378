SPECIFICATION Spec
CONSTANTS
  d1 = d1
  m1 = m1
  m2 = m2
  Msg = {m1, m2}
  Guest = {}
  Daemon = {d1}
  None = None
  Backlog = 2
  DiskFills = TRUE
  Capacity = 3
  MaxCapacity = 4
  MaxCrashes = 0
  MaxFaults = 0
INVARIANT AckedIsWritten
CHECK_DEADLOCK FALSE
