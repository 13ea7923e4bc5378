SPECIFICATION StoreSpec
CONSTANTS
  p1 = p1
  Proc = {p1}
  NoProc = NoProc
  Maintains = {p1}
  TaskId = {1, 2}
  k1 = k1
  Key = {k1}
  NoKey = NoKey
  NewTasks <- TimedOrTest
  Reports = {"completed"}
  MaxEvents = 3
  MaxMaintenance = 2
  MaxCrashes = 1
  MaxClock = 1
  Runs = {1}
CHECK_DEADLOCK FALSE
INVARIANTS
  StoreIsOrdered
  SnapshotIsExplained
PROPERTIES
  RecoveryRepeats
  RecoveryFindsAll
