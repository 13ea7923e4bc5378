SPECIFICATION QuietSpec
CONSTANTS
  p1 = p1
  p2 = p2
  Proc = {p1, p2}
  Clearer = {p1}
  NoProc = NoProc
  Inode = {1, 2, 3, 4, 5, 6, 7, 8}
  Absent = 0
  Empty = Empty
  Torn = Torn
  Part <- MCPart
  Prompt <- MCPrompt
  Conflict <- MCConflict
  Role <- MCRole
  NoRole = ""
  Overlap <- MCOverlap
  AskedIds = {1, 2}
  MaxCalls = 4
  MaxCrashes = 1
  MaxStamp = 0
CHECK_DEADLOCK FALSE
INVARIANTS
  SubmittedItemsKept
  IdsIdentify
  ListsAreConsistent
PROPERTIES
  AtomicQueue
  CallsReturn
