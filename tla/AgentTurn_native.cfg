\* The forms of a call the parsers make. A turn ends: no deadlock is looked for.
SPECIFICATION TurnSpec
CONSTANTS
  Tool = {"run_command", "memory_write", "rag_query"}
  Disabled = {"rag_query"}
  NoName = NoName
  MaxSteps = 2
  MaxRetries = 1
  MaxStreak = 3
  MaxLate = 1
INVARIANT CallsReachTheirTool
CHECK_DEADLOCK FALSE
