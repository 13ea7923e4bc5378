SPECIFICATION Spec
CONSTANTS
  MaxWorkers = 3
  Old = 2
  MaxThreads = 7
INVARIANT ReplacedAreDead
CHECK_DEADLOCK FALSE
