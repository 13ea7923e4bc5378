SPECIFICATION FairSpec
CONSTANTS
  Engine = {e1}
  Thread = {d1, d2}
  Goals = {"website"}
  DispatchMax = 2
  Absent = Absent
  Empty = Empty
  Torn = Torn
  NoPlan = NoPlan
  MaxRuns = 1
  MaxCrashes = 1
CHECK_DEADLOCK FALSE
INVARIANTS
  StartedAfterDependencies
  FileTellsTrue
  RepeatedOnlyIfDisturbed
PROPERTY PlansSettle
