CONSTANTS
  e1 = e1
  e2 = e2
  e3 = e3
  r1 = r1
  r2 = r2
  None = None
  Entry = {e1, e2}
  Reader = {r1, r2}
  Capacity = 2
SPECIFICATION FairSpec
INVARIANTS
  TypeOK
  MetricsMissOnlyLost
  ShutdownDrains
PROPERTIES
  FlushEnds
CHECK_DEADLOCK FALSE
