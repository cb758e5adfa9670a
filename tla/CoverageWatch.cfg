SPECIFICATION Spec
CONSTANTS
  U32 = 6
  TableCap = 2
  Second = 2
  Types = {1005, 1077, 1019}
  Lens = {1, 3}
  LateAfter = 2
  Steps = {1, 3}
  MaxTime = 10
  MaxFrames = 3
INVARIANTS MissingMeansNeverSeen LateMeansOld MaxGapIsReal RateIsLastWindow
CHECK_DEADLOCK FALSE
