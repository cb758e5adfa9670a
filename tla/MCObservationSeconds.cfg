SPECIFICATION StreamSpec
CONSTANTS
  Depth = 4
  MaxFrame = 30
  Frames <- StationFrames
  MaxBatch = 5
  FamilySlots = 8
  CounterMod = 1
  WindowCap = 1
  DefaultConfig <- MCConfig
  Configs = {}
  Writable = {30}
  MaxSecond = 4
INVARIANTS WholeSeconds OpenSecondSurvives
