SPECIFICATION LedgerSpec
CONSTANTS
  Depth = 2
  MaxFrame = 30
  Frames <- MCFrames
  MaxBatch = 4
  FamilySlots = 8
  CounterMod = 100
  WindowCap = 3
  DefaultConfig <- MCConfig
  Configs <- MCConfigs
  Writable = {30}
  MaxPushes = 6
INVARIANTS FramesAccounted UnhealthyIsEarned
PROPERTIES SampleMatchesCounter RefusalIsLastResort
