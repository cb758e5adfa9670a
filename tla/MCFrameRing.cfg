SPECIFICATION Spec
CONSTANTS
  Depth = 3
  MaxFrame = 30
  Frames <- MCFrames
  MaxBatch = 4
  FamilySlots = 8
  CounterMod = 1
  WindowCap = 2
  DefaultConfig <- MCConfig
  Configs <- MCConfigs
  Writable = {30}
  ByteMod = 2
INVARIANTS BytesAccounted FlagIsExact
PROPERTY RefinesQueue
