SPECIFICATION Spec
CONSTANTS
  Depth = 3
  MaxFrame = 30
  Frames <- MCFrames
  MaxBatch = 4
  FamilySlots = 8
  CounterMod = 1
  WindowCap = 2
  DefaultConfig <- MCConfig
  Configs <- MCConfigs
  Writable = {14, 30}
INVARIANTS EpochsInOrder NoBatchReuse OneEpochPerBatch ProtectedOnce
PROPERTIES ProtectedStays WholeBatches OldestEpochFirst LossOnlyWhenFull
