SPECIFICATION RelaySpec
CONSTANTS
  BufSize = 10
  CrcOk <- MCCrcOk
  Depth = 2
  MaxFrame = 10
  Frames <- MCFrames
  MaxBatch = 3
  FamilySlots = 8
  CounterMod = 2
  WindowCap = 1
  DefaultConfig <- MCConfig
  Configs = {}
  Writable = {}
  Lines <- MCLines
  RxCap = 2
  MaxCommands = 1
  TxCap = 18
INVARIANTS NoneLostUnseen SentInOrder
PROPERTY Empties
CHECK_DEADLOCK FALSE
