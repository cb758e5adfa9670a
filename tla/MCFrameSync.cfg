SPECIFICATION SyncSpec
CONSTANTS
  BufSize = 12
  CrcOk <- LineCrcOk
  Frames <- Mixed
  Noise = {0, 1, 3, 211}
  MaxDamage = 3
PROPERTIES FindsFrames StaysInStep
