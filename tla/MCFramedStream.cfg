SPECIFICATION Spec
CONSTANTS
  BufSize = 7
  CrcOk <- MCCrcOk
  Bytes = {0, 1, 211}
  OutCaps = {6, 7}
  MaxFed = 9
INVARIANTS BufferIsStreamTail VerdictsAreTrue DeliveredFromStream OnlyNoiseSkipped AlignedFrameDelivered
CHECK_DEADLOCK FALSE
