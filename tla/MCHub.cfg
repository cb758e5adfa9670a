SPECIFICATION Spec
CONSTANTS
  BufSize = 8
  CrcOk <- MCCrcOk
  U32 = 16
  TableCap = 1
  Second = 2
  Lines <- MCLines
  BatchSizes = {1, 4}
  UsedFilters = {"none", "KeepStationAndMsm", "DropMsm", "IsoOnly"}
  Clock = {3}
  MaxCalls = 2
INVARIANTS EmitsWanted CountersTell TablesAgree
CHECK_DEADLOCK FALSE
