SPECIFICATION Spec
CONSTANTS
  CoordHi = 2
  CoordLo = 4
  PublishArp <- MCPublishArp
  Seal <- MCSeal
  ScratchSize = 1100
  U32 = 2
  TableCap = 1
  Second = 2
  Inputs <- MCInputs
  Spaces = {10, 1100}
  UsedFilters = {"none", "KeepStationAndMsm", "IsoOnly"}
  StartMasks <- MCStartMasks
  MaskTypes <- MCMaskTypes
  MaxFrames = 2
  MaxCalls = 2
INVARIANTS NoIdentityLeaks LostForRoomOnly ViewsAreTrue
CHECK_DEADLOCK FALSE
