SPECIFICATION Spec
CONSTANTS
  CoordHi = 2
  CoordLo = 4
  PublishArp <- MCPublishArp
  Seal <- MCSeal
  Satellites = {3, 17}
  Signals = {2, 15}
  Levels <- MCLevels
INVARIANT MeanIsOfTheCells
