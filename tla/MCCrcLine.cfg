SPECIFICATION LineSpec
CONSTANTS
  Bytes <- MCBytes
  Flips <- MCFlips
  MaxBody = 4
INVARIANTS EnginesAgree BurstsDetected
CHECK_DEADLOCK FALSE
