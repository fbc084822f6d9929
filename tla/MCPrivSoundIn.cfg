CONSTANTS
  N = 4
  MaxLen = 5
  MaxFrames = 8
SPECIFICATION InSpec
INVARIANTS
  InTypeOK
  ReadsInStep
  NothingLost
