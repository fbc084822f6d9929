CONSTANTS
  N = 5
  Chunk = 2
  MaxLen = 5
  MaxFrames = 12
SPECIFICATION OutSpec
INVARIANTS
  OutTypeOK
  NeverShort
  ErasedAfterUse
PROPERTY FifoSpec
