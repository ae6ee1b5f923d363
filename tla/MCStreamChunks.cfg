CONSTANTS
  LenSize = 2
  Base = 3
  Block = 2
  NonceSize = 1
  EncKeySize = 1
  IntMax = 5
  Sizes <- MCSizes
  KeySize = 1
  Buffer = 10
  MaxMsgs = 1
SPECIFICATION SafeSpec
INVARIANT ChunksAreJoined
CHECK_DEADLOCK FALSE
