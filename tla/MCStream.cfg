CONSTANTS
  LenSize = 4
  Base = 2
  Block = 2
  NonceSize = 1
  EncKeySize = 1
  IntMax = 5
  Sizes <- MCSizes
  KeySize = 1
  Buffer = 14
  MaxMsgs = 2
SPECIFICATION Spec
INVARIANTS TypeOK BuffersFit InStep NothingPastAHole
PROPERTIES ImplementsChannel Delivered
CHECK_DEADLOCK FALSE
