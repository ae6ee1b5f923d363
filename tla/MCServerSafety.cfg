CONSTANTS
  u1 = u1
  u2 = u2
  c1 = c1
  c2 = c2
  S = S
  NoConn = NoConn
  Users <- TwoUsers
  Conns <- OneConn
  Win32 = FALSE
  Calls <- AllCalls
  MaxMsgs = 1
SPECIFICATION SafeSpec
INVARIANTS TypeOK DoneMeansDown EventOrder PopperFrees StopEndsServing
CHECK_DEADLOCK FALSE
