CONSTANTS
  u1 = u1
  u2 = u2
  c1 = c1
  c2 = c2
  S = S
  NoConn = NoConn
  Users <- OneUser
  Conns <- OneConn
  Win32 = TRUE
  Calls <- StopOnly
  MaxMsgs = 0
SPECIFICATION SafeSpec
INVARIANT StopEndsServing
CHECK_DEADLOCK FALSE
