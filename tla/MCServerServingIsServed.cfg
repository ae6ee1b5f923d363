CONSTANTS
  u1 = u1
  u2 = u2
  c1 = c1
  c2 = c2
  S = S
  NoConn = NoConn
  Users <- OneUser
  Conns <- OneConn
  Win32 = FALSE
  Calls <- StopOnly
  MaxMsgs = 1
SPECIFICATION SafeSpec
INVARIANT ServingIsServed
CHECK_DEADLOCK FALSE
