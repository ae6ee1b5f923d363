CONSTANTS
  u1 = u1
  u2 = u2
  c1 = c1
  c2 = c2
  S = S
  NoConn = NoConn
  Users <- OneUser
  Conns <- TwoConns
  Win32 = FALSE
  Calls <- StopRemove
  MaxMsgs = 1
SPECIFICATION Spec
INVARIANT StopLeavesAtMostOne
PROPERTIES StopReturns CloseIsNoticed
CHECK_DEADLOCK FALSE
