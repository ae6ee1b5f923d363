CONSTANTS
  u1 = u1
  u2 = u2
  c1 = c1
  c2 = c2
  S = S
  NoConn = NoConn
  Users <- OneUser
  Conns <- OneConn
  Win32 = FALSE
  Calls <- SendOnly
  MaxMsgs = 0
SPECIFICATION SafeSpec
INVARIANT ClientsAreValid
CHECK_DEADLOCK FALSE
